----------------------------- MODULE ImageLayout -----------------------------
(***************************************************************************)
(* The images that carry cloud-init files to a VM: a file system (FAT or   *)
(* ISO 9660) written sector by sector, as it is or inside a VHDX.          *)
(*                                                                         *)
(* A file is the lengths of its contents and of its name.  Of an image it  *)
(* matters which extents are written and what refers to which: the bytes   *)
(* of the FAT, the starts of the files in the directory and the blocks of  *)
(* the VHDX.  All other fields, times, names and checksums are left out.   *)
(***************************************************************************)
EXTENDS Integers, Sequences

CONSTANT Jobs         \* the images to write: a device, a file system and files

(* The files are meta-data, user-data and perhaps network-config.          *)
ASSUME JobsAssumption ==
    \A j \in Jobs : j.files \in Seq([len : Nat, name : 0 .. 14]) /\ Len(j.files) <= 3

KiB == 1024
MiB == 1024 * 1024

SectorSize == 512           \* bytes of a sector and of a cluster of a FAT
IsoSectorSize == 2048       \* bytes of a sector of ISO 9660
Fat16From == 4086           \* the sectors from which on a FAT has 16 bits
Fat32From == 65525          \* those from which on it is given up
BlockSize == MiB            \* bytes of a block of a VHDX
FilesystemStart == 4 * MiB  \* where the first block is
PadSize == 256              \* the most that is padded

VARIABLES
    job,       \* the image to write
    pc,        \* the next step
    measuring, \* whether the file system is only asked for its size
    base,      \* where the file system begins
    last,      \* its sectors
    bits,      \* the bits of an entry of the FAT
    fats,      \* the sectors of the FAT
    needed,    \* those it takes as last computed
    size,      \* the size that was returned
    blocks,    \* the blocks of the VHDX
    offset,    \* where the next sectors go
    i,         \* the next file
    left,      \* how much of it still needs clusters
    entry,     \* the next entry of the FAT
    starts,    \* the first cluster or sector of each file
    table,     \* the bytes of the FAT
    written    \* the extents written

fatVars == <<entry, starts, table>>
sizeVars == <<last, bits, fats, needed>>
vars == <<job, pc, measuring, base, sizeVars, size, blocks, offset, i, left, fatVars, written>>

Extent(of, n, at, len) == [of |-> of, n |-> n, at |-> at, len |-> len]

Files == 1 .. Len(job.files)

IsFat == job.fs = "vfat"

InVHDX == job.device \in {"ide", "scsi"}

Sector == IF IsFat THEN SectorSize ELSE IsoSectorSize

(* Variant: the rest is dropped. *)
UnitsDown(n, unit) == IF n = 0 THEN 1 ELSE n \div unit

(* ((n - 1) / unit) + 1, where division truncates.                         *)
Units(n, unit) == IF n = 0 THEN 1 ELSE (n - 1) \div unit + 1

(* What the first k files take up together, for each k. *)
Sums(sizes) ==
    LET upTo[k \in 0 .. Len(sizes)] == IF k = 0 THEN 0 ELSE upTo[k - 1] + sizes[k]
    IN upTo

(* What the files before f take up together, and what all of them do.      *)
Before(f, sizes) == Sums(sizes)[f - 1]

Total(sizes) == Sums(sizes)[Len(sizes)]

Contents(f) == IF f \in Files THEN job.files[f].len ELSE 0

(* The sectors of each file. *)
FileSectors == [f \in Files |-> Units(Contents(f), Sector)]

(* An entry of 32 bytes for the file and one for every 13 characters of    *)
(* its name.                                                               *)
VfatDirents == [f \in Files |-> 32 * (Units(job.files[f].name, 13) + 1)]

(* Bytes of the directory, whose first entry is for the volume.            *)
Dirents == SectorSize * Units(32 + Total(VfatDirents), SectorSize)

(* Entries of ISO 9660 are as long as the name requires, and even; names   *)
(* get a version of two characters.                                        *)
IsoDirentOf(len) == 2 * ((33 + len) \div 2) + 2

IsoDirents == [f \in Files |-> IsoDirentOf(job.files[f].name + 2)]

Init ==
    /\ job \in Jobs
    /\ pc = "device" /\ measuring = FALSE /\ base = 0
    /\ last = 0 /\ bits = 12 /\ fats = 0 /\ needed = 0
    /\ size = 0 /\ blocks = 0 /\ offset = 0 /\ i = 1 /\ left = 0
    /\ entry = 0 /\ starts = <<>> /\ table = <<>> /\ written = {}

-----------------------------------------------------------------------------
(* The device handlers.                                                    *)

(* writeVHDX asks for the size first.                                      *)
BeginDevice ==
    /\ pc = "device"
    /\ measuring' = InVHDX
    /\ pc' = "count"
    /\ UNCHANGED <<job, base, sizeVars, size, blocks, offset, i, left, fatVars, written>>

(* The identifier, both headers and region tables, the table of blocks     *)
(* with one entry more than there are, and the metadata.                   *)
WriteHeaders ==
    /\ pc = "headers"
    /\ blocks' = Units(Units(size, SectorSize) * SectorSize, BlockSize)
    /\ written' = {Extent("head", n, n * 64 * KiB, 256) : n \in 0 .. 4}
                    \cup {Extent("blocks", 0, 2 * MiB, 8 * (blocks' + 1)),
                          Extent("metadata", 0, 3 * MiB, 256),
                          Extent("metadata", 1, 3 * MiB + 64 * KiB, 256)}
    /\ measuring' = FALSE /\ base' = FilesystemStart
    /\ pc' = "count"
    /\ UNCHANGED <<job, sizeVars, size, offset, i, left, fatVars>>

PadLength ==
    IF Units(size, BlockSize) * BlockSize > PadSize THEN PadSize
    ELSE Units(size, BlockSize) * BlockSize

(* Variant: the length is taken for the place. *)
PadAtLength == PadLength

PadOffset == BlockSize - PadLength

(* What comes after the file system: zeroes at the end of the first block  *)
(* of a VHDX.                                                              *)
FinishDevice ==
    /\ pc = "finish"
    /\ written' = written \cup
          (IF InVHDX /\ PadOffset > 0 THEN {Extent("pad", 0, base + PadOffset, PadLength)} ELSE {})
    /\ pc' = "done"
    /\ UNCHANGED <<job, measuring, base, sizeVars, size, blocks, offset, i, left, fatVars>>

-----------------------------------------------------------------------------
(* The size of the file system.                                            *)

CountFatSectors ==
    /\ pc = "count" /\ IsFat
    /\ last' = 1 + Total(FileSectors) + Dirents \div SectorSize
    /\ bits' = 12 /\ fats' = 0 /\ needed' = 1
    /\ pc' = "size"
    /\ UNCHANGED <<job, measuring, base, size, blocks, offset, i, left, fatVars, written>>

CountIsoSectors ==
    /\ pc = "count" /\ ~ IsFat
    /\ last' = 19 + Total(FileSectors)
    /\ pc' = "size"
    /\ UNCHANGED <<job, measuring, base, bits, fats, needed, size, blocks, offset, i, left, fatVars,
                   written>>

Grows == needed > fats

(* The FAT takes sectors, which take entries in the FAT.                   *)
GrowFat ==
    /\ pc = "size" /\ Grows
    /\ LET more == last + (needed - fats)
       IN IF more >= Fat32From
          THEN pc' = "panic" /\ UNCHANGED sizeVars
          ELSE /\ last' = more
               /\ fats' = needed
               /\ bits' = IF more >= Fat16From THEN 16 ELSE bits
               /\ needed' = Units(Units(bits' * more, 8), SectorSize)
               /\ UNCHANGED pc
    /\ UNCHANGED <<job, measuring, base, size, blocks, offset, i, left, fatVars, written>>

SizeKnown ==
    /\ pc = "size" /\ ~ Grows
    /\ size' = Sector * last
    /\ pc' = IF measuring THEN "headers" ELSE "boot"
    /\ UNCHANGED <<job, measuring, base, sizeVars, blocks, offset, i, left, fatVars, written>>

-----------------------------------------------------------------------------
(* The file system.                                                        *)

(* The bits of two bytes together. *)
Bit(n, k) == (n \div 2 ^ k) % 2

Or(m, n) == Total([k \in 1 .. 8 |-> IF Bit(m, k - 1) + Bit(n, k - 1) > 0 THEN 2 ^ (k - 1) ELSE 0])

(* Variant: the byte shared with the entry before is overwritten. *)
PutFATEntOver(t, at, value) ==
    LET byte == (at * bits) \div 8
        bit == (at * bits) % 8
        rest == value \div 2 ^ (8 - bit)
        todo == bits - (8 - bit)
    IN [t EXCEPT ![byte] = (value % 2 ^ (8 - bit)) * 2 ^ bit,
                 ![byte + 1] = rest % 2 ^ (IF todo < 8 THEN todo ELSE 8)]

(* An entry of 12 or 16 bits covers two bytes, and of 12 bits only half of *)
(* one of them.                                                            *)
putFATEnt(t, at, value) ==
    LET byte == (at * bits) \div 8
        bit == (at * bits) % 8
        rest == value \div 2 ^ (8 - bit)
        todo == bits - (8 - bit)
    IN [t EXCEPT ![byte] = Or(IF bit > 0 THEN @ ELSE 0, (value % 2 ^ (8 - bit)) * 2 ^ bit),
                 ![byte + 1] = rest % 2 ^ (IF todo < 8 THEN todo ELSE 8)]

(* Of 0xFFFFFFFF and 0xFFFFFFF8 at most 16 bits are put.                   *)
EndOfChain == 2 ^ 16 - 1

FatId == 2 ^ 16 - 8

(* The boot sector, and the first two entries of the table.                *)
WriteBoot ==
    /\ pc = "boot" /\ IsFat
    /\ written' = written \cup {Extent("boot", 0, base, SectorSize)}
    /\ offset' = base + SectorSize
    /\ table' = putFATEnt(putFATEnt([b \in 0 .. SectorSize * fats - 1 |-> 0], 0, FatId), 1, EndOfChain)
    /\ entry' = 2
    /\ left' = Contents(1)
    /\ pc' = "chain"
    /\ UNCHANGED <<job, measuring, base, sizeVars, size, blocks, i, starts>>

(* Behind 16 empty sectors, both volume descriptors.                       *)
WriteVolume ==
    /\ pc = "boot" /\ ~ IsFat
    /\ written' = written \cup
          {Extent("volume", n, base + (16 + n) * IsoSectorSize, IsoSectorSize) : n \in 0 .. 1}
    /\ offset' = base + 18 * IsoSectorSize
    /\ pc' = "dir"
    /\ UNCHANGED <<job, measuring, base, sizeVars, size, blocks, i, left, fatVars>>

(* One entry of putFATChain.                                               *)
PutChain ==
    /\ pc = "chain" /\ i \in Files
    /\ starts' = IF Len(starts) < i THEN Append(starts, entry) ELSE starts
    /\ entry' = entry + 1
    /\ IF left > SectorSize
       THEN /\ table' = putFATEnt(table, entry, entry + 1)
            /\ left' = left - SectorSize
            /\ UNCHANGED i
       ELSE /\ table' = putFATEnt(table, entry, EndOfChain)
            /\ left' = Contents(i + 1)
            /\ i' = i + 1
    /\ UNCHANGED <<job, pc, measuring, base, sizeVars, size, blocks, offset, written>>

WriteFat ==
    /\ pc = "chain" /\ i \notin Files
    /\ written' = written \cup {Extent("fat", 0, offset, SectorSize * fats)}
    /\ offset' = offset + SectorSize * fats
    /\ pc' = "dir"
    /\ UNCHANGED <<job, measuring, base, sizeVars, size, blocks, i, left, fatVars>>

DirExtents(first, sizes) ==
    {Extent("dirent", 0, offset, first)}
    \cup {Extent("dirent", f, offset + first + Before(f, sizes), sizes[f]) : f \in Files}

WriteVfatDir ==
    /\ pc = "dir" /\ IsFat
    /\ written' = written \cup DirExtents(32, VfatDirents)
    /\ offset' = offset + Dirents
    /\ i' = 1
    /\ pc' = "files"
    /\ UNCHANGED <<job, measuring, base, sizeVars, size, blocks, left, fatVars>>

(* The entries of the directory itself and its parent come first.  The     *)
(* sectors of the files are counted anew.                                  *)
WriteIsoDir ==
    /\ pc = "dir" /\ ~ IsFat
    /\ written' = written \cup DirExtents(2 * IsoDirentOf(1), IsoDirents)
    /\ offset' = offset + IsoSectorSize
    /\ starts' = [f \in Files |-> 19 + Before(f, FileSectors)]
    /\ pc' = "files"
    /\ UNCHANGED <<job, measuring, base, sizeVars, size, blocks, i, left, entry, table>>

(* Variant: the next file follows the contents immediately. *)
Unpadded(f) == Contents(f)

Padded(f) == Units(Contents(f), Sector) * Sector

WriteFile ==
    /\ pc = "files" /\ i \in Files
    /\ written' = written \cup {Extent("file", i, offset, Padded(i))}
    /\ offset' = offset + Padded(i)
    /\ i' = i + 1
    /\ UNCHANGED <<job, pc, measuring, base, sizeVars, size, blocks, left, fatVars>>

FilesWritten ==
    /\ pc = "files" /\ i \notin Files
    /\ size' = Sector * last
    /\ pc' = "finish"
    /\ UNCHANGED <<job, measuring, base, sizeVars, blocks, offset, i, left, fatVars, written>>

(* An error of the share ends it all, and the file is removed.             *)
WriteFails ==
    /\ pc \in {"headers", "boot", "chain", "dir", "files", "finish"}
    /\ pc = "chain" => i \notin Files
    /\ pc = "files" => i \in Files
    /\ written' = {}
    /\ pc' = "removed"
    /\ UNCHANGED <<job, measuring, base, sizeVars, size, blocks, offset, i, left, fatVars>>

Next ==
    \/ BeginDevice \/ WriteHeaders \/ FinishDevice
    \/ CountFatSectors \/ CountIsoSectors \/ GrowFat \/ SizeKnown
    \/ WriteBoot \/ PutChain \/ WriteFat \/ WriteVfatDir
    \/ WriteVolume \/ WriteIsoDir \/ WriteFile \/ FilesWritten
    \/ WriteFails

Spec == Init /\ [][Next]_vars

-----------------------------------------------------------------------------
(* Properties.                                                             *)

(* No extent is written over another: what the handler of the device adds  *)
(* leaves the file system alone, and the entries of a directory fit into   *)
(* the sectors it was given (writeVHDX, putVfatDirent, putDirent).         *)
Apart ==
    \A d, e \in written : d.at < e.at + e.len /\ e.at < d.at + d.len => d = e

(* The file system ends where the size says that was computed for it       *)
(* beforehand, and the blocks of a VHDX hold it (writeVFAT, writeISO9660,  *)
(* writeVHDXBAT).                                                          *)
FillsItsSize ==
    pc = "done" =>
        /\ offset = base + size
        /\ \A e \in written : e.of = "file" => e.at + e.len <= base + size
        /\ InVHDX => size <= blocks * BlockSize

At(f) == (CHOOSE e \in written : e.of = "file" /\ e.n = f).at

(* An entry as it is read: bits from two neighbouring bytes.               *)
EntryAt(n) ==
    LET byte == (n * bits) \div 8
    IN ((table[byte] + 256 * table[byte + 1]) \div 2 ^ ((n * bits) % 8)) % 2 ^ bits

(* The first sector of the contents, as the boot sector has it.            *)
FirstSector == 1 + fats + Dirents \div SectorSize

(* Reading the image one finds the files: the directory leads to the first *)
(* cluster or sector of each, the table to the next, and they are where    *)
(* the contents were written (putFATEnt, putFATChain, writeVFAT,           *)
(* writeISO9660).                                                          *)
ReadsBack ==
    pc = "done" =>
        \A f \in Files :
            IF ~ IsFat
            THEN At(f) = base + starts[f] * IsoSectorSize
            ELSE /\ At(f) = base + (FirstSector + starts[f] - 2) * SectorSize
                 /\ \A c \in starts[f] .. starts[f] + Units(Contents(f), SectorSize) - 1 :
                        /\ (c * bits) \div 8 + 1 \in DOMAIN table
                        /\ EntryAt(c) = IF c - starts[f] + 1 = Units(Contents(f), SectorSize)
                                        THEN 2 ^ bits - 1 ELSE c + 1

(* Without a file system of their choice users get a FAT                   *)
(* (FilesystemHandlers).                                                   *)
DefaultIsVfat == pc = "dir" /\ job.fs = "" => \E e \in written : e.of = "fat"

=============================================================================
