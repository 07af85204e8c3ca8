---------------------------- MODULE MCImageLayout ----------------------------
(* Images of the files of a machine, with the sizes of the code. *)
EXTENDS ImageLayout

File(len, name) == [len |-> len, name |-> name]

(* meta-data and user-data, and perhaps network-config. *)
FilesOf(meta, user) == <<File(meta, 9), File(user, 9)>>

FilesAndNetwork(meta, user, net) == Append(FilesOf(meta, user), File(net, 14))

Job(device, fs, files) == [device |-> device, fs |-> fs, files |-> files]

Lengths == {0, 1, 512, 513, 2048, 2049}

Devices == {"dvd", "scsi"}

SmallFiles ==
    {FilesOf(m, u) : m \in Lengths, u \in Lengths}
    \cup {FilesAndNetwork(m, u, n) : m \in Lengths, u \in Lengths, n \in Lengths}

(* Around the sizes at which a FAT takes another sector, and 16 bits.      *)
Around ==
    {FilesOf(100, 512 * n) : n \in 332 .. 338}
    \cup {FilesOf(512 * 2047, 512 * n) : n \in 2023 .. 2025}

SmallAndLarge ==
    {Job(d, fs, files) : d \in Devices, fs \in {"vfat", "iso9660"}, files \in SmallFiles}
    \cup {Job("floppy", "vfat", files) : files \in Around}

(* User-data that a Secret just holds. *)
NearlyABlock == {Job("scsi", "iso9660", FilesOf(100, 1010000))}

NoFileSystem == {Job("dvd", "", FilesOf(100, 1000))}

=============================================================================
