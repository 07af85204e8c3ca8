------------------------------- MODULE NameRange -------------------------------
(***************************************************************************)
(* The candidate names of a range of a name pool, as generateVMName makes  *)
(* them one after the other with incrementString, and the comparison by    *)
(* which it takes a machine's name for one of the range.  VmNaming takes   *)
(* the candidates of a pool as given.                                      *)
(*                                                                         *)
(* A name is a sequence of characters, a character its code; the intervals *)
(* of digits, capitals and small letters are given by their ends, so that  *)
(* they can be short.                                                      *)
(***************************************************************************)
EXTENDS Integers, Sequences, FiniteSetsExt, Folds

CONSTANTS
    Kinds,      \* the intervals of digits and letters, as records of lo and hi
    Ranges,     \* the ranges to try, as records of start, end and postfix
    MaxNames    \* how many candidates are remembered

ASSUME RangeAssumption ==
    /\ \A k \in Kinds : k.lo \in Nat /\ k.hi \in Nat /\ k.lo <= k.hi
    /\ \A k, l \in Kinds : k = l \/ k.hi < l.lo \/ l.hi < k.lo
    /\ MaxNames \in Nat

VARIABLES
    range,      \* the range
    c,          \* the name without its postfix that the loop has come to
    names,      \* the candidates so far
    done        \* whether the loop has ended

vars == <<range, c, names, done>>

KindOf(r) == {k \in Kinds : r \in k.lo .. k.hi}

(* The comparison of strings.                                              *)
Less(s, t) ==
    \/ Len(s) < Len(t) /\ s = SubSeq(t, 1, Len(s))
    \/ \E i \in DOMAIN s \cap DOMAIN t :
          s[i] < t[i] /\ SubSeq(s, 1, i - 1) = SubSeq(t, 1, i - 1)

Steps(s) == {i \in DOMAIN s : \E k \in KindOf(s[i]) : s[i] < k.hi}

(* Variant: nothing is carried over. *)
IncrementLast(s) ==
    [i \in DOMAIN s |->
        IF i < Len(s) \/ KindOf(s[i]) = {} THEN s[i]
        ELSE IF i \in Steps(s) THEN s[i] + 1
        ELSE (CHOOSE k \in KindOf(s[i]) : TRUE).lo]

(* The last character that has a successor gets it, and those after it     *)
(* start again; where none has, all do.                                    *)
incrementString(s) ==
    LET last == Max({0} \cup Steps(s))
    IN [i \in DOMAIN s |->
            IF i < last \/ KindOf(s[i]) = {} THEN s[i]
            ELSE IF i = last THEN s[i] + 1
            ELSE (CHOOSE k \in KindOf(s[i]) : TRUE).lo]

Init ==
    /\ range \in Ranges
    /\ c = range.start /\ names = <<>> /\ done = FALSE

(* Variant: the end of a range is not part of it. *)
BeyondBefore(next) == range.end = <<>> \/ ~ Less(next, range.end)

Beyond(next) == range.end = <<>> \/ Less(range.end, next)

NextName ==
    /\ ~ done
    /\ names' = IF Len(names) < MaxNames THEN Append(names, c \o range.postfix) ELSE names
    /\ c' = incrementString(c)
    /\ done' = Beyond(c')
    /\ UNCHANGED range

Next == NextName

Spec == Init /\ [][Next]_vars

FairSpec == Spec /\ WF_vars(Next)

(* Whether the name of a machine that the pool does not know is entered.   *)
Adopts(name) ==
    \/ range.end = <<>> /\ range.start = name
    \/ ~ Less(name, range.start) /\ ~ Less(range.end, name)

-----------------------------------------------------------------------------
(* Properties.                                                             *)

(* The characters that incrementString may put in the place of another.    *)
Place(r) == {r} \cup UNION {k.lo .. k.hi : k \in KindOf(r)}

(* The strings of the same shape: digits where s has digits, letters where *)
(* it has letters, and elsewhere what s has.                               *)
Shape(s) ==
    {t \in [DOMAIN s -> UNION {Place(s[i]) : i \in DOMAIN s}] :
        \A i \in DOMAIN s : t[i] \in Place(s[i])}

Between(s, e) == {t \in Shape(s) : ~ Less(t, s) /\ ~ Less(e, t)}

(* Start and end have the same shape, and the end is not the last of it;   *)
(* or there is no end.                                                     *)
Plain(r) ==
    /\ r.start \in Seq(Nat) /\ r.postfix \in Seq(Nat)
    /\ \/ r.end = <<>>
       \/ r.end \in Shape(r.start) /\ ~ Less(r.end, r.start) /\ Steps(r.end) # {}

(* The names come in their order, so that none comes twice, and are those  *)
(* of the shape from start to end: digits remain digits, letters remain    *)
(* letters, and no name is left out (incrementString and the loop over a   *)
(* range in generateVMName).                                               *)
NamesOfRange ==
    /\ \A i, j \in DOMAIN names : i < j => Less(names[i], names[j])
    /\ done /\ Len(names) < MaxNames =>
         LET end == IF range.end = <<>> THEN range.start ELSE range.end
         IN {names[i] : i \in DOMAIN names}
              = {t \o range.postfix : t \in Between(range.start, end)}

(* No name is outside its range (generateVMName).                          *)
WithinRange ==
    \A i \in DOMAIN names :
        LET s == SubSeq(names[i], 1, Len(range.start))
        IN ~ Less(s, range.start) /\ (range.end # <<>> => ~ Less(range.end, s))

(* A machine whose name is one that the pool would give away is entered as *)
(* its owner (generateVMName).                                             *)
AdoptsItsNames == \A i \in DOMAIN names : Adopts(names[i])

(* The loop over a range comes to an end (generateVMName).                 *)
Ends == <>done

=============================================================================
