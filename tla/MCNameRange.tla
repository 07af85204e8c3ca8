----------------------------- MODULE MCNameRange -----------------------------
(* Small instances of NameRange: three digits, two letters, and a dash.    *)
EXTENDS NameRange

Digits == [lo |-> 2, hi |-> 4]
Letters == [lo |-> 6, hi |-> 7]
Dash == 1

KindsOfThree == {Digits, Letters}

Characters == {Dash} \cup 2 .. 4 \cup 6 .. 7

Strings(n) == [1 .. n -> Characters]

RangeOf(s, t, p) == [start |-> s, end |-> t, postfix |-> p]

(* All ranges that are plain, with and without a postfix.                  *)
PlainRanges ==
    {r \in {RangeOf(s, t, p) : s \in Strings(3), t \in Strings(3) \cup {<<>>},
                              p \in {<<>>, <<Dash, 3>>}} : Plain(r)}

ToGreatest == {RangeOf(<<7, 3>>, <<7, 4>>, <<>>)}
LongerEnd == {RangeOf(<<4>>, <<3, 2>>, <<>>)}
WithPostfix == {RangeOf(<<7, 2>>, <<7, 3>>, <<Dash>>)}

=============================================================================
