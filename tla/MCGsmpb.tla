------------------------------ MODULE MCGsmpb ------------------------------
(* An instance of Gsmpb for TLC: texts 1 and 2 differ in case only.  The   *)
(* telephone numbers 1, 2 and 3 are "+12", "+120" and "12": the order does *)
(* not tell the first two apart, the equality not the first and the third. *)
EXTENDS Gsmpb

LowerCase == [t \in Text \cup {0} |-> IF t = 2 THEN 1 ELSE t]
Padded    == [t \in Tel \cup {0} |-> IF t = 2 THEN 1 ELSE t]
Digits    == [t \in Tel \cup {0} |-> IF t = 3 THEN 1 ELSE t]

Uninitialised == {1, -7}

Numbered(i, t, n) == [index |-> i, text |-> t, tel |-> n]
Names3  == {<<1, 1>>, <<2, 2>>, <<3, 1>>}
Plain   == {Numbered(NoIndex, c[1], c[2]) : c \in Names3}
Indexed == {Numbered(i, c[1], c[2]) : i \in Index, c \in Names3}
UpTo2(S) == {<<>>} \cup {<<l>> : l \in S} \cup {<<l, m>> : l, m \in S}
\* With indices out of order, with equal ones, with and without one; one that
\* differs from others in a number.
Odd     == {<<Numbered(1, 1, 1), Numbered(0, 1, 2)>>, <<Numbered(0, 1, 1), Numbered(0, 2, 1)>>,
            <<Numbered(1, 1, 1), Numbered(NoIndex, 1, 1)>>, <<Numbered(NoIndex, 1, 1), Numbered(1, 1, 1)>>}
Swapped == {<<Numbered(0, 3, 2), Numbered(1, 1, 1)>>, <<Numbered(0, 1, 1), Numbered(1, 3, 1)>>}
Few     == {<<>>, <<Numbered(NoIndex, 1, 1)>>, <<Numbered(NoIndex, 2, 2), Numbered(NoIndex, 1, 1)>>} \cup Odd
Files   == UpTo2(Plain) \cup Odd \cup Swapped
             \cup {f \in UpTo2(Indexed) : Len(f) = 2 => f[1].index < f[2].index}
Entries == {Numbered(NoIndex, 1, 1), Numbered(0, 2, 3)}
=============================================================================
