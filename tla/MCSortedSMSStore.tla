-------------------------- MODULE MCSortedSMSStore --------------------------
(* An instance of SortedSMSStore for TLC: two messages received at the     *)
(* same time, from +12 and +120, which operator< takes for the same, and   *)
(* one to send, to 12, which operator== takes for +12.                     *)
EXTENDS SortedSMSStore

CONSTANTS early, twin, unsent
DateOf   == [m \in Message |-> IF m = unsent THEN 0 ELSE 1]
TypeOf   == [m \in Message |-> IF m = unsent THEN 1 ELSE 0]
SenderOf == [m \in Message |-> CASE m = early -> <<2, 2>> [] m = twin -> <<2, 3>> [] m = unsent -> <<3, 2>>]
Files    == {<<>>} \cup {<<m>> : m \in Message} \cup {<<m, n>> : m, n \in Message}
Indices  == {<<>>, <<0>>, <<1>>, <<1, 0>>}
=============================================================================
