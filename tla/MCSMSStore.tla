----------------------------- MODULE MCSMSStore -----------------------------
(* Instances of SMSStore for TLC: the stores, and the messages, of a       *)
(* configuration are interchangeable.                                      *)
EXTENDS SMSStore, TLC

Symmetry == Permutations(Store) \cup Permutations(Message)
=============================================================================
