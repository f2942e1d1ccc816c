---------------------------- MODULE MCPhonebook ----------------------------
(* Instances of Phonebook for TLC: the phonebooks of a configuration are   *)
(* interchangeable; a search for Jo also finds Joan.                       *)
EXTENDS Phonebook, TLC

CONSTANTS Jo, Joan
FindsJoan == {<<Jo, Jo>>, <<Joan, Joan>>, <<Jo, Joan>>}
TwoEntries == {f \in [Book -> 0..2] : \E p, q \in Book : p # q /\ f[p] + f[q] = 2}
Symmetry  == Permutations(Book)
=============================================================================
