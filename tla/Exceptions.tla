----------------------------- MODULE Exceptions -----------------------------
(***************************************************************************)
(* Calls that may throw: a value that a call returns has a field how, "ok" *)
(* unless an exception was thrown, or an assertion failed, on the way.     *)
(***************************************************************************)

\* The rest of the function, F, is skipped after an exception.
Then(value, F(_)) ==
  CHOOSE r \in {IF v.how = "ok" THEN F(v) ELSE v : v \in {value}} : TRUE
=============================================================================
