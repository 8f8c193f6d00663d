------------------------------- MODULE MCAuth -------------------------------
(***************************************************************************)
(* Instances of the authentication layer for model checking: requests and  *)
(* tokens are interchangeable.                                             *)
(***************************************************************************)
EXTENDS Auth, TLC

Symmetry == Permutations(Requests) \cup Permutations(Tokens)
=============================================================================
