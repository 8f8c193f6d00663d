--------------------------- MODULE MCRequestBroker ---------------------------
(***************************************************************************)
(* Instances of the request broker for model checking: calls are           *)
(* interchangeable, and so are connections and ids; calls and connections  *)
(* start in every possible kind, target and identity.                      *)
(***************************************************************************)
EXTENDS RequestBroker, TLC

CallSymmetry == Permutations(Calls)
Symmetry == CallSymmetry \cup Permutations(Conns) \cup Permutations(BackendIds)
=============================================================================
