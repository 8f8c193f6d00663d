------------------------- MODULE MCChannelDirectory -------------------------
(***************************************************************************)
(* Instances of the channel directory for model checking: connections are  *)
(* interchangeable, and so are queries, reads, channels and infos.         *)
(***************************************************************************)
EXTENDS ChannelDirectory, TLC

Symmetry ==
    Permutations(Conns) \cup Permutations(Queries) \cup Permutations(Reads)
    \cup Permutations(Channels) \cup Permutations(Infos)
=============================================================================
