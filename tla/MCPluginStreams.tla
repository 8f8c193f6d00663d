--------------------------- MODULE MCPluginStreams ---------------------------
(***************************************************************************)
(* Instances of the plugin streams for model checking: streams are         *)
(* interchangeable, and so are commands; every stream starts with every    *)
(* set of commands.                                                        *)
(***************************************************************************)
EXTENDS PluginStreams, TLC

Symmetry == Permutations(Streams) \cup Permutations(Commands)
=============================================================================
