------------------------ MODULE MCAdaptiveController ------------------------
(***************************************************************************)
(* Small instances of AdaptiveController.  The grid has ten units; every   *)
(* sample set holds a value below, inside and above each band.             *)
(***************************************************************************)
EXTENDS AdaptiveController

MCP95s == {1, 3, 5}
MCUtils == {1, 7, 8, 10}
MCRunnables == {0, 2, 3}
=============================================================================
