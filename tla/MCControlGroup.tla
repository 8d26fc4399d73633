--------------------------- MODULE MCControlGroup ---------------------------
(* A line of each kind: short, version 1, unified without and with a path. *)
EXTENDS ControlGroup

MCPaths == {"/a", "/b"}
MCLines ==
  {[parts |-> 2, controllers |-> "blank", path |-> "blank"],
   [parts |-> 3, controllers |-> "named", path |-> "/a"],
   [parts |-> 3, controllers |-> "blank", path |-> "blank"],
   [parts |-> 3, controllers |-> "blank", path |-> "/a"],
   [parts |-> 3, controllers |-> "blank", path |-> "/b"]}
=============================================================================
