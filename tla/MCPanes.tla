------------------------------- MODULE MCPanes -------------------------------
(* Lists that are empty, shorter than a pane and longer, with children     *)
(* that fit and that do not.                                               *)
EXTENDS Panes
SomeLists == {<<>>, <<1, 3>>, <<2, 0>>}
=============================================================================
