---------------------------- MODULE MCFastPage ----------------------------
(* FastPage with pages of three records and a fourth slot that ends them.  *)
EXTENDS FastPage

FourKeys == 1 .. 4
AllKinds == {"leaf", "internal", "rap"}
Internal == {"internal"}
Left == {FALSE}      \* the left operand of `!=' is loaded first
Right == {TRUE}
=============================================================================
