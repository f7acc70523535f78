-------------------------------- MODULE MCPic --------------------------------
(***************************************************************************)
(* Pic with the keyboard's line, the cascade line, an ordinary line of the *)
(* secondary and the two lines that spurious interrupts are reported on.   *)
(***************************************************************************)
EXTENDS Pic

FiveIrqs == {1, 2, 7, 9, 15}
==============================================================================
