----------------------------- MODULE MCSwdSession -----------------------------
(* Two auto-increment pages of two words of two bytes.                      *)
EXTENDS SwdSession

MCCells == 0 .. 7
(* A byte, a block to the end of its page, another in the next, a byte; a   *)
(* whole page.                                                              *)
MCAccesses == {<<1, 6>>, <<0, 4>>}
MCCoreRegs == {0, 15}

=============================================================================
