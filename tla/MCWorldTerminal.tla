--------------------------- MODULE MCWorldTerminal ---------------------------
(* An instance of WorldTerminal for TLC.                                      *)
EXTENDS WorldTerminalInv
=============================================================================
