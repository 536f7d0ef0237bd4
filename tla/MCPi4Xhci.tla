----------------------------- MODULE MCPi4Xhci -----------------------------
(* Pi4Xhci with the constants of the code.                                  *)
EXTENDS Pi4Xhci
=============================================================================
