----------------------------- MODULE MCTcpWrite -----------------------------
(***************************************************************************)
(* TLC instances of TcpWrite: one writer for what holds, two for the race. *)
(***************************************************************************)
EXTENDS TcpWrite

CONSTANTS mainloop, appev

One == {mainloop}
Two == {mainloop, appev}
=============================================================================
