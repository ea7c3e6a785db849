----------------------------- MODULE MCAppTimer -----------------------------
(***************************************************************************)
(* TLC instance of AppTimer: the two threads that take timers, the thread  *)
(* that asks for a reset, a table of two entries and a mailbox of two.     *)
(***************************************************************************)
EXTENDS AppTimer

CONSTANTS mainloop, isp, tcpip, b1

Users == {mainloop, isp}
Periods == [u \in Users |-> IF u = mainloop THEN 2 ELSE 1]
Posters == {tcpip}
Blocks == {b1}
TickJobs == {second_timer, feed_watchdog}
ThreadJobs == {wait_rst}
=============================================================================
