----------------------------- MODULE MCHttpTask -----------------------------
(***************************************************************************)
(* TLC instance of HttpTask: the pool has the two PCBs of the device       *)
(* (RT_LWIP_TCP_PCB_NUM); behaviours follow the client of XMPP or the one  *)
(* of the HTTP task.                                                       *)
(***************************************************************************)
EXTENDS HttpTask

CONSTANTS p1, p2

BothClients == {Xmpp, Http}
OnlyHttp == {Http}
OnlyXmpp == {Xmpp}
EachAlone == {{Xmpp}, {Http}}
TwoPcbs == {p1, p2}
Queries == [c \in BothClients |-> IF c = Xmpp THEN 2 ELSE 1]
=============================================================================
