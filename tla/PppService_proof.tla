-------------------------- MODULE PppService_proof --------------------------
(***************************************************************************)
(* Proofs about PppService: the safety of the supervisor for every limit   *)
(* and width, whenever the engine reports and whatever code it reports.    *)
(***************************************************************************)
EXTENDS PppService, TLAPS

\* The age of the mark never exceeds the silence of the link.
MarkFresh == /\ mark <= silence
             /\ step = "switch" /\ ppp = "INITMODEM" => mark = 0

\* Where mainloop is, and what it knows there.
Placed ==
    /\ step \in {"switch", "timeout"} => sys = branch
    /\ step = "timeout" => ppp \in {"SUCCESS", "ERROR"}
    /\ step = "dial" => sys = "INITPPP"
    /\ step = "dial" /\ ~early => ppp = "INITMODEM" /\ link = "opening"
    /\ step = "close" => ppp \in {"ERROR", "TIMEOUT"}
    /\ step = "stop" => link \in Torn
    /\ step # "loop" /\ branch = "PPPSUCCESS" => link # "opening" /\ ~early

\* What the status of the system says of the session.
Known ==
    /\ sys \in {"NORMAL", "INITMODEM", "PPPERROR"} => link \in Torn
    /\ sys = "PPPSUCCESS" => ppp \in {"SUCCESS", "TIMEOUT", "ERROR"}

\* What the state of the session says of pppd_status.
Told ==
    /\ ppp \in {"NONE", "INITMODEM"} /\ step # "dial" => link \in Torn
    /\ link = "opening" /\ step # "dial" => ppp = "START"
    /\ link \in Torn => ppp # "SUCCESS"
    /\ early /\ step # "dial" => ppp = "START" /\ sys = "INITPPP"
    /\ early => link \in {"up", "ended", "dropped"}
    /\ link = "up" /\ ~early =>
                      /\ ppp \in {"SUCCESS", "TIMEOUT", "ERROR"}
                      /\ ppp = "ERROR" => csq > CsqLimit
                      /\ step = "after" => ppp = "SUCCESS"

LinkInv == MarkFresh /\ Placed /\ Known /\ Told

\* ppp_service.c:438: the remainder that the counter of failures keeps.
LEMMA CounterWraps == ASSUME NEW c \in Nat PROVE c % CsqWidth \in 0..(CsqWidth - 1)
BY PppAssumption

\* No step of mainloop, of the engine or of the network spoils a type.
LEMMA TypeStep == ASSUME TypeOK, [Next]_vars PROVE TypeOK'
<1> USE PppAssumption DEF TypeOK, Session
<1>1. CASE Begin \/ InitModem \/ PppError \/ Promote
  BY <1>1 DEF Begin, InitModem, PppError, Promote
<1>2. CASE Check
  BY <1>2 DEF Check, Enters
<1>3. CASE RoutingNone \/ Dialled \/ RoutingRest
  BY <1>3 DEF RoutingNone, Dialled, RoutingRest
<1>13. CASE TimeOut \/ LateReport
  BY <1>13 DEF TimeOut, LateReport
<1>11. CASE RoutingOpen
  <2>1. early' \in BOOLEAN
    BY <1>11, Zenon DEF RoutingOpen
  <2> QED
    BY <1>11, <2>1 DEF RoutingOpen
<1>4. CASE RoutingDown
  <2>1. xmpp' \in BOOLEAN
    BY <1>4, Zenon DEF RoutingDown
  <2> QED
    BY <1>4, <2>1 DEF RoutingDown
<1>5. CASE Stopped \/ AfterInitPpp \/ CsqAnswered
  BY <1>5 DEF Stopped, AfterInitPpp, CsqAnswered
<1>12. CASE Close
  <2>1. early' \in BOOLEAN
    BY <1>12, Zenon DEF Close
  <2> QED
    BY <1>12, <2>1 DEF Close
<1>6. CASE CsqFails
  <2>1. csq' \in 0..(CsqWidth - 1)
    BY <1>6, CounterWraps DEF CsqFails
  <2> QED
    BY <1>6, <2>1 DEF CsqFails
<1>7. CASE Report
  <2>1. early' \in BOOLEAN
    BY <1>7, Zenon DEF Report, LinkUp, LinkEnds
  <2> QED
    BY <1>7, <2>1 DEF Report, LinkUp, LinkEnds
<1>8. CASE Data \/ Second
  BY <1>8 DEF Data, Second, Later
<1>9. CASE XmppChanges
  BY <1>9 DEF XmppChanges
<1>10. CASE UNCHANGED vars
  BY <1>10 DEF vars
<1> QED
  BY <1>1, <1>2, <1>3, <1>4, <1>5, <1>6, <1>7, <1>8, <1>9, <1>10, <1>11,
     <1>12, <1>13 DEF Next, Mainloop, Routing

\* Every variable keeps its type, whatever the engine reports and when.
THEOREM TypeCorrect == Spec => []TypeOK
<1>1. Init => TypeOK
  <2> USE PppAssumption
  <2> SUFFICES ASSUME Init PROVE TypeOK
    OBVIOUS
  <2>1. xmpp \in BOOLEAN /\ early \in BOOLEAN
    BY Zenon DEF Init
  <2> QED
    BY <2>1 DEF Init, TypeOK, Session
<1> QED
  BY <1>1, TypeStep, PTL DEF Spec

-----------------------------------------------------------------------------
\* None of the properties below is inductive: each needs to know what
\* mainloop, the status and the session can be together.
LEMMA LinkStep == ASSUME TypeOK, LinkInv, [Next]_vars PROVE LinkInv'
<1> USE PppAssumption
    DEF TypeOK, LinkInv, MarkFresh, Placed, Known, Told, Torn
<1>1. CASE Begin \/ InitModem \/ PppError \/ Promote
  BY <1>1 DEF Begin, InitModem, PppError, Promote
<1>2. CASE Check
  BY <1>2 DEF Check, Enters, Overdue
<1>3. CASE RoutingNone
  BY <1>3 DEF RoutingNone
<1>4. CASE RoutingOpen
  BY <1>4 DEF RoutingOpen
<1>5. CASE Dialled
  BY <1>5 DEF Dialled
<1>6. CASE RoutingRest \/ RoutingDown
  BY <1>6 DEF RoutingRest, RoutingDown
<1>7. CASE Close
  BY <1>7 DEF Close
<1>8. CASE Stopped
  BY <1>8 DEF Stopped
<1>9. CASE AfterInitPpp \/ CsqAnswered
  BY <1>9 DEF AfterInitPpp, CsqAnswered
<1>10. CASE CsqFails
  BY <1>10 DEF CsqFails
<1>11. CASE Report
  BY <1>11 DEF Report, LinkUp, LinkEnds
<1>12. CASE Data \/ Second
  BY <1>12 DEF Data, Second, Later
<1>13. CASE XmppChanges
  BY <1>13 DEF XmppChanges
<1>14. CASE UNCHANGED vars
  BY <1>14 DEF vars
<1>15. CASE TimeOut
  BY <1>15 DEF TimeOut
<1>16. CASE LateReport
  BY <1>16 DEF LateReport
<1> QED
  BY <1>1, <1>2, <1>3, <1>4, <1>5, <1>6, <1>7, <1>8, <1>9, <1>10, <1>11,
     <1>12, <1>13, <1>14, <1>15, <1>16 DEF Next, Mainloop, Routing

LEMMA LinkInit == Init => LinkInv
BY PppAssumption
   DEF Init, LinkInv, MarkFresh, Placed, Known, Told, Torn

LEMMA LinkInvariant == Spec => []LinkInv
BY LinkInit, LinkStep, TypeCorrect, PTL DEF Spec

\* The status that an end of the session sets is overwritten by the end of the
\* dial, or by a time-out, which closes the session as well.
LEMMA RecordStep ==
    ASSUME TypeOK, LinkInv, FailureOnRecord, [Next]_vars
    PROVE  FailureOnRecord'
<1> USE DEF FailureOnRecord, TypeOK, LinkInv, Placed, Known, Told, Torn
<1>1. CASE Begin \/ InitModem \/ PppError \/ Promote
  BY <1>1 DEF Begin, InitModem, PppError, Promote
<1>2. CASE Check
  BY <1>2 DEF Check, Enters
<1>3. CASE RoutingNone \/ RoutingOpen \/ Dialled \/ RoutingRest
  BY <1>3 DEF RoutingNone, RoutingOpen, Dialled, RoutingRest
<1>4. CASE RoutingDown \/ Close \/ Stopped
  BY <1>4 DEF RoutingDown, Close, Stopped
<1>5. CASE AfterInitPpp \/ CsqAnswered \/ CsqFails
  BY <1>5 DEF AfterInitPpp, CsqAnswered, CsqFails
<1>6. CASE Report
  BY <1>6 DEF Report, LinkUp, LinkEnds
<1>7. CASE Data \/ XmppChanges \/ Second
  BY <1>7 DEF Data, XmppChanges, Second
<1>8. CASE UNCHANGED vars
  BY <1>8 DEF vars
<1>9. CASE TimeOut \/ LateReport
  BY <1>9 DEF TimeOut, LateReport
<1> QED
  BY <1>1, <1>2, <1>3, <1>4, <1>5, <1>6, <1>7, <1>8, <1>9
     DEF Next, Mainloop, Routing

\* ppp_service.c:129,180-249: for all codes, and with the engine free to report
\* between any test and the assignment that follows it, a session that ended
\* with an error after the dial leaves a status that closes it.
THEOREM FailuresStayOnRecord == Spec => []FailureOnRecord
<1>1. Init => FailureOnRecord
  BY DEF Init, FailureOnRecord
<1> QED
  BY <1>1, RecordStep, LinkInvariant, TypeCorrect, PTL DEF Spec

\* What may set the time-out, and what may close a link that is up.
DownForCause ==
    /\ step # "timeout" /\ step' = "timeout" => silence > Allowed
    /\ ppp # "TIMEOUT" /\ ppp' = "TIMEOUT" => step = "timeout"
    /\ link = "up" /\ link' \in Torn => ppp = "TIMEOUT" \/ csq > CsqLimit

LEMMA DownStep == ASSUME TypeOK, LinkInv, Next PROVE DownForCause
<1>1. CASE Check
  BY <1>1, PppAssumption
     DEF Check, Enters, Overdue, LinkInv, MarkFresh, TypeOK, Allowed, Torn,
         DownForCause
<1>2. CASE Close
  BY <1>2 DEF Close, LinkInv, Placed, Told, Torn, DownForCause
<1>3. CASE ~Check /\ ~Close
  BY <1>3 DEF Next, Mainloop, Routing, Report, Begin, InitModem, PppError,
     Promote, RoutingNone, RoutingOpen, Dialled, RoutingRest, RoutingDown,
     Stopped, AfterInitPpp, CsqAnswered, CsqFails, LinkUp, LinkEnds, Data,
     XmppChanges, Second, TimeOut, LateReport, Torn, DownForCause
<1> QED
  BY <1>1, <1>2, <1>3

\* ppp_service.c:120-132,434-442: for all limits, a link is torn down only
\* after a silence or after failures of AT+CSQ beyond them.
THEOREM TornDownJustly == Spec => TornDownForCause
<1>1. TypeOK /\ LinkInv /\ [Next]_vars => [DownForCause]_vars
  BY DownStep
<1> QED
  BY <1>1, LinkInvariant, TypeCorrect, PTL
     DEF Spec, TornDownForCause, DownForCause

\* A session is opened only when the last one has been closed.
OpensClosed == link' = "opening" /\ link # "opening" => link \in Torn

LEMMA OpenStep ==
  ASSUME LinkInv, [Next]_vars PROVE [OpensClosed]_vars
BY DEF LinkInv, Told, Next, Mainloop, Routing, Report, Begin, InitModem,
       PppError, Promote, Check, Enters, RoutingNone, RoutingOpen, Dialled,
       RoutingRest, RoutingDown, Close, Stopped, AfterInitPpp, CsqAnswered,
       CsqFails, LinkUp, LinkEnds, Data, XmppChanges, Second, TimeOut,
       LateReport, Torn, vars,
       OpensClosed

\* ppp_service.c:189-217: two sessions never overlap.
THEOREM SessionsInTurn == Spec => OneSession
<1>1. LinkInv /\ [Next]_vars => [OpensClosed]_vars
  BY OpenStep
<1> QED
  BY <1>1, LinkInvariant, PTL DEF Spec, OneSession, OpensClosed
=============================================================================
