----------------------------- MODULE PppService -----------------------------
(***************************************************************************)
(* The supervisor of the GPRS link (ppp_service.c): the thread mainloop    *)
(* powers the modem, dials, watches the link and tears it down, while the  *)
(* PPP engine reports through linkStatusCB from a thread of its own that   *)
(* may preempt mainloop anywhere.                                          *)
(*                                                                         *)
(* The engine and the modem are external: a session that was opened comes  *)
(* up or ends, and reports it once, perhaps while mainloop dials; the      *)
(* report of one that mainloop closed may come at once or later.  A status *)
(* it reports is one assignment to pppd_status, as every step of           *)
(* mainloop's is.                                                          *)
(***************************************************************************)
EXTENDS Integers

CONSTANTS LimitAlone,      \* seconds of silence allowed, 240 in the code
          LimitConnected,  \* the same while XMPP is connected, 600
          CsqLimit,        \* tolerated failures of AT+CSQ, 5
          CsqWidth,        \* values of the counter of them, 256
          Errors           \* the codes a session may end with

ASSUME PppAssumption == /\ LimitAlone \in Nat /\ LimitConnected \in Nat
                        /\ LimitAlone <= LimitConnected
                        /\ CsqLimit \in Nat
                        /\ CsqWidth \in Nat /\ CsqLimit < CsqWidth
                        /\ Errors \subseteq {-5, -6, -7, -8}

\* "ended": with an error that linkStatusCB has a case for, "dropped": with
\* another one, "closing": closed by mainloop and not reported yet.
Session == {"closed", "opening", "up", "ended", "dropped", "closing"}
Torn == {"closed", "closing"}

VARIABLES sys,     \* privd.system_status
          ppp,     \* privd.pppd_status
          step,    \* where mainloop is
          branch,  \* the case of system_status that mainloop is in
          mark,    \* seconds since last_rv_serial_data_jiff
          csq,     \* atcsq_err_cnt
          link,    \* the PPP session
          xmpp,    \* whether the XMPP client is connected
          silence, \* seconds since data came over the link or it was opened
          early    \* whether the last report of the session came during dial

vars == <<sys, ppp, step, branch, mark, csq, link, xmpp, silence, early>>

TypeOK == /\ sys \in {"NORMAL", "INITMODEM", "INITPPP", "PPPERROR",
                      "PPPSUCCESS"}
          /\ ppp \in {"NONE", "INITMODEM", "START", "SUCCESS", "STOP",
                      "ERROR", "TIMEOUT"}
          /\ step \in {"loop", "timeout", "switch", "dial", "close", "stop",
                       "after"}
          /\ branch \in {"INITPPP", "PPPSUCCESS"}
          /\ mark \in 0..(LimitConnected + 1)
          /\ csq \in 0..(CsqWidth - 1)
          /\ link \in Session
          /\ xmpp \in BOOLEAN
          /\ silence \in 0..(LimitConnected + 1)
          /\ early \in BOOLEAN

Init == /\ sys = "NORMAL" /\ ppp = "NONE"
        /\ step = "loop" /\ branch = "INITPPP"
        /\ mark = 0 /\ csq = 0
        /\ link = "closed" /\ xmpp = FALSE
        /\ silence = 0 /\ early = FALSE

-----------------------------------------------------------------------------
(* mainloop *)

Begin == /\ sys = "NORMAL" /\ step = "loop"
         /\ sys' = "INITMODEM"
         /\ UNCHANGED <<ppp, step, branch, mark, csq, link, xmpp, silence,
                        early>>

\* init_modem and __restart_cmux have succeeded, after any number of rounds;
\* the clients are initialised anew.
InitModem == /\ sys = "INITMODEM" /\ step = "loop"
             /\ sys' = "INITPPP"
             /\ ppp' = "NONE"
             /\ xmpp' = FALSE
             /\ UNCHANGED <<step, branch, mark, csq, link, silence, early>>

PppError == /\ sys = "PPPERROR" /\ step = "loop"
            /\ sys' = "INITMODEM"
            /\ UNCHANGED <<ppp, step, branch, mark, csq, link, xmpp, silence,
                           early>>

\* A round of INITPPP that does not call ppp_routing.
Promote == /\ sys = "INITPPP" /\ step = "loop"
           /\ ppp = "SUCCESS"
           /\ sys' = "PPPSUCCESS"
           /\ UNCHANGED <<ppp, step, branch, mark, csq, link, xmpp, silence,
                          early>>

Allowed == IF xmpp THEN LimitConnected ELSE LimitAlone

\* check_ppp_timeout finds that the link has been silent for too long.
Overdue == ppp = "SUCCESS" /\ mark > Allowed

Enters == /\ sys \in {"INITPPP", "PPPSUCCESS"} /\ step = "loop"
          /\ branch' = sys
          /\ step' = IF Overdue THEN "timeout" ELSE "switch"
          /\ UNCHANGED <<sys, ppp, csq, link, xmpp, silence, early>>

\* Faulty variant: the clock of a link that is not up is left running.
CheckKeepsMark == Enters /\ UNCHANGED mark

\* ppp_routing begins with check_ppp_timeout.
Check == /\ Enters
         /\ mark' = IF ppp = "SUCCESS" THEN mark ELSE 0

\* Its assignment comes after its test: what the engine reported in between is
\* overwritten.
TimeOut == /\ step = "timeout"
           /\ ppp' = "TIMEOUT"
           /\ mark' = 0
           /\ step' = "switch"
           /\ UNCHANGED <<sys, branch, csq, link, xmpp, silence, early>>

RoutingNone == /\ step = "switch" /\ ppp = "NONE"
               /\ ppp' = "INITMODEM"
               /\ step' = "after"
               /\ UNCHANGED <<sys, branch, mark, csq, link, xmpp, silence,
                              early>>

\* pppOpen or pppReOpen; dial follows and takes up to a minute.
RoutingOpen == /\ step = "switch" /\ ppp = "INITMODEM"
               /\ link' = "opening" /\ silence' = 0 /\ early' = FALSE
               /\ step' = "dial"
               /\ UNCHANGED <<sys, ppp, branch, mark, csq, xmpp>>

\* dial has returned, its result is not looked at; what the session reported
\* meanwhile is overwritten.
Dialled == /\ step = "dial"
           /\ ppp' = "START"
           /\ step' = "after"
           /\ UNCHANGED <<sys, branch, mark, csq, link, xmpp, silence, early>>

\* PROTO_START, PROTO_SUCCESS and PROTO_STOP leave the status alone.
RoutingRest == /\ step = "switch" /\ ppp \in {"START", "SUCCESS", "STOP"}
               /\ step' = "after"
               /\ UNCHANGED <<sys, ppp, branch, mark, csq, link, xmpp,
                              silence, early>>

\* disconn_tcp_client_buf
RoutingDown == /\ step = "switch" /\ ppp \in {"ERROR", "TIMEOUT"}
               /\ xmpp' = FALSE
               /\ step' = "close"
               /\ UNCHANGED <<sys, ppp, branch, mark, csq, link, silence,
                              early>>

\* pppClose ends the session, which may report PPPERR_USER, now or later.
Close == /\ step = "close"
         /\ \/ link' = "closed" /\ ppp' \in {ppp, "ERROR"}
            \/ /\ link \in {"opening", "up", "closing"}
               /\ link' = "closing" /\ ppp' = ppp
         /\ early' = FALSE
         /\ step' = "stop"
         /\ UNCHANGED <<sys, branch, mark, csq, xmpp, silence>>

\* Faulty variant: the new state of the system is forgotten.
StoppedHalf == /\ step = "stop"
               /\ ppp' = "STOP"
               /\ step' = "after"
               /\ UNCHANGED <<sys, branch, mark, csq, link, xmpp, silence,
                              early>>

Stopped == /\ step = "stop"
           /\ ppp' = "STOP"
           /\ sys' = "PPPERROR"
           /\ step' = "after"
           /\ UNCHANGED <<branch, mark, csq, link, xmpp, silence, early>>

AfterInitPpp == /\ step = "after" /\ branch = "INITPPP"
                /\ sys' = IF ppp = "SUCCESS" THEN "PPPSUCCESS" ELSE sys
                /\ step' = "loop"
                /\ UNCHANGED <<ppp, branch, mark, csq, link, xmpp, silence,
                               early>>

CsqAnswered == /\ step = "after" /\ branch = "PPPSUCCESS"
               /\ step' = "loop"
               /\ UNCHANGED <<sys, ppp, branch, mark, csq, link, xmpp,
                              silence, early>>

\* Faulty variant: the counter does not wrap.
CsqFailsUnbounded ==
    /\ step = "after" /\ branch = "PPPSUCCESS"
    /\ csq < CsqWidth
    /\ csq' = csq + 1
    /\ ppp' = IF csq' > CsqLimit THEN "ERROR" ELSE ppp
    /\ step' = "loop"
    /\ UNCHANGED <<sys, branch, mark, link, xmpp, silence, early>>

\* The failures of the whole run are counted, modulo the width of the counter;
\* beyond the limit each one is an error of the link.
CsqFails == /\ step = "after" /\ branch = "PPPSUCCESS"
            /\ csq' = (csq + 1) % CsqWidth
            /\ ppp' = IF csq' > CsqLimit THEN "ERROR" ELSE ppp
            /\ step' = "loop"
            /\ UNCHANGED <<sys, branch, mark, link, xmpp, silence, early>>

-----------------------------------------------------------------------------
(* The PPP engine, the network and time *)

\* linkStatusCB(0)
LinkUp == /\ link = "opening"
          /\ link' = "up"
          /\ ppp' = "SUCCESS"
          /\ early' = (step = "dial")
          /\ UNCHANGED <<sys, step, branch, mark, csq, xmpp, silence>>

\* Faulty variant: an error is only logged.
LinkEndsUnnoticed == /\ link \in {"opening", "up"}
                     /\ link' = "ended"
                     /\ early' = (step = "dial")
                     /\ UNCHANGED <<sys, ppp, step, branch, mark, csq, xmpp,
                                    silence>>

\* linkStatusCB: PPPERR_USER and PPPERR_PROTOCOL are errors; PPPERR_CONNECT and
\* PPPERR_AUTHFAIL are dropped.
LinkEnds == \E err \in Errors :
                /\ link \in {"opening", "up"}
                /\ IF err \in {-5, -8} THEN link' = "ended" /\ ppp' = "ERROR"
                                       ELSE link' = "dropped" /\ ppp' = ppp
                /\ early' = (step = "dial")
                /\ UNCHANGED <<sys, step, branch, mark, csq, xmpp, silence>>

\* What pppClose left to report; the next pppReOpen makes it void.
LateReport == /\ link = "closing"
              /\ link' = "closed"
              /\ ppp' = "ERROR"
              /\ UNCHANGED <<sys, step, branch, mark, csq, xmpp, silence, early>>

\* serial_vport_recv_ppp_data
Data == /\ link \in {"opening", "up"}
        /\ mark' = 0 /\ silence' = 0
        /\ UNCHANGED <<sys, ppp, step, branch, csq, link, xmpp, early>>

\* The XMPP client connects over the link and is disconnected.
XmppChanges == /\ (link = "up" /\ ppp = "SUCCESS") \/ xmpp
               /\ xmpp' = ~xmpp
               /\ UNCHANGED <<sys, ppp, step, branch, mark, csq, link,
                              silence, early>>

Later(n) == IF n <= LimitConnected THEN n + 1 ELSE n

\* The switch follows check_ppp_timeout at once.
Second == /\ step # "switch"
          /\ mark' = Later(mark) /\ silence' = Later(silence)
          /\ UNCHANGED <<sys, ppp, step, branch, csq, link, xmpp, early>>

Routing == \/ Check \/ TimeOut \/ RoutingNone \/ RoutingOpen \/ Dialled \/ RoutingRest
           \/ RoutingDown \/ Close \/ Stopped
           \/ AfterInitPpp \/ CsqAnswered \/ CsqFails

Mainloop == Begin \/ InitModem \/ PppError \/ Promote \/ Routing

Report == LinkUp \/ LinkEnds

Next == Mainloop \/ Report \/ LateReport \/ Data \/ XmppChanges \/ Second

Spec == Init /\ [][Next]_vars

\* mainloop runs, the modem can be initialised in the end, time passes, and
\* the engine's own timers end a negotiation.
FairSpec == /\ Spec
            /\ WF_vars(Begin \/ InitModem \/ PppError \/ Routing)
            /\ WF_vars(link = "opening" /\ Report)
            /\ WF_vars(Second)

-----------------------------------------------------------------------------
(* Properties *)

\* ppp_service.c:120-132,434-442: the time-out is decided on only after a
\* silence of the link longer than the limit that applies, and a link that is
\* up is torn down only after that, or when the failures of AT+CSQ that are
\* counted exceed their limit; no late or stale status does it.
TornDownForCause ==
    [][/\ step # "timeout" /\ step' = "timeout" => silence > Allowed
       /\ ppp # "TIMEOUT" /\ ppp' = "TIMEOUT" => step = "timeout"
       /\ link = "up" /\ link' \in Torn =>
              ppp = "TIMEOUT" \/ csq > CsqLimit]_vars

\* ppp_service.c:129,180-249: whatever the engine and mainloop write between
\* each other's tests and assignments, a session that ended with an error
\* leaves a status that closes it; only the assignment after the dial
\* (line 199) erases the report.
FailureOnRecord == link = "ended" /\ ~early => ppp \in {"ERROR", "TIMEOUT"}

\* ppp_service.c:189-217: a session is opened only after the previous one was
\* closed.
OneSession == [][link' = "opening" /\ link # "opening" => link \in Torn]_vars

\* ppp_service.c:210: a session that ended with an error that has a case is
\* closed, unless the dial was still going on.
LinkErrorHandled == (link = "ended" /\ ~early) ~> link \in Torn

\* ppp_service.c:210: "on an error or a time-out of PPP the current link is
\* destroyed".
EveryErrorHandled == link \in {"ended", "dropped"} ~> link \in Torn

\* ppp_service.c:379-453: either sessions are opened again and again, or one
\* stays, or its report was lost: to the dial, or for want of a case.
KeepsTrying == []<>(link = "opening") \/ <>[](sys = "PPPSUCCESS")
               \/ <>[](early \/ link = "dropped")
=============================================================================
