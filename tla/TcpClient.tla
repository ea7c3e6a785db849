----------------------------- MODULE TcpClient ------------------------------
(***************************************************************************)
(* The TCP clients (lwip_raw_api_tcp_template.c): a state machine that      *)
(* mainloop steps and the callbacks of the tcpip thread move on.  The two  *)
(* threads share status, pcb and the PCBs without a lock: LOCK_TCPIP_CORE  *)
(* is empty in this build, and tcpip may preempt mainloop anywhere.        *)
(*                                                                         *)
(* mainloop's operations are therefore split where a callback matters:     *)
(* between dns_gethostbyname or tcp_connect and the assignment of the      *)
(* status, and between the test and the tcp_abort of MY_TCP_Client_stop.   *)
(* The PCBs are lwIP's, modelled from tcp.h and rawapi.txt: an error frees *)
(* a PCB before the callback, tcp_abort calls the error callback, a closed *)
(* PCB lives on until the peer agrees.  Using a freed one is undefined: it *)
(* does nothing or the device stops and the watchdog resets it.            *)
(***************************************************************************)
EXTENDS Integers

CONSTANTS Client,        \* the slots of tcp_client_buffer
          LongLived,     \* those of connect_type 1
          KeepAlive,     \* those with keepalive
          Pcb, NoPcb,    \* lwIP's pool of PCBs, and the null pointer
          DnsRounds,     \* rounds that wait for the resolver, 10
          MaxQueries,    \* bound: open queries of each client
          AttemptLimit,  \* attempts before the device is reset, 100
          AttemptWidth   \* values of connecting_count, 256

ASSUME TcpAssumption == /\ LongLived \subseteq Client /\ KeepAlive \subseteq Client
                        /\ NoPcb \notin Pcb
                        /\ DnsRounds \in Nat \ {0} /\ MaxQueries \in [Client -> Nat]
                        /\ AttemptLimit \in Nat /\ AttemptWidth \in Nat
                        /\ AttemptLimit + 1 < AttemptWidth

VARIABLES status,    \* active_status
          pcb,       \* the client's pcb
          attempts,  \* connecting_count
          waits,     \* dns_wait_count, shared by the clients
          queries,   \* queries of each client that will be answered
          sock,      \* the state of each PCB and the client it calls back
          now,       \* where mainloop is, and for which client
          link       \* whether the PPP link is up

tcpVars == <<status, pcb, attempts, waits, queries, sock, now, link>>

Failed == {"DNS_ERR", "CONNECT_ERR", "DISCONNECT"}
Status == Failed \cup {"PAUSE", "INIT", "DNS_START", "DNS_FINISH",
                       "CONNECTING", "CONNECTED", "RECONNECT_DELAY"}
Idle == [at |-> "idle"]
Free == [is |-> "free"]
Socket == {Free} \cup [is : {"leaked", "opening", "open", "closing"}, cli : Client]
Reason == {"routing", "task", "link"}
Place == {Idle} \cup [at : {"asked", "dialled"}, cli : Client]
                \cup [at : {"abort", "done"}, cli : Client, why : Reason]

TcpTypeOK == /\ status \in [Client -> Status]
             /\ pcb \in [Client -> Pcb \cup {NoPcb}]
             /\ attempts \in [Client -> 0..(AttemptWidth - 1)]
             /\ waits \in 0..(DnsRounds - 1)
             /\ queries \in [Client -> Nat]
             /\ \A c \in Client : queries[c] <= MaxQueries[c]
             /\ sock \in [Pcb -> Socket]
             /\ now \in Place
             /\ link \in {"up", "down"}

AllPaused == [c \in Client |-> "PAUSE"]
NoAttempt == [c \in Client |-> 0]
AllFree == [p \in Pcb |-> Free]

TcpInit == /\ status = AllPaused /\ pcb = [c \in Client |-> NoPcb]
           /\ attempts = NoAttempt /\ waits = 0 /\ queries = NoAttempt
           /\ sock = AllFree
           /\ now = Idle /\ link = "down"

\* rt_reset_system, or the watchdog after a fault.
Reboot == /\ status' = AllPaused /\ pcb' = [c \in Client |-> NoPcb]
          /\ attempts' = NoAttempt /\ waits' = 0 /\ queries' = NoAttempt
          /\ sock' = AllFree
          /\ now' = Idle /\ link' = "down"

Live == {p \in Pcb : sock[p].is \in {"opening", "open"}}
Becomes(c, s) == status' = [status EXCEPT ![c] = s]
Frees(p) == sock' = [sock EXCEPT ![p] = Free]
InUse(q) == q \in Pcb /\ sock[q] # Free

-----------------------------------------------------------------------------
(* MY_TCP_Client_Routing, in mainloop *)

Round(c, s) == now = Idle /\ link = "up" /\ status[c] = s

ResolveCached(c) == /\ Round(c, "INIT")
                    /\ Becomes(c, "DNS_FINISH") /\ waits' = 0
                    /\ UNCHANGED <<pcb, attempts, queries, sock, now, link>>

Resolve(c) == /\ Round(c, "INIT")
              /\ queries[c] < MaxQueries[c]
              /\ queries' = [queries EXCEPT ![c] = @ + 1]
              /\ now' = [at |-> "asked", cli |-> c]
              /\ UNCHANGED <<status, pcb, attempts, waits, sock, link>>

Asked(c) == /\ now = [at |-> "asked", cli |-> c]
            /\ Becomes(c, "DNS_START")
            /\ now' = Idle
            /\ UNCHANGED <<pcb, attempts, waits, queries, sock, link>>

\* Faulty variant: the client waits for the resolver for ever.
AwaitForever(c) == /\ Round(c, "DNS_START")
                   /\ waits' = (waits + 1) % DnsRounds
                   /\ UNCHANGED <<status, pcb, attempts, queries, sock,
                                  now, link>>

\* Faulty variant: one round more.
AwaitLonger(c) == /\ Round(c, "DNS_START")
                  /\ waits' = IF waits < DnsRounds THEN waits + 1 ELSE 0
                  /\ status' = IF waits' = 0 THEN [status EXCEPT ![c] = "INIT"]
                               ELSE status
                  /\ UNCHANGED <<pcb, attempts, queries, sock, now, link>>

AwaitAnswer(c) == /\ Round(c, "DNS_START")
                  /\ waits' = (waits + 1) % DnsRounds
                  /\ status' = IF waits' = 0 THEN [status EXCEPT ![c] = "INIT"]
                               ELSE status
                  /\ UNCHANGED <<pcb, attempts, queries, sock, now, link>>

\* The counter of a client that does not reconnect is never read.
Counted(c) == attempts' = IF c \in LongLived
                          THEN [attempts EXCEPT ![c] = (@ + 1) % AttemptWidth]
                          ELSE attempts

\* tcp_new, tcp_arg and the SYN of tcp_connect.
Dial(c) == /\ Round(c, "DNS_FINISH")
           /\ Counted(c)
           /\ \E p \in Pcb : /\ sock[p] = Free
                             /\ sock' = [sock EXCEPT ![p] = [is |-> "opening", cli |-> c]]
                             /\ pcb' = [pcb EXCEPT ![c] = p]
           /\ now' = [at |-> "dialled", cli |-> c]
           /\ UNCHANGED <<status, waits, queries, link>>

\* tcp_connect fails at once: the PCB is not released.
DialRefused(c) == /\ Round(c, "DNS_FINISH")
                  /\ Counted(c)
                  /\ \E p \in Pcb : /\ sock[p] = Free
                                    /\ sock' = [sock EXCEPT ![p] = [is |-> "leaked", cli |-> c]]
                                    /\ pcb' = [pcb EXCEPT ![c] = p]
                  /\ Becomes(c, "INIT")
                  /\ UNCHANGED <<waits, queries, now, link>>

\* The pool is empty; so_options is set through the null pointer first.
NoMorePcb(c) == /\ Round(c, "DNS_FINISH")
                /\ \A p \in Pcb : sock[p] # Free
                /\ Counted(c) /\ Becomes(c, "CONNECT_ERR")
                /\ pcb' = [pcb EXCEPT ![c] = NoPcb]
                /\ UNCHANGED <<waits, queries, sock, now, link>>

NoMorePcbFaults(c) == /\ Round(c, "DNS_FINISH")
                      /\ \A p \in Pcb : sock[p] # Free
                      /\ c \in KeepAlive
                      /\ Reboot

Dialled(c) == /\ now = [at |-> "dialled", cli |-> c]
              /\ Becomes(c, "CONNECTING")
              /\ now' = Idle
              /\ UNCHANGED <<pcb, attempts, waits, queries, sock, link>>

\* Faulty variant: the device is never reset.
RetryAlways(c) == /\ \E s \in Failed : Round(c, s)
                  /\ c \in LongLived
                  /\ Becomes(c, "RECONNECT_DELAY")
                  /\ UNCHANGED <<pcb, attempts, waits, queries, sock, now,
                                 link>>

Retry(c) == /\ \E s \in Failed : Round(c, s)
            /\ c \in LongLived
            /\ attempts[c] <= AttemptLimit
            /\ Becomes(c, "RECONNECT_DELAY")
            /\ UNCHANGED <<pcb, attempts, waits, queries, sock, now, link>>

RetryResets(c) == /\ \E s \in Failed : Round(c, s)
                  /\ c \in LongLived
                  /\ attempts[c] > AttemptLimit
                  /\ Reboot

\* reconnection_time is always 0: the delay is over at the next round.
Again(c) == /\ Round(c, "RECONNECT_DELAY")
            /\ Becomes(c, "INIT")
            /\ UNCHANGED <<pcb, attempts, waits, queries, sock, now, link>>

Settle(c) == /\ Round(c, "CONNECTED")
             /\ attempts' = [attempts EXCEPT ![c] = 0]
             /\ UNCHANGED <<status, pcb, waits, queries, sock, now, link>>

-----------------------------------------------------------------------------
(* MY_TCP_Client_Init, _start, _stop and _pause *)

InitOf(c) == /\ Becomes(c, "PAUSE")
             /\ pcb' = [pcb EXCEPT ![c] = NoPcb]
             /\ attempts' = [attempts EXCEPT ![c] = 0]
             /\ UNCHANGED <<waits, queries, sock, now, link>>

StartOf(c) == /\ Becomes(c, "INIT")
              /\ UNCHANGED <<pcb, attempts, waits, queries, sock, now, link>>

\* The test of MY_TCP_Client_stop; the rest of it is done or still to do.
Stopping(c, why) == [at |-> IF status[c] = "CONNECTED" THEN "abort" ELSE "done",
                     cli |-> c, why |-> why]

BeginStop(c, why) == /\ now = Idle
                     /\ now' = Stopping(c, why)
                     /\ UNCHANGED <<status, pcb, attempts, waits, queries, sock,
                                    link>>

\* tcp_abort of the client's PCB, whosever it is by now, with its callback; the
\* status the client is given follows.
AbortOf(c, s) == /\ IF InUse(pcb[c])
                    THEN /\ Frees(pcb[c])
                         /\ status' = [status EXCEPT ![sock[pcb[c]].cli] = "CONNECT_ERR",
                                                     ![c] = s]
                    ELSE Becomes(c, s) /\ UNCHANGED sock
                 /\ UNCHANGED <<pcb, attempts, waits, queries, link>>

StopAborts == /\ now.at = "abort"
              /\ AbortOf(now.cli, "DISCONNECT")
              /\ now' = IF now.why = "routing" THEN Idle
                        ELSE [now EXCEPT !.at = "done"]

StopFaults == now.at = "abort" /\ ~InUse(pcb[now.cli]) /\ Reboot

\* All of it at once: its caller runs in tcpip.  No round leaves TCP_PAUSE.
PauseOf(c) == /\ IF status[c] = "CONNECTED" THEN AbortOf(c, "PAUSE")
                 ELSE Becomes(c, "PAUSE") /\ UNCHANGED <<pcb, attempts, waits,
                                                        queries, sock, link>>
              /\ UNCHANGED now

-----------------------------------------------------------------------------
(* Callbacks, in the tcpip thread *)

\* my_found with an address
Answer(c) == /\ queries[c] > 0 /\ link = "up"
             /\ queries' = [queries EXCEPT ![c] = @ - 1]
             /\ Becomes(c, "DNS_FINISH")
             /\ UNCHANGED <<pcb, attempts, waits, sock, now, link>>

\* my_found without one
NoAnswer(c) == /\ queries[c] > 0
               /\ queries' = [queries EXCEPT ![c] = @ - 1]
               /\ Becomes(c, "DNS_ERR")
               /\ UNCHANGED <<pcb, attempts, waits, sock, now, link>>

\* TcpCli_Connected
Connected(p) == /\ sock[p].is = "opening" /\ link = "up"
                /\ sock' = [sock EXCEPT ![p].is = "open"]
                /\ Becomes(sock[p].cli, "CONNECTED")
                /\ UNCHANGED <<pcb, attempts, waits, queries, now, link>>

\* Faulty variant: the status is left alone.
ConnErrorSilent(p) == /\ sock[p].is \in {"opening", "open", "closing"}
                      /\ Frees(p)
                      /\ UNCHANGED <<status, pcb, attempts, waits, queries,
                                     now, link>>

\* ClientConError
ConnError(p) == /\ sock[p].is \in {"opening", "open", "closing"}
                /\ Frees(p)
                /\ Becomes(sock[p].cli, "CONNECT_ERR")
                /\ UNCHANGED <<pcb, attempts, waits, queries, now, link>>


\* tcp_client_recv_cb without data.  It closes the client's PCB, which need not
\* be the one that was closed by the peer: that one is then never closed.
PeerCloses(p) ==
    /\ sock[p].is = "open" /\ link = "up"
    /\ LET q == pcb[sock[p].cli]
           rest == [sock EXCEPT ![p].is = "leaked"]
       IN sock' = CASE ~InUse(q) -> rest
                    [] InUse(q) /\ sock[q].is = "opening" -> [rest EXCEPT ![q] = Free]
                    [] InUse(q) /\ sock[q].is # "opening" -> [rest EXCEPT ![q].is = "closing"]
    /\ Becomes(sock[p].cli, "DISCONNECT")
    /\ UNCHANGED <<pcb, attempts, waits, queries, now, link>>

PeerCloseFaults(p) == /\ sock[p].is = "open" /\ link = "up"
                      /\ ~InUse(pcb[sock[p].cli])
                      /\ Reboot

\* The peer has acknowledged the end of the connection.
Gone(p) == /\ sock[p].is = "closing"
           /\ Frees(p)
           /\ UNCHANGED <<status, pcb, attempts, waits, queries, now, link>>
=============================================================================
