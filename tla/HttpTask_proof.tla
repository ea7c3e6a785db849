--------------------------- MODULE HttpTask_proof ---------------------------
(***************************************************************************)
(* Proofs about the TCP clients and the HTTP task, for both clients at     *)
(* once, a pool of PCBs of any size, any number of open queries and any    *)
(* limit of attempts.                                                      *)
(***************************************************************************)
EXTENDS HttpTask, TLAPS

\* What a step of the device is for the TCP clients.
TcpStep ==
    \/ \E c \in Client :
          \/ ResolveCached(c) \/ Resolve(c) \/ Asked(c) \/ AwaitAnswer(c)
          \/ Dial(c) \/ DialRefused(c) \/ NoMorePcb(c) \/ Dialled(c)
          \/ Retry(c) \/ Again(c) \/ Settle(c) \/ Answer(c) \/ NoAnswer(c)
          \/ \E why \in Reason : BeginStop(c, why)
    \/ \E p \in Pcb : Connected(p) \/ ConnError(p) \/ PeerCloses(p) \/ Gone(p)
    \/ StopAborts \/ LinkStops \/ LinkAgain \/ TaskEnded
    \/ Http \in used /\ StartOf(Http)
    \/ InitOf(Http)
    \/ Xmpp \in used /\ PauseOf(Xmpp)
    \/ status[Http] = "CONNECTED" /\ AbortOf(Http, "DISCONNECT") /\ UNCHANGED now
    \/ Reboot
    \/ UNCHANGED tcpVars

LEMMA Numbers ==
    /\ DnsRounds \in Nat \ {0}
    /\ AttemptLimit \in Nat /\ AttemptWidth \in Nat \ {0}
    /\ AttemptLimit + 1 < AttemptWidth
    /\ \A c \in Client : MaxQueries[c] \in Nat
BY TcpAssumption

LEMMA Names ==
    /\ Xmpp \in Client /\ Http \in Client /\ Xmpp # Http
    /\ \A c \in Client : c = Xmpp \/ c = Http
    /\ NoPcb \notin Pcb
    /\ LongLived = {Xmpp}
BY TcpAssumption, HttpAssumption

LEMMA TcpSteps ==
    ASSUME [Next]_vars PROVE TcpStep
<1> USE Names
<1>1. CASE UNCHANGED vars
  BY <1>1 DEF vars, TcpStep
<1>2. ASSUME NEW c \in Client, ClientRound(c) PROVE TcpStep
  BY <1>2 DEF ClientRound, TcpStep, NoMorePcbFaults, RetryResets
<1>3. CASE XmppSilent
  <2>1. BeginStop(Xmpp, "routing")
    BY <1>3 DEF XmppSilent
  <2> QED
    BY <2>1 DEF TcpStep, Reason
<1>4. CASE LinkError
  <2>1. \E c \in Client : BeginStop(c, "link")
    BY <1>4 DEF LinkError
  <2> QED
    BY <2>1 DEF TcpStep, Reason
<1>5. CASE LinkStops \/ LinkAgain \/ TaskEnded
  BY <1>5 DEF TcpStep
<1>6. CASE Stop
  BY <1>6 DEF Stop, StopFaults, Reset, TcpStep
<1>7. CASE TaskEnds
  <2>1. BeginStop(Http, "task")
    BY <1>7 DEF TaskEnds
  <2> QED
    BY <2>1 DEF TcpStep, Reason
<1>8. CASE TaskStarts
  BY <1>8 DEF TaskStarts, HttpRound, TcpStep
<1>9. CASE TaskStartsAgain \/ UploadBlock \/ Quiet
  BY <1>9 DEF TaskStartsAgain, UploadBlock, Quiet, TcpStep
<1>10. CASE Command
  BY <1>10 DEF Command, TcpStep
<1>11. CASE CommandStops
  BY <1>11 DEF CommandStops, TcpStep
<1>12. ASSUME NEW p \in Pcb,
              OnConnected(p) \/ OnError(p) \/ OnPeerCloses(p) \/ Recv(p) \/ Gone(p)
       PROVE  TcpStep
  BY <1>12 DEF OnConnected, OnError, OnPeerCloses, Recv, PeerCloseFaults, Reset,
     TcpStep
<1>13. ASSUME NEW c \in Client, OnAnswer(c) \/ OnNoAnswer(c) PROVE TcpStep
  BY <1>13 DEF OnAnswer, OnNoAnswer, TcpStep
<1>14. CASE XmppPaused
  BY <1>14 DEF XmppPaused, Reset, TcpStep
<1> QED
  BY <1>1, <1>2, <1>3, <1>4, <1>5, <1>6, <1>7, <1>8, <1>9, <1>10, <1>11,
     <1>12, <1>13, <1>14 DEF Next

-----------------------------------------------------------------------------
(* Types *)

LEMMA ModRange == \A n \in Nat, d \in Nat \ {0} : n % d \in 0..(d - 1)
OBVIOUS

LEMMA Places ==
    /\ Idle \in Place
    /\ \A c \in Client : /\ [at |-> "asked", cli |-> c] \in Place
                         /\ [at |-> "dialled", cli |-> c] \in Place
    /\ \A c \in Client, w \in Reason :
          /\ [at |-> "abort", cli |-> c, why |-> w] \in Place
          /\ [at |-> "done", cli |-> c, why |-> w] \in Place
BY DEF Place

LEMMA PlaceParts ==
    ASSUME NEW n \in Place
    PROVE  \/ n = Idle
           \/ \E c \in Client : n \in {[at |-> "asked", cli |-> c],
                                       [at |-> "dialled", cli |-> c]}
           \/ \E c \in Client, w \in Reason :
                 n \in {[at |-> "abort", cli |-> c, why |-> w],
                        [at |-> "done", cli |-> c, why |-> w]}
BY DEF Place

LEMMA StopPlaces ==
    ASSUME NEW n \in Place, n.at \in {"abort", "done"}
    PROVE  /\ n.cli \in Client /\ n.why \in Reason
           /\ [n EXCEPT !.at = "done"] \in Place
           /\ [n EXCEPT !.at = "done"].at = "done"
<1>1. PICK c \in Client, w \in Reason :
         n \in {[at |-> "abort", cli |-> c, why |-> w],
                [at |-> "done", cli |-> c, why |-> w]}
  BY PlaceParts DEF Idle
<1>2. [n EXCEPT !.at = "done"] = [at |-> "done", cli |-> c, why |-> w]
  BY <1>1
<1> QED
  BY <1>1, <1>2, Places

LEMMA Sockets ==
    /\ Free \in Socket /\ Free.is = "free"
    /\ \A c \in Client : /\ [is |-> "opening", cli |-> c] \in Socket
                         /\ [is |-> "leaked", cli |-> c] \in Socket
    /\ \A s \in Socket : s.is # "free" =>
          /\ s.cli \in Client /\ s # Free
          /\ \A k \in {"leaked", "opening", "open", "closing"} :
                /\ [s EXCEPT !.is = k] \in Socket
                /\ [s EXCEPT !.is = k].is = k
                /\ [s EXCEPT !.is = k].cli = s.cli
    /\ \A s \in Socket : s.is = "free" => s = Free
BY DEF Socket, Free

\* The parts of TcpTypeOK.
Statuses == status \in [Client -> Status]
Pcbs == pcb \in [Client -> Pcb \cup {NoPcb}]
Attempts == attempts \in [Client -> 0..(AttemptWidth - 1)]
Waits == waits \in 0..(DnsRounds - 1)
Queries == /\ queries \in [Client -> Nat]
           /\ \A c \in Client : queries[c] <= MaxQueries[c]
Socks == sock \in [Pcb -> Socket]
Here == now \in Place

LEMMA SocksStep ==
    ASSUME Socks, Pcbs, TcpStep PROVE Socks'
<1> USE Sockets DEF Socks
<1>1. CASE UNCHANGED sock
  BY <1>1
<1>2. CASE Reboot
  BY <1>2 DEF Reboot, AllFree
<1>3. ASSUME NEW c \in Client, Dial(c) \/ DialRefused(c) PROVE Socks'
  <2>1. PICK p \in Pcb, k \in {"opening", "leaked"} :
           sock' = [sock EXCEPT ![p] = [is |-> k, cli |-> c]]
    BY <1>3 DEF Dial, DialRefused
  <2> QED
    BY <2>1
<1>4. ASSUME NEW p, Frees(p) PROVE Socks'
  BY <1>4 DEF Frees
<1>5. ASSUME NEW c, NEW s, AbortOf(c, s) PROVE Socks'
  BY <1>1, <1>4, <1>5 DEF AbortOf
<1>6. CASE StopAborts \/ PauseOf(Xmpp)
  BY <1>1, <1>5, <1>6 DEF StopAborts, PauseOf
<1>7. ASSUME NEW p \in Pcb, Connected(p) PROVE Socks'
  <2>1. sock' = [sock EXCEPT ![p] = [sock[p] EXCEPT !.is = "open"]]
        /\ sock[p].is # "free"
    BY <1>7 DEF Connected
  <2>2. [sock[p] EXCEPT !.is = "open"] \in Socket
    BY <2>1
  <2> HIDE Sockets
  <2> QED
    BY <2>1, <2>2
<1>8. ASSUME NEW p \in Pcb, ConnError(p) \/ Gone(p) PROVE Socks'
  BY <1>4, <1>8 DEF ConnError, Gone
<1>9. ASSUME NEW p \in Pcb, PeerCloses(p) PROVE Socks'
  <2> DEFINE q == pcb[sock[p].cli]
             rest == [sock EXCEPT ![p].is = "leaked"]
  <2>1. /\ sock[p].is = "open"
        /\ \/ sock' = rest
           \/ InUse(q) /\ sock' = [rest EXCEPT ![q] = Free]
           \/ InUse(q) /\ sock' = [rest EXCEPT ![q].is = "closing"]
    BY <1>9 DEF PeerCloses
  <2>2. rest \in [Pcb -> Socket]
    <3>1. [sock[p] EXCEPT !.is = "leaked"] \in Socket
      BY <2>1
    <3> QED
      BY <3>1
  <2>3. InUse(q) => rest[q].is # "free"
    BY <2>1 DEF InUse
  <2> HIDE DEF rest
  <2>4. InUse(q) => [rest[q] EXCEPT !.is = "closing"] \in Socket
    BY <2>2, <2>3 DEF InUse
  <2> QED
    BY <2>1, <2>2, <2>4
<1> QED
  BY <1>1, <1>2, <1>3, <1>5, <1>6, <1>7, <1>8, <1>9 DEF TcpStep, ResolveCached,
     Resolve, Asked, AwaitAnswer, NoMorePcb, Dialled, Retry, Again, Settle,
     Answer, NoAnswer, BeginStop, LinkStops, LinkAgain, TaskEnded, StartOf,
     InitOf, tcpVars

LEMMA HereStep ==
    ASSUME Here, TcpStep PROVE Here'
<1> USE Places DEF Here
<1>1. CASE UNCHANGED now \/ now' = Idle
  BY <1>1
<1>2. ASSUME NEW c \in Client, Resolve(c) \/ Dial(c) PROVE Here'
  BY <1>2 DEF Resolve, Dial
<1>3. ASSUME NEW c \in Client, NEW w \in Reason, now' = Stopping(c, w)
      PROVE  Here'
  BY <1>3 DEF Stopping
<1>4. CASE StopAborts
  BY <1>1, <1>4, StopPlaces DEF StopAborts
<1>5. CASE LinkStops
  BY <1>1, <1>3, <1>5, Names DEF LinkStops, Reason
<1> QED
  BY <1>1, <1>2, <1>3, <1>4, <1>5 DEF TcpStep, ResolveCached, Asked,
     AwaitAnswer, DialRefused, NoMorePcb, Dialled, Retry, Again, Settle, Answer,
     NoAnswer, BeginStop, Connected, ConnError, PeerCloses, Gone, LinkAgain,
     TaskEnded, StartOf, InitOf, PauseOf, Reboot, tcpVars

LEMMA PcbsStep ==
    ASSUME Pcbs, TcpStep PROVE Pcbs'
<1> USE DEF Pcbs
<1>1. CASE UNCHANGED pcb
  BY <1>1
<1>2. ASSUME NEW c \in Client, Dial(c) \/ DialRefused(c) \/ NoMorePcb(c)
      PROVE  Pcbs'
  BY <1>2 DEF Dial, DialRefused, NoMorePcb
<1>3. CASE InitOf(Http) \/ LinkAgain \/ Reboot
  BY <1>3 DEF InitOf, LinkAgain, Reboot
<1> QED
  BY <1>1, <1>2, <1>3 DEF TcpStep, ResolveCached, Resolve, Asked, AwaitAnswer,
     Dialled, Retry, Again, Settle, Answer, NoAnswer, BeginStop, Connected,
     ConnError, PeerCloses, Gone, StopAborts, AbortOf, PauseOf, LinkStops,
     TaskEnded, StartOf, tcpVars

LEMMA AttemptsStep ==
    ASSUME Attempts, TcpStep PROVE Attempts'
<1> USE Numbers DEF Attempts
<1>0. 0 \in 0..(AttemptWidth - 1)
  OBVIOUS
<1>1. CASE UNCHANGED attempts
  BY <1>1
<1>2. ASSUME NEW c \in Client, Counted(c) PROVE Attempts'
  <2>0. attempts[c] + 1 \in Nat
    OBVIOUS
  <2>1. (attempts[c] + 1) % AttemptWidth \in 0..(AttemptWidth - 1)
    BY <2>0, ModRange
  <2> QED
    BY <1>2, <2>1, Zenon DEF Counted
<1>3. CASE \E c \in Client : Settle(c)
  BY <1>0, <1>3 DEF Settle
<1>4. CASE InitOf(Http) \/ LinkAgain \/ Reboot
  BY <1>0, <1>4 DEF InitOf, LinkAgain, Reboot, NoAttempt
<1> QED
  BY <1>1, <1>2, <1>3, <1>4 DEF TcpStep, ResolveCached, Resolve, Asked,
     AwaitAnswer, Dial, DialRefused, NoMorePcb, Dialled, Retry, Again, Answer,
     NoAnswer, BeginStop, Connected, ConnError, PeerCloses, Gone, StopAborts,
     AbortOf, PauseOf, LinkStops, TaskEnded, StartOf, tcpVars

LEMMA WaitsStep ==
    ASSUME Waits, TcpStep PROVE Waits'
<1> USE Numbers DEF Waits
<1>1. CASE UNCHANGED waits \/ waits' = 0
  BY <1>1
<1>2. ASSUME NEW c \in Client, AwaitAnswer(c) PROVE Waits'
  <2>1. waits + 1 \in Nat /\ waits' = (waits + 1) % DnsRounds
    BY <1>2 DEF AwaitAnswer
  <2> QED
    BY <2>1, ModRange
<1> QED
  BY <1>1, <1>2 DEF TcpStep, ResolveCached, Resolve, Asked, Dial, DialRefused,
     NoMorePcb, Dialled, Retry, Again, Settle, Answer, NoAnswer, BeginStop,
     Connected, ConnError, PeerCloses, Gone, StopAborts, AbortOf, PauseOf,
     LinkStops, LinkAgain, TaskEnded, StartOf, InitOf, Reboot, tcpVars

LEMMA QueriesStep ==
    ASSUME Queries, TcpStep PROVE Queries'
<1> USE Numbers DEF Queries
<1>1. CASE UNCHANGED queries
  BY <1>1
<1>2. ASSUME NEW c \in Client, Resolve(c) PROVE Queries'
  BY <1>2 DEF Resolve
<1>3. ASSUME NEW c \in Client, Answer(c) \/ NoAnswer(c) PROVE Queries'
  BY <1>3 DEF Answer, NoAnswer
<1>4. CASE Reboot
  BY <1>4 DEF Reboot, NoAttempt
<1> QED
  BY <1>1, <1>2, <1>3, <1>4 DEF TcpStep, ResolveCached, Asked, AwaitAnswer, Dial,
     DialRefused, NoMorePcb, Dialled, Retry, Again, Settle, BeginStop, Connected,
     ConnError, PeerCloses, Gone, StopAborts, AbortOf, PauseOf, LinkStops,
     LinkAgain, TaskEnded, StartOf, InitOf, tcpVars

LEMMA StatusesStep ==
    ASSUME Statuses, TcpStep PROVE Statuses'
<1> USE DEF Statuses, Status, Failed
<1>1. CASE UNCHANGED status
  BY <1>1
<1>2. ASSUME NEW c, NEW s \in Status, Becomes(c, s) PROVE Statuses'
  BY <1>2 DEF Becomes
<1>3. ASSUME NEW c \in Client,
             \/ ResolveCached(c) \/ Resolve(c) \/ Asked(c) \/ AwaitAnswer(c)
             \/ Dial(c) \/ DialRefused(c) \/ NoMorePcb(c) \/ Dialled(c)
             \/ Retry(c) \/ Again(c) \/ Settle(c) \/ Answer(c) \/ NoAnswer(c)
             \/ StartOf(c) \/ InitOf(c)
      PROVE  Statuses'
  BY <1>1, <1>2, <1>3 DEF ResolveCached, Resolve, Asked, AwaitAnswer, Dial,
     DialRefused, NoMorePcb, Dialled, Retry, Again, Settle, Answer, NoAnswer,
     StartOf, InitOf, Becomes
<1>4. ASSUME NEW p \in Pcb, Connected(p) \/ ConnError(p) \/ PeerCloses(p) \/ Gone(p)
      PROVE  Statuses'
  BY <1>1, <1>2, <1>4 DEF Connected, ConnError, PeerCloses, Gone
<1>5. ASSUME NEW c, NEW s \in Status, AbortOf(c, s) PROVE Statuses'
  BY <1>2, <1>5 DEF AbortOf
<1>6. CASE Reboot \/ LinkAgain
  BY <1>6 DEF Reboot, LinkAgain, AllPaused
<1>7. CASE PauseOf(Xmpp)
  BY <1>2, <1>5, <1>7 DEF PauseOf
<1> QED
  BY <1>1, <1>3, <1>4, <1>5, <1>6, <1>7, Names DEF TcpStep, BeginStop, LinkStops,
     TaskEnded, StopAborts, tcpVars


\* The parts of TypeOK that are the task's.
Tasks == /\ http \in HttpStatus /\ task \in {"download", "upload"}
         /\ quiet \in BOOLEAN

LEMMA TasksStep ==
    ASSUME Tasks, [Next]_vars PROVE Tasks'
<1> USE DEF Tasks, HttpStatus, Uploading
<1>1. CASE UNCHANGED httpVars
  BY <1>1 DEF httpVars
<1>2. ASSUME NEW s \in HttpStatus, HttpIs(s) PROVE Tasks'
  BY <1>2 DEF HttpIs
<1>3. CASE Reset
  <2>1. http' = "INIT" /\ task' = "download" /\ quiet' \in BOOLEAN
    BY <1>3, Zenon DEF Reset
  <2> QED
    BY <2>1
<1>4. CASE UploadBlock
  BY <1>4 DEF UploadBlock, HttpRound
<1>5. CASE Command
  <2>1. http' = "START" /\ task' \in {"download", "upload"} /\ quiet' \in BOOLEAN
    BY <1>5, Zenon DEF Command
  <2> QED
    BY <2>1
<1>6. ASSUME NEW p \in Pcb, Recv(p) PROVE Tasks'
  <2>1. task' = task /\ quiet' \in BOOLEAN
    BY <1>6, Zenon DEF Recv
  <2>2. http' \in HttpStatus
    BY <1>6 DEF Recv
  <2> QED
    BY <2>1, <2>2
<1>7. ASSUME NEW p \in Pcb, OnConnected(p) PROVE Tasks'
  BY <1>1, <1>7 DEF OnConnected, HttpConnected
<1>8. CASE Quiet
  <2>1. UNCHANGED <<http, task>> /\ quiet' \in BOOLEAN
    BY <1>8, Zenon DEF Quiet
  <2> QED
    BY <2>1
<1> HIDE DEF Tasks, HttpStatus
<1>9. \A s \in {"ERROR", "FINISH", "INIT", "START", "STARTED"} : s \in HttpStatus
  BY DEF HttpStatus
<1>10. ASSUME NEW c \in Client, ClientRound(c) \/ OnAnswer(c) \/ OnNoAnswer(c)
       PROVE  Tasks'
  BY <1>1, <1>2, <1>3, <1>9, <1>10 DEF ClientRound, OnAnswer, OnNoAnswer
<1>11. ASSUME NEW p \in Pcb, OnError(p) \/ OnPeerCloses(p) PROVE Tasks'
  BY <1>1, <1>2, <1>3, <1>9, <1>11 DEF OnError, OnPeerCloses
<1>12. CASE Stop \/ TaskEnded \/ TaskStarts \/ TaskStartsAgain \/ CommandStops
  BY <1>1, <1>2, <1>3, <1>9, <1>12 DEF Stop, TaskEnded, TaskStarts,
     TaskStartsAgain, CommandStops
<1>13. CASE XmppSilent \/ LinkError \/ LinkStops \/ LinkAgain \/ TaskEnds
            \/ UNCHANGED vars
  BY <1>1, <1>13 DEF XmppSilent, LinkError, LinkStops, LinkAgain, TaskEnds,
     vars, httpVars
<1>14. CASE XmppPaused
  BY <1>1, <1>2, <1>3, <1>9, <1>14 DEF XmppPaused
<1> QED
  BY <1>1, <1>4, <1>5, <1>6, <1>7, <1>8, <1>10, <1>11, <1>12, <1>13, <1>14
     DEF Next

\* The parts of TypeOK together.
Typed == /\ Statuses /\ Pcbs /\ Attempts /\ Waits /\ Queries /\ Socks /\ Here
         /\ Tasks /\ link \in {"up", "down"}
         /\ used \in Uses /\ clean \in BOOLEAN

LEMMA TypedParts == Typed <=> TypeOK
BY DEF Typed, TypeOK, TcpTypeOK, Statuses, Pcbs, Attempts, Waits, Queries, Socks,
   Here, Tasks

\* Every step but the one of nothing marks what happened.
LEMMA Marked ==
    ASSUME [Next]_vars
    PROVE  UNCHANGED used /\ (Marks \/ UNCHANGED vars)
BY DEF Next, Marks, vars

LEMMA TypedStep ==
    ASSUME Typed, [Next]_vars PROVE Typed'
<1>1. TcpStep
  BY TcpSteps
<1>2. link' \in {"up", "down"}
  BY <1>1 DEF Typed, TcpStep, ResolveCached, Resolve, Asked, AwaitAnswer, Dial,
     DialRefused, NoMorePcb, Dialled, Retry, Again, Settle, Answer, NoAnswer,
     BeginStop, Connected, ConnError, PeerCloses, Gone, StopAborts, AbortOf,
     PauseOf, LinkStops, LinkAgain, TaskEnded, StartOf, InitOf, Reboot, tcpVars
<1>3. clean' \in BOOLEAN
  BY Marked DEF Marks, vars, Typed
<1> QED
  BY <1>1, <1>2, <1>3, Marked, StatusesStep, PcbsStep, AttemptsStep, WaitsStep,
     QueriesStep, SocksStep, HereStep, TasksStep DEF Typed

LEMMA TypeInvariant == Spec => []Typed
<1>1. Init => Typed
  <2> SUFFICES ASSUME Init PROVE Typed
    OBVIOUS
  <2>1. Statuses /\ Pcbs
    BY DEF Init, TcpInit, AllPaused, Statuses, Status, Pcbs
  <2>2. Attempts /\ Waits /\ Queries
    BY Numbers DEF Init, TcpInit, NoAttempt, Attempts, Waits, Queries
  <2>3. Socks
    BY Sockets DEF Init, TcpInit, AllFree, Socks
  <2>4. Here
    BY Places DEF Init, TcpInit, Here
  <2>5. quiet \in BOOLEAN /\ clean \in BOOLEAN
    BY Zenon DEF Init
  <2> QED
    BY <2>1, <2>2, <2>3, <2>4, <2>5 DEF Init, TcpInit, Typed, Tasks, HttpStatus
<1> QED
  BY <1>1, TypedStep, PTL DEF Spec

\* lwip_raw_api_tcp_template.c, isp_http_tcp.c: every variable keeps its type,
\* with both clients at work; the counters stay within their widths.
THEOREM TypeCorrect == Spec => []TypeOK
BY TypeInvariant, TypedParts, PTL


-----------------------------------------------------------------------------
(* Clean runs *)

\* A step after which the run is still clean was clean, and did nothing that
\* the code does not provide for.
CleanStep == TcpStep /\ (~Upset \/ UNCHANGED vars)

LEMMA CleanSteps ==
    ASSUME [Next]_vars, clean' PROVE clean /\ CleanStep
BY TcpSteps, Marked DEF Marks, vars, CleanStep

Asking(c) == now = [at |-> "asked", cli |-> c]
Dialling(c) == now = [at |-> "dialled", cli |-> c]

\* The attempts in a row of a client: one more than the limit only from the
\* last dial to the reset of the device.
Count(c) == /\ attempts[c] <= AttemptLimit + 1
            /\ \/ /\ status[c] \in {"INIT", "DNS_START", "DNS_FINISH", "DNS_ERR",
                                    "RECONNECT_DELAY"}
                  /\ ~Dialling(c)
               \/ Asking(c)
               => attempts[c] <= AttemptLimit

CountInv == clean => \A c \in LongLived : Count(c)

LEMMA NoWrap == \A n \in Nat, d \in Nat : n < d => n % d = n
OBVIOUS

\* An answer that is provided for comes to a client that waits for it.
LEMMA AnswerAwaited ==
    ASSUME Typed, ~Upset \/ UNCHANGED vars, NEW c \in Client,
           Answer(c) \/ NoAnswer(c)
    PROVE  status[c] = "DNS_START" \/ Asking(c)
<1>1. queries[c] \in Nat /\ queries'[c] = queries[c] - 1
  BY DEF Answer, NoAnswer, Typed, Queries
<1>2. queries'[c] < queries[c] /\ ~UNCHANGED vars
  BY <1>1 DEF vars, tcpVars
<1> QED
  BY <1>2 DEF Upset, Asking

\* A PCB is lost by the clean step of no client.
LEMMA NoLeak ==
    ASSUME Typed, ~Upset \/ UNCHANGED vars, NEW c \in Client
    PROVE  ~DialRefused(c)
<1> SUFFICES ASSUME DialRefused(c) PROVE FALSE
  OBVIOUS
<1>1. PICK p \in Pcb : /\ sock[p] = Free
                       /\ sock' = [sock EXCEPT ![p] = [is |-> "leaked", cli |-> c]]
  BY DEF DialRefused
<1>2. sock[p].is # "leaked" /\ sock'[p].is = "leaked"
  BY <1>1, Sockets DEF Typed, Socks
<1> QED
  BY <1>2 DEF Upset, vars, tcpVars

LEMMA CountStep ==
    ASSUME Typed, CountInv, [Next]_vars PROVE CountInv'
<1> SUFFICES ASSUME clean', NEW x \in LongLived PROVE Count(x)'
  BY DEF CountInv
<1>0. CleanStep /\ Count(x)
  BY CleanSteps DEF CountInv
<1>1. /\ x \in Client /\ attempts[x] \in Nat
      /\ AttemptLimit \in Nat /\ AttemptLimit + 1 < AttemptWidth
  BY Names, Numbers DEF Typed, Attempts
<1>2. ASSUME attempts'[x] = attempts[x], Asking(x)' => Asking(x),
             \/ status'[x] = status[x] /\ (Dialling(x) => Dialling(x)')
             \/ status'[x] \notin {"INIT", "DNS_START", "DNS_FINISH", "DNS_ERR",
                                   "RECONNECT_DELAY"}
      PROVE  Count(x)'
  BY <1>0, <1>2 DEF Count
<1>3. ASSUME attempts'[x] = 0 PROVE Count(x)'
  BY <1>1, <1>3 DEF Count
<1>4. ASSUME attempts'[x] = attempts[x], attempts[x] <= AttemptLimit
      PROVE  Count(x)'
  BY <1>1, <1>4 DEF Count
<1>5. ASSUME now = Idle PROVE ~Asking(x) /\ ~Dialling(x)
  BY <1>5 DEF Asking, Dialling, Idle
<1>6. ASSUME now' = Idle PROVE ~Asking(x)' /\ ~Dialling(x)'
  BY <1>6 DEF Asking, Dialling, Idle
<1>7. ASSUME NEW c \in Client,
             \/ ResolveCached(c) \/ Resolve(c) \/ Asked(c) \/ AwaitAnswer(c)
             \/ Again(c)
      PROVE  Count(x)'
  <2>1. UNCHANGED attempts
    BY <1>7 DEF ResolveCached, Resolve, Asked, AwaitAnswer, Again
  <2>2. CASE c = x
    <3>1. Asking(x) \/ (now = Idle /\ status[x] \in {"INIT", "DNS_START",
                                                     "RECONNECT_DELAY"})
      BY <1>7, <2>2 DEF ResolveCached, Resolve, Asked, AwaitAnswer, Again,
         Round, Asking
    <3> QED
      BY <1>0, <1>4, <1>5, <2>1, <3>1 DEF Count
  <2>3. CASE c # x
    <3>1. status'[x] = status[x]
      BY <1>1, <1>7, <2>3 DEF ResolveCached, Resolve, Asked, AwaitAnswer, Again,
         Becomes, Typed, Statuses
    <3>2. ~Dialling(x) /\ ~Asking(x)'
      BY <1>5, <1>6, <1>7, <2>3 DEF ResolveCached, Resolve, Asked, AwaitAnswer,
         Again, Round, Asking, Dialling
    <3> QED
      BY <1>2, <2>1, <3>1, <3>2
  <2> QED
    BY <2>2, <2>3
<1>8. ASSUME NEW c \in Client, Dial(c) \/ NoMorePcb(c) PROVE Count(x)'
  <2>1. Round(c, "DNS_FINISH") /\ Counted(c)
    BY <1>8 DEF Dial, NoMorePcb
  <2>2. ~Dialling(x) /\ ~Asking(x)
    BY <1>5, <2>1 DEF Round
  <2>3. ~Asking(x)'
    BY <1>5, <1>8, <2>1, <2>2 DEF Dial, NoMorePcb, Asking, Round
  <2>4. CASE c = x
    <3>1. attempts[x] <= AttemptLimit
      BY <1>0, <2>1, <2>2, <2>4 DEF Count, Round
    <3>2. attempts'[x] = (attempts[x] + 1) % AttemptWidth
      BY <1>1, <2>1, <2>4 DEF Counted, Typed, Attempts
    <3>3. attempts'[x] = attempts[x] + 1
      BY <1>1, <3>1, <3>2, NoWrap, Numbers
    <3>4. Dialling(x)' \/ status'[x] = "CONNECT_ERR"
      BY <1>1, <1>8, <2>4 DEF Dial, NoMorePcb, Dialling, Becomes, Typed, Statuses
    <3> QED
      BY <1>1, <2>3, <3>1, <3>3, <3>4 DEF Count
  <2>5. CASE c # x
    <3>1. attempts'[x] = attempts[x] /\ status'[x] = status[x]
      BY <1>1, <1>8, <2>1, <2>5 DEF Dial, NoMorePcb, Counted, Becomes, Typed,
         Statuses, Attempts
    <3> QED
      BY <1>2, <2>2, <2>3, <3>1
  <2> QED
    BY <2>4, <2>5
<1>9. ASSUME NEW c \in Client, Dialled(c) \/ Retry(c) PROVE Count(x)'
  <2>1. UNCHANGED attempts
    BY <1>9 DEF Dialled, Retry
  <2>2. ~Asking(x)'
    BY <1>5, <1>6, <1>9 DEF Dialled, Retry, Round, Asking
  <2>3. CASE c = x
    <3>1. status'[x] = "CONNECTING" \/ attempts[x] <= AttemptLimit
      BY <1>1, <1>9, <2>3 DEF Dialled, Retry, Becomes, Typed, Statuses
    <3> QED
      BY <1>2, <1>4, <2>1, <2>2, <3>1
  <2>4. CASE c # x
    <3>1. status'[x] = status[x] /\ ~Dialling(x)
      BY <1>1, <1>5, <1>9, <2>4 DEF Dialled, Retry, Becomes, Typed, Statuses,
         Dialling, Round
    <3> QED
      BY <1>2, <2>1, <2>2, <3>1
  <2> QED
    BY <2>3, <2>4
<1>10. ASSUME NEW c \in Client, Settle(c) PROVE Count(x)'
  <2>1. CASE c = x
    BY <1>1, <1>3, <1>10, <2>1 DEF Settle, Typed, Attempts
  <2>2. CASE c # x
    <3>1. attempts'[x] = attempts[x] /\ UNCHANGED <<status, now>>
      BY <1>1, <1>10, <2>2 DEF Settle, Typed, Attempts
    <3> QED
      BY <1>2, <3>1 DEF Asking, Dialling
  <2> QED
    BY <2>1, <2>2
<1>11. ASSUME NEW c \in Client, Answer(c) \/ NoAnswer(c) PROVE Count(x)'
  <2>1. /\ UNCHANGED <<attempts, now>>
        /\ Asking(x)' <=> Asking(x)
        /\ Dialling(x)' <=> Dialling(x)
    BY <1>11 DEF Answer, NoAnswer, Asking, Dialling
  <2>2. CASE c = x
    <3>1. status[x] = "DNS_START" \/ Asking(x)
      BY <1>0, <1>11, <2>2, AnswerAwaited DEF CleanStep
    <3> QED
      BY <1>0, <2>1, <3>1 DEF Count
  <2>3. CASE c # x
    <3>1. status'[x] = status[x]
      BY <1>1, <1>11, <2>3 DEF Answer, NoAnswer, Becomes, Typed, Statuses
    <3> QED
      BY <1>2, <2>1, <3>1
  <2> QED
    BY <2>2, <2>3
<1>12. CASE LinkStops \/ TaskEnded
            \/ \E c \in Client, why \in Reason : BeginStop(c, why)
  <2>1. UNCHANGED <<attempts, status>>
    BY <1>12 DEF BeginStop, LinkStops, TaskEnded
  <2>2. ~Dialling(x) /\ ~Asking(x)'
    BY <1>5, <1>6, <1>12 DEF BeginStop, LinkStops, TaskEnded, Stopping, Dialling,
       Asking
  <2> QED
    BY <1>2, <2>1, <2>2
<1>13. ASSUME NEW p \in Pcb, Connected(p) \/ ConnError(p) \/ PeerCloses(p) \/ Gone(p)
       PROVE  Count(x)'
  <2>1. UNCHANGED <<attempts, now>>
    BY <1>13 DEF Connected, ConnError, PeerCloses, Gone
  <2>2. status'[x] \in {status[x], "CONNECTED", "CONNECT_ERR", "DISCONNECT"}
    BY <1>1, <1>13 DEF Connected, ConnError, PeerCloses, Gone, Becomes, Typed,
       Statuses
  <2> QED
    BY <1>2, <2>1, <2>2 DEF Asking, Dialling
<1>14. ASSUME NEW c, NEW s \in {"DISCONNECT", "PAUSE"}, AbortOf(c, s)
       PROVE  /\ attempts'[x] = attempts[x]
              /\ status'[x] \in {status[x], "CONNECT_ERR", "DISCONNECT", "PAUSE"}
  BY <1>1, <1>14 DEF AbortOf, Becomes, Typed, Statuses
<1>15. CASE StopAborts
  <2>1. ~Dialling(x) /\ ~Asking(x)'
    <3>1. now.at = "abort" /\ now \in Place
      BY <1>15 DEF StopAborts, Typed, Here
    <3>2. now' = Idle \/ now'.at = "done"
      BY <1>15, <3>1, StopPlaces DEF StopAborts
    <3> QED
      BY <1>6, <3>1, <3>2 DEF Dialling, Asking
  <2> QED
    BY <1>2, <1>14, <1>15, <2>1 DEF StopAborts
<1>16. CASE AbortOf(Http, "DISCONNECT") /\ UNCHANGED now
  BY <1>2, <1>14, <1>16 DEF Asking, Dialling
<1>20. CASE PauseOf(Xmpp)
  <2>1. /\ attempts'[x] = attempts[x] /\ UNCHANGED now
        /\ status'[x] \in {status[x], "CONNECT_ERR", "DISCONNECT", "PAUSE"}
    BY <1>1, <1>14, <1>20 DEF PauseOf, Becomes, Typed, Statuses
  <2> QED
    BY <1>2, <2>1 DEF Asking, Dialling
<1>17. CASE StartOf(Http) \/ InitOf(Http)
  <2>1. x # Http
    BY Names
  <2>2. attempts'[x] = attempts[x] /\ status'[x] = status[x] /\ UNCHANGED now
    BY <1>1, <1>17, <2>1 DEF StartOf, InitOf, Becomes, Typed, Statuses, Attempts
  <2> QED
    BY <1>2, <2>2 DEF Asking, Dialling
<1>18. CASE LinkAgain \/ Reboot
  <2>1. CASE Reboot
    BY <1>1, <1>3, <2>1 DEF Reboot, NoAttempt
  <2>2. CASE LinkAgain
    <3>1. /\ UNCHANGED now
          /\ attempts'[x] = 0 \/ (attempts'[x] = attempts[x] /\ status'[x] = status[x])
      BY <1>1, <2>2 DEF LinkAgain
    <3> QED
      BY <1>2, <1>3, <3>1 DEF Asking, Dialling
  <2> QED
    BY <1>18, <2>1, <2>2
<1>19. CASE UNCHANGED tcpVars
  BY <1>2, <1>19 DEF tcpVars, Asking, Dialling
<1> QED
  BY <1>0, <1>7, <1>8, <1>9, <1>10, <1>11, <1>12, <1>13, <1>15, <1>16, <1>17,
     <1>18, <1>19, <1>20, NoLeak DEF CleanStep, TcpStep

\* lwip_raw_api_tcp_template.c:249-254: in a clean run the device is reset
\* before the attempts in a row exceed the limit by more than one, for every
\* limit that the width of the counter leaves room for.
THEOREM ResetsInTime == Spec => []ResetInTime
<1>1. Init => CountInv
  <2> SUFFICES ASSUME Init, NEW c \in LongLived PROVE Count(c)
    BY DEF CountInv
  <2>1. c \in Client /\ attempts[c] = 0
    BY Names DEF Init, TcpInit, NoAttempt
  <2> QED
    BY <2>1, Numbers DEF Count
<1>2. CountInv => ResetInTime
  BY DEF CountInv, Count, ResetInTime
<1> QED
  BY <1>1, <1>2, CountStep, TypeInvariant, PTL DEF Spec


Joined == {"CONNECTING", "CONNECTED"}

Has(c, kind) == /\ pcb[c] \in Pcb
                /\ sock[pcb[c]].is = kind /\ sock[pcb[c]].cli = c

\* The PCB p is a connection of the client, or will be one.
Serves(p, c) == sock[p].is \in {"opening", "open"} /\ sock[p].cli = c

\* What the status of a client says of its PCB, and a PCB of its client.
Agree(c) ==
    /\ status[c] = "CONNECTED" => Has(c, "open")
    /\ status[c] = "CONNECTING" \/ Dialling(c) => Has(c, "opening")
    /\ Asking(c) => status[c] \notin Joined
    /\ now.at = "abort" /\ now.cli = c => status[c] = "CONNECTED"
    /\ \A p \in Pcb : Serves(p, c) =>
          p = pcb[c] /\ (status[c] \in Joined \/ Dialling(c))

AgreeInv == clean => \A c \in Client : Agree(c)

\* A client whose PCBs do not change, and which neither begins nor ends a
\* connection.
LEMMA AgreeKept ==
    ASSUME NEW c, Agree(c), pcb'[c] = pcb[c],
           \A p \in Pcb : Serves(p, c) \/ Serves(p, c)' => sock'[p] = sock[p],
           status'[c] = status[c] \/ (status[c] \notin Joined /\ status'[c] \notin Joined),
           Dialling(c)' <=> Dialling(c),
           Asking(c)' => Asking(c) \/ status'[c] \notin Joined,
           now'.at = "abort" /\ now'.cli = c => status'[c] = "CONNECTED"
    PROVE  Agree(c)'
<1>1. ASSUME NEW k \in {"opening", "open"}, Has(c, k) PROVE Has(c, k)'
  BY <1>1 DEF Has, Serves
<1> QED
  BY <1>1 DEF Agree, Joined, Serves

\* A client that has no PCB in use, and does not connect.
LEMMA AgreeFree ==
    ASSUME NEW c, status'[c] \notin Joined, ~Dialling(c)',
           ~(now'.at = "abort" /\ now'.cli = c),
           \A p \in Pcb : ~Serves(p, c)'
    PROVE  Agree(c)'
BY DEF Agree, Joined

\* Where mainloop is not when it is elsewhere.
LEMMA Elsewhere ==
    ASSUME NEW c
    PROVE  /\ now = Idle => ~Asking(c) /\ ~Dialling(c) /\ now.at # "abort"
           /\ now' = Idle => ~Asking(c)' /\ ~Dialling(c)' /\ now'.at # "abort"
           /\ now.at # "dialled" => ~Dialling(c)
           /\ now'.at # "dialled" => ~Dialling(c)'
           /\ now'.at # "asked" => ~Asking(c)'
           /\ Asking(c) => ~Dialling(c) /\ now.at # "abort"
           /\ Dialling(c) => ~Asking(c) /\ now.at # "abort"
BY DEF Idle, Asking, Dialling


LEMMA AgreeStep ==
    ASSUME Typed, AgreeInv, [Next]_vars PROVE AgreeInv'
<1> SUFFICES ASSUME clean', NEW x \in Client PROVE Agree(x)'
  BY DEF AgreeInv
<1>0. TcpStep /\ (~Upset \/ UNCHANGED vars) /\ \A c \in Client : Agree(c)
  BY CleanSteps DEF AgreeInv, CleanStep
<1>t. /\ status \in [Client -> Status] /\ pcb \in [Client -> Pcb \cup {NoPcb}]
      /\ sock \in [Pcb -> Socket] /\ now \in Place
  BY DEF Typed, Statuses, Pcbs, Socks, Here
<1>1. CASE UNCHANGED tcpVars
  BY <1>0, <1>1 DEF tcpVars, Agree, Has, Serves, Asking, Dialling
<1> SUFFICES ASSUME ~Upset PROVE Agree(x)'
  BY <1>0, <1>1 DEF vars, tcpVars
<1>2. ASSUME NEW c \in Client, Dialling(c)
      PROVE  sock'[pcb[c]].is = "opening"
  <2>1. now.at = "dialled" /\ now.cli = c
    BY <1>2 DEF Dialling
  <2>2. InUse(pcb[c]) /\ sock[pcb[c]].is = "opening"
    BY <1>0, <1>2, Sockets DEF Agree, Has, InUse
  <2> QED
    BY <2>1, <2>2 DEF Upset
<1>3. ASSUME NEW p \in Pcb, sock[p].is = "closing", sock'[p] = Free
      PROVE  status' = status
  BY <1>3 DEF Upset
<1>4. ASSUME NEW c \in Client, status'[c] \in {"PAUSE", "INIT"},
             UNCHANGED sock
      PROVE  status[c] \notin Joined /\ ~Dialling(c)
  <2> SUFFICES ASSUME status[c] \in Joined \/ Dialling(c) PROVE FALSE
    OBVIOUS
  <2>1. Has(c, "open") \/ Has(c, "opening")
    BY <1>0 DEF Agree, Joined
  <2>2. \E p \in Pcb : sock'[p].is \in {"opening", "open"} /\ sock'[p].cli = c
    BY <1>4, <2>1 DEF Has
  <2> QED
    BY <1>4, <2>2 DEF Upset, Joined, Dialling
<1>5. ASSUME NEW c \in Client, now.at = "abort", now.cli = c, now' = now
      PROVE  status'[c] = "CONNECTED"
  BY <1>0, <1>5 DEF Upset, Agree
<1>6. ASSUME NEW c \in Client, status[c] \notin Joined, ~Dialling(c)
      PROVE  /\ \A p \in Pcb : ~Serves(p, c)
             /\ ~(now.at = "abort" /\ now.cli = c)
  BY <1>0, <1>6 DEF Agree, Joined
<1>7. ASSUME NEW c \in Client, NEW p \in Pcb, Serves(p, c)
      PROVE  /\ p = pcb[c] /\ (status[c] \in Joined \/ Dialling(c))
             /\ \A q \in Pcb : Serves(q, c) => q = p
  BY <1>0, <1>7 DEF Agree
<1>8. ASSUME UNCHANGED <<sock, pcb>>, now = Idle, ~Dialling(x)',
             \/ status'[x] = status[x]
             \/ status[x] \notin Joined /\ status'[x] \notin Joined,
             Asking(x)' => status'[x] \notin Joined,
             now'.at = "abort" /\ now'.cli = x => status'[x] = "CONNECTED"
      PROVE  Agree(x)'
  BY <1>0, <1>8, AgreeKept, Elsewhere
<1>9. ASSUME NEW c \in Client,
             \/ ResolveCached(c) \/ Resolve(c) \/ AwaitAnswer(c)
             \/ Retry(c) \/ Again(c) \/ Settle(c)
      PROVE  Agree(x)'
  <2>1. /\ UNCHANGED <<sock, pcb>> /\ now = Idle
        /\ now' \in {Idle, [at |-> "asked", cli |-> c]}
    BY <1>9 DEF ResolveCached, Resolve, AwaitAnswer, Retry, Again, Settle, Round
  <2>2. \/ status'[x] = status[x]
        \/ status[x] \notin Joined /\ status'[x] \notin Joined
    BY <1>9, <1>t DEF ResolveCached, Resolve, AwaitAnswer, Retry, Again, Settle,
       Round, Becomes, Failed, Joined
  <2>3. Asking(x)' => status'[x] \notin Joined
    BY <1>9, <2>1, Elsewhere DEF ResolveCached, Resolve, AwaitAnswer, Retry,
       Again, Settle, Round, Joined, Asking
  <2>4. ~Dialling(x)' /\ now'.at # "abort"
    BY <2>1 DEF Dialling, Idle
  <2> QED
    BY <1>8, <2>1, <2>2, <2>3, <2>4
<1>10. ASSUME NEW c \in Client, NEW why \in Reason, BeginStop(c, why)
       PROVE  Agree(x)'
  <2>1. UNCHANGED <<sock, pcb, status>> /\ now = Idle /\ now' = Stopping(c, why)
    BY <1>10 DEF BeginStop
  <2>2. /\ ~Dialling(x)' /\ ~Asking(x)'
        /\ now'.at = "abort" /\ now'.cli = x => status'[x] = "CONNECTED"
    BY <2>1 DEF Stopping, Dialling, Asking
  <2> QED
    BY <1>8, <2>1, <2>2
<1>11. ASSUME NEW c \in Client, Asked(c) PROVE Agree(x)'
  <2>1. /\ UNCHANGED <<sock, pcb>> /\ Asking(c) /\ now' = Idle
        /\ status' = [status EXCEPT ![c] = "DNS_START"]
    BY <1>11 DEF Asked, Asking, Becomes
  <2>2. status[c] \notin Joined
    BY <1>0, <2>1 DEF Agree
  <2>3. \/ status'[x] = status[x]
        \/ status[x] \notin Joined /\ status'[x] \notin Joined
    BY <1>t, <2>1, <2>2 DEF Joined
  <2>4. ~Dialling(x) /\ ~Dialling(x)' /\ ~Asking(x)' /\ now'.at # "abort"
    BY <2>1, Elsewhere DEF Asking, Dialling
  <2> QED
    BY <1>0, <2>1, <2>3, <2>4, AgreeKept
<1>12. CASE LinkStops \/ TaskEnded
  <2>1. UNCHANGED <<sock, pcb, status>> /\ now.at = "done"
        /\ now' \in {Idle, Stopping(Http, "link")}
    BY <1>12 DEF LinkStops, TaskEnded
  <2>2. /\ ~Dialling(x) /\ ~Dialling(x)' /\ ~Asking(x)'
        /\ now'.at = "abort" /\ now'.cli = x => status'[x] = "CONNECTED"
    BY <2>1 DEF Stopping, Dialling, Asking, Idle
  <2> QED
    BY <1>0, <2>1, <2>2, AgreeKept
<1>13. ASSUME NEW c \in Client, Answer(c) \/ NoAnswer(c) PROVE Agree(x)'
  <2>1. /\ UNCHANGED <<sock, pcb, now>>
        /\ \E v \in {"DNS_FINISH", "DNS_ERR"} : status' = [status EXCEPT ![c] = v]
    BY <1>13 DEF Answer, NoAnswer, Becomes
  <2>2. status[c] = "DNS_START" \/ Asking(c)
    BY <1>13, AnswerAwaited
  <2>3. status[c] \notin Joined
    BY <1>0, <2>2 DEF Agree, Joined
  <2>4. \/ status'[x] = status[x]
        \/ status[x] \notin Joined /\ status'[x] \notin Joined
    BY <1>t, <2>1, <2>3 DEF Joined
  <2>5. /\ Dialling(x)' <=> Dialling(x)
        /\ Asking(x)' => Asking(x)
        /\ now'.at = "abort" /\ now'.cli = x => status'[x] = "CONNECTED"
    BY <1>5, <2>1 DEF Dialling, Asking
  <2> QED
    BY <1>0, <2>1, <2>4, <2>5, AgreeKept
<1>14. ASSUME pcb'[x] = pcb[x],
              \A p \in Pcb : Serves(p, x) \/ Serves(p, x)' => sock'[p] = sock[p],
              status'[x] = status[x], UNCHANGED now
       PROVE  Agree(x)'
  <2>1. /\ Dialling(x)' <=> Dialling(x)
        /\ Asking(x)' => Asking(x)
        /\ now'.at = "abort" /\ now'.cli = x => status'[x] = "CONNECTED"
    BY <1>5, <1>14 DEF Dialling, Asking
  <2> QED
    BY <1>0, <1>14, <2>1, AgreeKept
<1>15. ASSUME NEW c \in Client, Dial(c) PROVE Agree(x)'
  <2>1. PICK p \in Pcb : /\ sock[p] = Free
                         /\ sock' = [sock EXCEPT ![p] = [is |-> "opening", cli |-> c]]
                         /\ pcb' = [pcb EXCEPT ![c] = p]
    BY <1>15 DEF Dial
  <2>2. /\ now = Idle /\ now' = [at |-> "dialled", cli |-> c]
        /\ status[c] = "DNS_FINISH" /\ UNCHANGED status
    BY <1>15 DEF Dial, Round
  <2>3. /\ sock'[p].is = "opening" /\ sock'[p].cli = c /\ sock[p].is = "free"
        /\ \A q \in Pcb : q # p => sock'[q] = sock[q]
    BY <1>t, <2>1, Sockets
  <2>4. now'.at # "abort" /\ ~Asking(x)' /\ (Dialling(x)' <=> x = c)
    BY <2>2 DEF Asking, Dialling
  <2>5. CASE x = c
    <3>1. \A q \in Pcb : ~Serves(q, x)
      BY <1>6, <2>2, <2>5, Elsewhere DEF Joined
    <3>2. \A q \in Pcb : Serves(q, x)' => q = p
      BY <2>3, <3>1 DEF Serves
    <3>3. pcb'[x] = p
      BY <1>t, <2>1, <2>5
    <3>4. Has(x, "opening")'
      BY <2>3, <2>5, <3>3 DEF Has
    <3> QED
      BY <2>2, <2>4, <2>5, <3>2, <3>3, <3>4 DEF Agree, Joined
  <2>6. CASE x # c
    <3>1. pcb'[x] = pcb[x]
      BY <1>t, <2>1, <2>6
    <3>2. \A q \in Pcb : Serves(q, x) \/ Serves(q, x)' => sock'[q] = sock[q]
      BY <2>3, <2>6 DEF Serves
    <3> QED
      BY <1>0, <2>2, <2>4, <2>6, <3>1, <3>2, AgreeKept, Elsewhere
  <2> QED
    BY <2>5, <2>6
<1>16. ASSUME NEW c \in Client, NoMorePcb(c) PROVE Agree(x)'
  <2>1. /\ now = Idle /\ status[c] = "DNS_FINISH" /\ UNCHANGED <<sock, now>>
        /\ status' = [status EXCEPT ![c] = "CONNECT_ERR"]
        /\ pcb' = [pcb EXCEPT ![c] = NoPcb]
    BY <1>16 DEF NoMorePcb, Round, Becomes
  <2>2. CASE x = c
    <3>1. \A q \in Pcb : ~Serves(q, x)'
      BY <1>6, <2>1, <2>2, Elsewhere DEF Joined, Serves
    <3>2. status'[x] \notin Joined
      BY <1>t, <2>1, <2>2 DEF Joined
    <3> QED
      BY <2>1, <3>1, <3>2, AgreeFree, Elsewhere
  <2>3. CASE x # c
    BY <1>14, <1>t, <2>1, <2>3
  <2> QED
    BY <2>2, <2>3
<1>17. ASSUME NEW c \in Client, Dialled(c) PROVE Agree(x)'
  <2>1. /\ Dialling(c) /\ now' = Idle /\ UNCHANGED <<sock, pcb>>
        /\ status' = [status EXCEPT ![c] = "CONNECTING"]
    BY <1>17 DEF Dialled, Dialling, Becomes
  <2>2. CASE x = c
    <3>1. Has(x, "opening") /\ status'[x] = "CONNECTING"
      BY <1>0, <1>t, <2>1, <2>2 DEF Agree
    <3>2. Has(x, "opening")'
      BY <2>1, <3>1 DEF Has
    <3>3. \A q \in Pcb : Serves(q, x)' => q = pcb'[x]
      BY <1>0, <2>1 DEF Agree, Serves
    <3> QED
      BY <2>1, <3>1, <3>2, <3>3, Elsewhere DEF Agree, Joined
  <2>3. CASE x # c
    <3>1. ~Dialling(x) /\ status'[x] = status[x]
      BY <1>t, <2>1, <2>3 DEF Dialling
    <3> QED
      BY <1>0, <2>1, <3>1, AgreeKept, Elsewhere
  <2> QED
    BY <2>2, <2>3
<1>18. ASSUME NEW c \in Client, NEW p \in Pcb, Serves(p, c), x # c,
              NEW s, status' = [status EXCEPT ![c] = s],
              UNCHANGED <<pcb, now>>, ~Serves(p, x)',
              \A q \in Pcb : q # p => sock'[q] = sock[q]
       PROVE  Agree(x)'
  <2>1. \A q \in Pcb : Serves(q, x) \/ Serves(q, x)' => sock'[q] = sock[q]
    BY <1>18 DEF Serves
  <2> QED
    BY <1>14, <1>t, <1>18, <2>1
<1>19. ASSUME NEW c \in Client, NEW p \in Pcb, Serves(p, c), x = c,
              NEW s \in {"CONNECT_ERR", "DISCONNECT", "PAUSE"},
              status' = [status EXCEPT ![c] = s],
              ~Dialling(c)', ~(now'.at = "abort" /\ now'.cli = c),
              sock'[p].is \notin {"opening", "open"},
              \A q \in Pcb : q # p => sock'[q] = sock[q]
       PROVE  Agree(x)'
  <2>1. \A q \in Pcb : ~Serves(q, c)'
    BY <1>7, <1>19 DEF Serves
  <2>2. status'[c] \notin Joined
    BY <1>t, <1>19 DEF Joined
  <2> QED
    BY <1>19, <2>1, <2>2, AgreeFree
<1>20. ASSUME NEW p \in Pcb, Connected(p) PROVE Agree(x)'
  <2>0. PICK c \in Client : c = sock[p].cli
    BY <1>20, <1>t, Sockets DEF Connected
  <2>1. /\ sock[p].is = "opening" /\ UNCHANGED <<pcb, now>>
        /\ sock' = [sock EXCEPT ![p] = [sock[p] EXCEPT !.is = "open"]]
        /\ status' = [status EXCEPT ![c] = "CONNECTED"]
    BY <1>20, <2>0 DEF Connected, Becomes
  <2>2. Serves(p, c)
    BY <2>0, <2>1 DEF Serves
  <2>3. /\ sock'[p].is = "open" /\ sock'[p].cli = c
        /\ \A q \in Pcb : q # p => sock'[q] = sock[q]
    BY <1>t, <2>0, <2>1, Sockets
  <2>4. p = pcb[c] /\ ~Dialling(c) /\ status[c] = "CONNECTING"
    BY <1>0, <1>2, <1>7, <2>1, <2>2, <2>3 DEF Agree, Has, Joined
  <2>5. CASE x = c
    <3>1. Has(x, "open")' /\ status'[x] = "CONNECTED"
      BY <1>t, <2>1, <2>2, <2>3, <2>4, <2>5 DEF Has
    <3>2. ~Dialling(x)' /\ ~Asking(x)'
      BY <1>0, <2>1, <2>2, <2>4, <2>5 DEF Agree, Dialling, Asking, Joined
    <3>3. \A q \in Pcb : Serves(q, x)' => q = pcb'[x]
      BY <1>7, <2>1, <2>2, <2>3, <2>4, <2>5 DEF Serves
    <3> QED
      BY <3>1, <3>2, <3>3 DEF Agree, Joined
  <2>6. CASE x # c
    BY <1>18, <2>1, <2>2, <2>3, <2>6 DEF Serves
  <2> QED
    BY <2>5, <2>6
<1>21. ASSUME NEW p \in Pcb, sock[p].is = "closing", sock' = [sock EXCEPT ![p] = Free],
              UNCHANGED <<pcb, now>>
       PROVE  Agree(x)'
  <2>1. sock'[p] = Free /\ \A q \in Pcb : q # p => sock'[q] = sock[q]
    BY <1>t, <1>21
  <2>2. \A q \in Pcb : Serves(q, x) \/ Serves(q, x)' => sock'[q] = sock[q]
    BY <1>21, <2>1, Sockets DEF Serves
  <2> QED
    BY <1>3, <1>14, <1>21, <2>1, <2>2
<1>22. ASSUME NEW p \in Pcb, ConnError(p) PROVE Agree(x)'
  <2>0. PICK c \in Client : c = sock[p].cli
    BY <1>22, <1>t, Sockets DEF ConnError
  <2>1. /\ sock[p].is \in {"opening", "open", "closing"}
        /\ sock' = [sock EXCEPT ![p] = Free] /\ UNCHANGED <<pcb, now>>
        /\ status' = [status EXCEPT ![c] = "CONNECT_ERR"]
    BY <1>22, <2>0 DEF ConnError, Frees, Becomes
  <2>2. CASE sock[p].is = "closing"
    BY <1>21, <2>1, <2>2
  <2>3. CASE sock[p].is # "closing"
    <3>1. Serves(p, c)
      BY <2>0, <2>1, <2>3 DEF Serves
    <3>2. /\ sock'[p].is = "free" /\ \A q \in Pcb : q # p => sock'[q] = sock[q]
      BY <1>t, <2>1, Sockets
    <3>3. ~Dialling(c)'
      BY <1>2, <1>7, <2>1, <3>1, <3>2 DEF Dialling
    <3>4. ~(now'.at = "abort" /\ now'.cli = c)
      BY <1>5, <1>t, <2>1, <3>1
    <3>5. CASE x = c
      BY <1>19, <2>1, <3>1, <3>2, <3>3, <3>4, <3>5
    <3>6. CASE x # c
      BY <1>18, <2>1, <3>1, <3>2, <3>6 DEF Serves
    <3> QED
      BY <3>5, <3>6
  <2> QED
    BY <2>2, <2>3
<1>23. ASSUME NEW p \in Pcb, PeerCloses(p) PROVE Agree(x)'
  <2> DEFINE rest == [sock EXCEPT ![p].is = "leaked"]
  <2>0. PICK c \in Client : c = sock[p].cli
    BY <1>23, <1>t, Sockets DEF PeerCloses
  <2>1. /\ sock[p].is = "open" /\ UNCHANGED <<pcb, now>>
        /\ status' = [status EXCEPT ![c] = "DISCONNECT"]
    BY <1>23, <2>0 DEF PeerCloses, Becomes
  <2>2. Serves(p, c)
    BY <2>0, <2>1 DEF Serves
  <2>3. p = pcb[c] /\ ~Dialling(c)
    BY <1>0, <1>7, <2>1, <2>2 DEF Agree, Has
  <2>4. InUse(pcb[c]) /\ sock[pcb[c]].is # "opening"
    BY <2>1, <2>3, Sockets DEF InUse
  <2>5. sock' = [rest EXCEPT ![p].is = "closing"]
    BY <1>23, <2>0, <2>3, <2>4 DEF PeerCloses
  <2>6. /\ sock'[p].is = "closing" /\ sock'[p].cli = c
        /\ \A q \in Pcb : q # p => sock'[q] = sock[q]
    <3>1. /\ rest[p] = [sock[p] EXCEPT !.is = "leaked"]
          /\ rest \in [Pcb -> Socket]
          /\ \A q \in Pcb : q # p => rest[q] = sock[q]
      <4>1. [sock[p] EXCEPT !.is = "leaked"] \in Socket
        BY <1>t, <2>1, Sockets
      <4> QED
        BY <1>t, <4>1
    <3>2. rest[p] \in Socket /\ rest[p].is = "leaked" /\ rest[p].cli = c
      BY <1>t, <2>0, <2>1, <3>1, Sockets
    <3> HIDE DEF rest
    <3>3. /\ sock'[p] = [rest[p] EXCEPT !.is = "closing"]
          /\ \A q \in Pcb : q # p => sock'[q] = rest[q]
      BY <2>5, <3>1
    <3> QED
      BY <3>1, <3>2, <3>3, Sockets
  <2>7. ~(now'.at = "abort" /\ now'.cli = c) /\ ~Dialling(c)'
    BY <1>5, <1>t, <2>1, <2>2, <2>3 DEF Dialling
  <2>8. CASE x = c
    BY <1>19, <2>1, <2>2, <2>6, <2>7, <2>8
  <2>9. CASE x # c
    BY <1>18, <2>1, <2>2, <2>6, <2>9 DEF Serves
  <2> QED
    BY <2>8, <2>9
<1>24. ASSUME NEW p \in Pcb, Gone(p) PROVE Agree(x)'
  BY <1>21, <1>24 DEF Gone, Frees
<1>25. ASSUME NEW c \in Client, NEW s, status[c] = "CONNECTED", AbortOf(c, s)
       PROVE  /\ Serves(pcb[c], c) /\ pcb[c] \in Pcb
              /\ status' = [status EXCEPT ![c] = s]
              /\ UNCHANGED pcb /\ sock'[pcb[c]].is = "free"
              /\ \A q \in Pcb : q # pcb[c] => sock'[q] = sock[q]
  <2>1. pcb[c] \in Pcb /\ sock[pcb[c]].is = "open" /\ sock[pcb[c]].cli = c
    BY <1>0, <1>25 DEF Agree, Has
  <2>2. InUse(pcb[c])
    BY <2>1, Sockets DEF InUse
  <2>3. /\ sock' = [sock EXCEPT ![pcb[c]] = Free] /\ UNCHANGED pcb
        /\ status' = [status EXCEPT ![c] = "CONNECT_ERR", ![c] = s]
    BY <1>25, <2>1, <2>2 DEF AbortOf, Frees
  <2>4. status' = [status EXCEPT ![c] = s]
    BY <1>t, <2>3
  <2> QED
    BY <1>t, <2>1, <2>3, <2>4, Sockets DEF Serves
<1>26. CASE StopAborts
  <2>0. PICK c \in Client : c = now.cli
    BY <1>26, <1>t, StopPlaces DEF StopAborts
  <2>1. now.at = "abort" /\ now.cli = c /\ AbortOf(c, "DISCONNECT")
    BY <1>26, <2>0 DEF StopAborts
  <2>2. status[c] = "CONNECTED"
    BY <1>0, <2>1 DEF Agree
  <2>3. now'.at \in {"idle", "done"}
    BY <1>26, <1>t, <2>1, StopPlaces DEF StopAborts, Idle
  <2>4. /\ ~Dialling(x) /\ ~Dialling(x)' /\ ~Asking(x)' /\ now'.at # "abort"
    BY <2>1, <2>3, Elsewhere
  <2>5. CASE x = c
    BY <1>19, <1>25, <2>1, <2>2, <2>4, <2>5
  <2>6. CASE x # c
    <3>1. \A q \in Pcb : Serves(q, x) \/ Serves(q, x)' => sock'[q] = sock[q]
      BY <1>25, <2>1, <2>2, <2>6 DEF Serves
    <3>2. status'[x] = status[x] /\ pcb'[x] = pcb[x]
      BY <1>25, <1>t, <2>1, <2>2, <2>6
    <3> QED
      BY <1>0, <2>4, <3>1, <3>2, AgreeKept
  <2> QED
    BY <2>5, <2>6
<1>27. ASSUME NEW c \in Client, NEW s \in {"DISCONNECT", "PAUSE"},
              status[c] = "CONNECTED", AbortOf(c, s), UNCHANGED now
       PROVE  Agree(x)'
  <2>1. /\ Serves(pcb[c], c) /\ pcb[c] \in Pcb
        /\ status' = [status EXCEPT ![c] = s]
        /\ UNCHANGED <<pcb, now>> /\ sock'[pcb[c]].is = "free"
        /\ \A q \in Pcb : q # pcb[c] => sock'[q] = sock[q]
    BY <1>25, <1>27
  <2>2. ~Dialling(c)'
    BY <1>2, <1>27, <2>1 DEF Dialling
  <2>3. ~(now'.at = "abort" /\ now'.cli = c)
    BY <1>5, <1>t, <1>27, <2>1
  <2>4. CASE x = c
    BY <1>19, <1>27, <2>1, <2>2, <2>3, <2>4
  <2>5. CASE x # c
    BY <1>18, <2>1, <2>5 DEF Serves
  <2> QED
    BY <2>4, <2>5
<1>31. CASE PauseOf(Xmpp)
  <2>1. CASE status[Xmpp] = "CONNECTED"
    BY <1>27, <1>31, <2>1, Names DEF PauseOf
  <2>2. CASE status[Xmpp] # "CONNECTED"
    <3>1. UNCHANGED <<pcb, sock, now>> /\ status' = [status EXCEPT ![Xmpp] = "PAUSE"]
      BY <1>31, <2>2 DEF PauseOf, Becomes
    <3>2. status[Xmpp] \notin Joined /\ ~Dialling(Xmpp)
      BY <1>4, <1>t, <3>1, Names
    <3>3. CASE x = Xmpp
      BY <1>6, <1>t, <3>1, <3>2, <3>3, AgreeFree DEF Serves, Dialling, Joined
    <3>4. CASE x # Xmpp
      BY <1>14, <1>t, <3>1, <3>4
    <3> QED
      BY <3>3, <3>4
  <2> QED
    BY <2>1, <2>2
<1>28. CASE StartOf(Http) \/ InitOf(Http)
  <2>1. /\ UNCHANGED <<sock, now>> /\ status'[Http] \in {"INIT", "PAUSE"}
        /\ \A c \in Client : c # Http => pcb'[c] = pcb[c] /\ status'[c] = status[c]
    BY <1>28, <1>t, Names DEF StartOf, InitOf, Becomes
  <2>2. status[Http] \notin Joined /\ ~Dialling(Http)
    BY <1>4, <2>1, Names
  <2>3. CASE x = Http
    BY <1>6, <2>1, <2>2, <2>3, AgreeFree DEF Serves, Dialling, Joined
  <2>4. CASE x # Http
    BY <1>14, <2>1, <2>4
  <2> QED
    BY <2>3, <2>4
<1>29. CASE LinkAgain
  <2>1. /\ UNCHANGED <<sock, now>>
        /\ \/ status'[x] \in {"INIT", "PAUSE"}
           \/ status'[x] = status[x] /\ pcb'[x] = pcb[x]
    BY <1>29, <1>t DEF LinkAgain
  <2>2. CASE status'[x] \in {"INIT", "PAUSE"}
    <3>1. status[x] \notin Joined /\ ~Dialling(x)
      BY <1>4, <2>1, <2>2
    <3> QED
      BY <1>6, <2>1, <2>2, <3>1, AgreeFree DEF Serves, Dialling, Joined
  <2>3. CASE status'[x] = status[x] /\ pcb'[x] = pcb[x]
    BY <1>14, <2>1, <2>3
  <2> QED
    BY <2>1, <2>2, <2>3
<1>30. CASE Reboot
  <2>1. /\ status'[x] = "PAUSE" /\ now' = Idle
        /\ \A p \in Pcb : sock'[p] = Free
    BY <1>30 DEF Reboot, AllPaused, AllFree
  <2> QED
    BY <2>1, AgreeFree, Elsewhere, Sockets DEF Serves, Joined
<1> QED
  BY <1>0, <1>1, <1>9, <1>10, <1>11, <1>12, <1>13, <1>15, <1>16, <1>17, <1>20,
     <1>22, <1>23, <1>24, <1>26, <1>27, <1>28, <1>29, <1>30, <1>31, Names, NoLeak DEF TcpStep

LEMMA AgreeInvariant == Spec => []AgreeInv
<1>1. Init => AgreeInv
  <2> SUFFICES ASSUME Init, NEW c \in Client PROVE Agree(c)
    BY DEF AgreeInv
  <2>1. /\ status[c] = "PAUSE" /\ now = Idle /\ \A p \in Pcb : sock[p].is = "free"
    BY Sockets DEF Init, TcpInit, AllPaused, AllFree
  <2> QED
    BY <2>1, Elsewhere DEF Agree, Serves
<1> QED
  BY <1>1, AgreeStep, TypeInvariant, PTL DEF Spec

-----------------------------------------------------------------------------
(* One client at work *)

\* A client that is not used stays as it was initialised.
Unused(c) == /\ status[c] = "PAUSE" /\ queries[c] = 0
             /\ ~Asking(c) /\ ~Dialling(c) /\ ~(now.at = "abort" /\ now.cli = c)
             /\ \A p \in Pcb : sock[p].is = "free" \/ sock[p].cli # c

UnusedInv == \A c \in Client \ used : Unused(c)

\* The connection that makes the status of a connected client true.
Joins(c) == status[c] = "CONNECTED" =>
                \E p \in Pcb : sock[p].is = "open" /\ sock[p].cli = c

JoinsInv == used # Client => \A c \in Client : Joins(c)

\* The peer's close gives no PCB to another client.
LEMMA ClosesKeep ==
    ASSUME Typed, NEW p \in Pcb, PeerCloses(p)
    PROVE  \A q \in Pcb : \/ sock'[q].is = "free"
                          \/ sock[q].is # "free" /\ sock'[q].cli = sock[q].cli
<1> DEFINE o == pcb[sock[p].cli]
           rest == [sock EXCEPT ![p].is = "leaked"]
<1>0. sock \in [Pcb -> Socket]
  BY DEF Typed, Socks
<1>1. /\ sock[p].is = "open"
      /\ \/ sock' = rest
         \/ InUse(o) /\ sock' = [rest EXCEPT ![o] = Free]
         \/ InUse(o) /\ sock' = [rest EXCEPT ![o].is = "closing"]
  BY DEF PeerCloses
<1>2. /\ rest \in [Pcb -> Socket]
      /\ \A q \in Pcb : /\ rest[q].is = "free" <=> sock[q].is = "free"
                        /\ rest[q].is # "free" => rest[q].cli = sock[q].cli
  <2>1. /\ [sock[p] EXCEPT !.is = "leaked"] \in Socket
        /\ [sock[p] EXCEPT !.is = "leaked"].is = "leaked"
        /\ [sock[p] EXCEPT !.is = "leaked"].cli = sock[p].cli
    BY <1>0, <1>1, Sockets
  <2> QED
    BY <1>0, <1>1, <2>1
<1> HIDE DEF rest
<1>3. InUse(o) => /\ rest[o].is # "free" /\ o \in Pcb
                  /\ [rest[o] EXCEPT !.is = "closing"].cli = rest[o].cli
  BY <1>0, <1>2, Sockets DEF InUse
<1>4. CASE sock' = rest
  BY <1>2, <1>4
<1>5. CASE InUse(o) /\ sock' = [rest EXCEPT ![o] = Free]
  BY <1>2, <1>3, <1>5, Sockets
<1>6. CASE InUse(o) /\ sock' = [rest EXCEPT ![o].is = "closing"]
  <2>1. \A q \in Pcb : sock'[q] = IF q = o THEN [rest[o] EXCEPT !.is = "closing"]
                                  ELSE rest[q]
    BY <1>2, <1>3, <1>6
  <2>2. sock[o].is # "free" /\ sock'[o].cli = sock[o].cli
    BY <1>2, <1>3, <1>6, <2>1
  <2>3. \A q \in Pcb : q # o => sock'[q] = rest[q]
    BY <2>1
  <2> QED
    BY <1>2, <2>2, <2>3
<1> QED
  BY <1>1, <1>4, <1>5, <1>6

\* Every operation on a client, every callback and every stop is for a client
\* that is used.
LEMMA UnusedStep ==
    ASSUME Typed, UnusedInv, [Next]_vars PROVE UnusedInv'
<1> SUFFICES ASSUME NEW d \in Client, d \notin used PROVE Unused(d)'
  BY Marked DEF UnusedInv
<1>0. TcpStep /\ Unused(d)
  BY TcpSteps DEF UnusedInv
<1>t. /\ status \in [Client -> Status] /\ queries \in [Client -> Nat]
      /\ sock \in [Pcb -> Socket] /\ now \in Place
  BY DEF Typed, Statuses, Queries, Socks, Here
<1>1. ASSUME status'[d] = status[d], queries'[d] = queries[d],
             \/ UNCHANGED now \/ now' = Idle
             \/ now'.at = "done"
             \/ now'.at \in {"asked", "dialled", "abort"} /\ now'.cli # d,
             \A p \in Pcb : \/ sock'[p] = sock[p] \/ sock'[p].is = "free"
                            \/ sock[p].is # "free" /\ sock'[p].cli = sock[p].cli
                            \/ sock'[p].cli # d
      PROVE  Unused(d)'
  <2>1. ~Asking(d)' /\ ~Dialling(d)' /\ ~(now'.at = "abort" /\ now'.cli = d)
    BY <1>0, <1>1 DEF Unused, Asking, Dialling, Idle
  <2>2. \A p \in Pcb : sock'[p].is = "free" \/ sock'[p].cli # d
    BY <1>0, <1>1 DEF Unused
  <2> QED
    BY <1>0, <1>1, <2>1, <2>2 DEF Unused
<1>2. ASSUME NEW c \in Client,
             \/ ResolveCached(c) \/ Resolve(c) \/ Asked(c) \/ AwaitAnswer(c)
             \/ NoMorePcb(c) \/ Dialled(c) \/ Retry(c) \/ Again(c)
             \/ Settle(c) \/ Answer(c) \/ NoAnswer(c)
      PROVE  Unused(d)'
  <2>1. c # d
    BY <1>0, <1>2 DEF Unused, ResolveCached, Resolve, Asked, AwaitAnswer,
       NoMorePcb, Dialled, Retry, Again, Settle, Answer, NoAnswer, Round, Failed,
       Asking, Dialling
  <2>2. status'[d] = status[d] /\ queries'[d] = queries[d] /\ UNCHANGED sock
    BY <1>2, <1>t, <2>1 DEF ResolveCached, Resolve, Asked, AwaitAnswer, NoMorePcb,
       Dialled, Retry, Again, Settle, Answer, NoAnswer, Becomes
  <2>3. now' \in {now, Idle, [at |-> "asked", cli |-> c]}
    BY <1>2 DEF ResolveCached, Resolve, Asked, AwaitAnswer, NoMorePcb, Dialled,
       Retry, Again, Settle, Answer, NoAnswer
  <2> QED
    BY <1>1, <2>1, <2>2, <2>3
<1>3. ASSUME NEW c \in Client, Dial(c) \/ DialRefused(c) PROVE Unused(d)'
  <2>1. c # d
    BY <1>0, <1>3 DEF Unused, Dial, DialRefused, Round
  <2>2. PICK p \in Pcb, k \in {"opening", "leaked"} :
           sock' = [sock EXCEPT ![p] = [is |-> k, cli |-> c]]
    BY <1>3 DEF Dial, DialRefused
  <2>3. \A q \in Pcb : sock'[q] = sock[q] \/ sock'[q].cli # d
    BY <1>t, <2>1, <2>2
  <2>4. /\ status'[d] = status[d] /\ UNCHANGED queries
        /\ now' \in {now, [at |-> "dialled", cli |-> c]}
    BY <1>3, <1>t, <2>1 DEF Dial, DialRefused, Becomes
  <2> QED
    BY <1>1, <2>1, <2>3, <2>4
<1>4. ASSUME NEW c \in Client, NEW why \in Reason, now' = Stopping(c, why),
             UNCHANGED <<status, queries, sock>>
      PROVE  Unused(d)'
  <2>1. CASE c = d
    <3>1. now'.at = "done"
      BY <1>0, <1>4, <2>1 DEF Stopping, Unused
    <3> QED
      BY <1>1, <1>4, <3>1
  <2>2. CASE c # d
    <3>1. now'.at \in {"done", "abort"} /\ now'.cli # d
      BY <1>4, <2>2 DEF Stopping
    <3> QED
      BY <1>1, <1>4, <3>1
  <2> QED
    BY <2>1, <2>2
<1>5. CASE LinkStops \/ TaskEnded
            \/ \E c \in Client, why \in Reason : BeginStop(c, why)
  BY <1>1, <1>4, <1>5, Names DEF LinkStops, TaskEnded, BeginStop, Reason
<1>6. ASSUME NEW p \in Pcb, sock[p].is # "free"
      PROVE  sock[p].cli # d
  BY <1>0, <1>6 DEF Unused
<1>7. ASSUME NEW p \in Pcb, Connected(p) PROVE Unused(d)'
  <2>1. /\ sock[p].is = "opening" /\ UNCHANGED <<queries, now>>
        /\ sock' = [sock EXCEPT ![p] = [sock[p] EXCEPT !.is = "open"]]
        /\ status' = [status EXCEPT ![sock[p].cli] = "CONNECTED"]
    BY <1>7 DEF Connected, Becomes
  <2>2. status'[d] = status[d]
    BY <1>6, <1>t, <2>1
  <2>3. \A q \in Pcb : \/ sock'[q] = sock[q]
                       \/ sock[q].is # "free" /\ sock'[q].cli = sock[q].cli
    BY <1>t, <2>1, Sockets
  <2> QED
    BY <1>1, <2>1, <2>2, <2>3
<1>8. ASSUME NEW p \in Pcb, ConnError(p) \/ Gone(p) PROVE Unused(d)'
  <2>1. /\ sock[p].is # "free" /\ UNCHANGED <<queries, now>>
        /\ sock' = [sock EXCEPT ![p] = Free]
        /\ status' \in {status, [status EXCEPT ![sock[p].cli] = "CONNECT_ERR"]}
    BY <1>8 DEF ConnError, Gone, Frees, Becomes
  <2>2. status'[d] = status[d]
    BY <1>6, <1>t, <2>1
  <2>3. \A q \in Pcb : sock'[q] = sock[q] \/ sock'[q].is = "free"
    BY <1>t, <2>1, Sockets
  <2> QED
    BY <1>1, <2>1, <2>2, <2>3
<1>9. ASSUME NEW p \in Pcb, PeerCloses(p) PROVE Unused(d)'
  <2>1. /\ sock[p].is # "free" /\ UNCHANGED <<queries, now>>
        /\ status' = [status EXCEPT ![sock[p].cli] = "DISCONNECT"]
    BY <1>9 DEF PeerCloses, Becomes
  <2>2. status'[d] = status[d]
    BY <1>6, <1>t, <2>1
  <2> QED
    BY <1>1, <1>9, <2>1, <2>2, ClosesKeep
<1>10. ASSUME NEW c \in Client, c # d, NEW v, AbortOf(c, v)
       PROVE  /\ status'[d] = status[d] /\ UNCHANGED queries
              /\ \A q \in Pcb : sock'[q] = sock[q] \/ sock'[q].is = "free"
  <2>1. CASE InUse(pcb[c])
    <3>1. pcb[c] \in Pcb /\ sock[pcb[c]].is # "free"
      BY <1>t, <2>1, Sockets DEF InUse
    <3>2. sock[pcb[c]].cli # d
      BY <1>6, <3>1
    <3> QED
      BY <1>10, <1>t, <2>1, <3>1, <3>2, Sockets DEF AbortOf, Frees
  <2>2. CASE ~InUse(pcb[c])
    BY <1>10, <1>t, <2>2 DEF AbortOf, Becomes
  <2> QED
    BY <2>1, <2>2
<1>11. CASE StopAborts
  <2>1. now.at = "abort" /\ now.cli \in Client /\ now.cli # d
        /\ AbortOf(now.cli, "DISCONNECT")
    BY <1>0, <1>11, <1>t, StopPlaces DEF StopAborts, Unused
  <2>2. now' = Idle \/ now'.at = "done"
    BY <1>11, <1>t, <2>1, StopPlaces DEF StopAborts
  <2> QED
    BY <1>1, <1>10, <2>1, <2>2
<1>12. CASE status[Http] = "CONNECTED" /\ AbortOf(Http, "DISCONNECT") /\ UNCHANGED now
  <2>1. Http # d
    BY <1>0, <1>12 DEF Unused
  <2> QED
    BY <1>1, <1>10, <1>12, <2>1, Names
<1>13. CASE Xmpp \in used /\ PauseOf(Xmpp)
  <2>1. CASE status[Xmpp] = "CONNECTED"
    BY <1>1, <1>10, <1>13, <2>1, Names DEF PauseOf
  <2>2. CASE status[Xmpp] # "CONNECTED"
    BY <1>1, <1>13, <1>t, <2>2, Names DEF PauseOf, Becomes
  <2> QED
    BY <2>1, <2>2
<1>14. CASE (Http \in used /\ StartOf(Http)) \/ InitOf(Http)
  <2>1. UNCHANGED <<queries, sock, now>> /\ status'[d] = status[d]
    BY <1>0, <1>14, <1>t, Names DEF StartOf, InitOf, Becomes, Unused
  <2> QED
    BY <1>1, <2>1
<1>15. CASE LinkAgain
  <2>1. UNCHANGED <<queries, sock, now>> /\ status'[d] = status[d]
    BY <1>0, <1>15, <1>t DEF LinkAgain, Unused
  <2> QED
    BY <1>1, <2>1
<1>16. CASE Reboot
  BY <1>16, Elsewhere, Sockets DEF Reboot, AllPaused, NoAttempt, AllFree, Unused
<1>17. CASE UNCHANGED tcpVars
  BY <1>1, <1>17 DEF tcpVars
<1> QED
  BY <1>0, <1>2, <1>3, <1>5, <1>7, <1>8, <1>9, <1>11, <1>12, <1>13, <1>14,
     <1>15, <1>16, <1>17 DEF TcpStep

\* With one client at work, the connection of a connected client ends only
\* together with its status.
LEMMA JoinsStep ==
    ASSUME Typed, UnusedInv, JoinsInv, [Next]_vars PROVE JoinsInv'
<1> SUFFICES ASSUME used # Client, NEW x \in Client PROVE Joins(x)'
  BY Marked DEF JoinsInv
<1>0. TcpStep /\ Joins(x)
  BY TcpSteps DEF JoinsInv
<1>t. /\ status \in [Client -> Status] /\ sock \in [Pcb -> Socket] /\ now \in Place
      /\ used \subseteq Client
  BY HttpAssumption DEF Typed, Statuses, Socks, Here
<1>1. ASSUME status'[x] # "CONNECTED" PROVE Joins(x)'
  BY <1>1 DEF Joins
<1>2. ASSUME status'[x] = status[x],
             \A p \in Pcb : sock[p].is = "open" => sock'[p] = sock[p]
      PROVE  Joins(x)'
  BY <1>0, <1>2 DEF Joins
<1>3. ASSUME NEW p \in Pcb, sock[p].is # "free", status[x] = "CONNECTED"
      PROVE  sock[p].cli = x
  <2>1. PICK d \in Client : d \notin used
    BY <1>t
  <2>2. sock[p].cli # d /\ x # d
    BY <1>3, <2>1 DEF UnusedInv, Unused
  <2>3. sock[p] \in Socket
    BY <1>3, <1>t
  <2>4. sock[p].cli \in Client
    BY <1>3, <2>3, Sockets
  <2> QED
    BY <2>1, <2>2, <2>4, Names
<1>4. ASSUME NEW c \in Client,
             \/ ResolveCached(c) \/ Resolve(c) \/ Asked(c) \/ AwaitAnswer(c)
             \/ NoMorePcb(c) \/ Dialled(c) \/ Retry(c) \/ Again(c)
             \/ Settle(c) \/ Answer(c) \/ NoAnswer(c)
      PROVE  Joins(x)'
  <2>1. UNCHANGED sock /\ (status'[x] = status[x] \/ status'[x] # "CONNECTED")
    BY <1>4, <1>t DEF ResolveCached, Resolve, Asked, AwaitAnswer, NoMorePcb,
       Dialled, Retry, Again, Settle, Answer, NoAnswer, Becomes
  <2> QED
    BY <1>1, <1>2, <2>1
<1>5. ASSUME NEW c \in Client, Dial(c) \/ DialRefused(c) PROVE Joins(x)'
  <2>1. PICK p \in Pcb, k \in {"opening", "leaked"} :
           sock[p] = Free /\ sock' = [sock EXCEPT ![p] = [is |-> k, cli |-> c]]
    BY <1>5 DEF Dial, DialRefused
  <2>2. \A q \in Pcb : sock[q].is = "open" => sock'[q] = sock[q]
    BY <1>t, <2>1, Sockets
  <2>3. status'[x] = status[x] \/ status'[x] # "CONNECTED"
    BY <1>5, <1>t DEF Dial, DialRefused, Becomes
  <2> QED
    BY <1>1, <1>2, <2>2, <2>3
<1>6. ASSUME NEW p \in Pcb, Connected(p) PROVE Joins(x)'
  <2>1. /\ sock[p].is = "opening"
        /\ sock' = [sock EXCEPT ![p] = [sock[p] EXCEPT !.is = "open"]]
        /\ status' = [status EXCEPT ![sock[p].cli] = "CONNECTED"]
    BY <1>6 DEF Connected, Becomes
  <2>2. /\ sock'[p].is = "open" /\ sock'[p].cli = sock[p].cli
        /\ \A q \in Pcb : sock[q].is = "open" => sock'[q] = sock[q]
    BY <1>t, <2>1, Sockets
  <2>3. CASE sock[p].cli = x
    BY <2>2, <2>3 DEF Joins
  <2>4. CASE sock[p].cli # x
    BY <1>2, <1>t, <2>1, <2>2, <2>4
  <2> QED
    BY <2>3, <2>4
<1>7. ASSUME NEW p \in Pcb, sock[p].is # "free",
             NEW v, v # "CONNECTED",
             status' = [status EXCEPT ![sock[p].cli] = v]
      PROVE  Joins(x)'
  <2>1. sock[p].cli = x => status'[x] = v
    BY <1>7, <1>t
  <2>2. sock[p].cli # x => status'[x] = status[x]
    BY <1>7, <1>t
  <2> QED
    BY <1>1, <1>3, <1>7, <2>1, <2>2
<1>8. ASSUME NEW p \in Pcb, ConnError(p) \/ PeerCloses(p) PROVE Joins(x)'
  BY <1>7, <1>8 DEF ConnError, PeerCloses, Becomes
<1>9. ASSUME NEW p \in Pcb, Gone(p) PROVE Joins(x)'
  <2>1. UNCHANGED status /\ \A q \in Pcb : sock[q].is = "open" => sock'[q] = sock[q]
    BY <1>9, <1>t DEF Gone, Frees
  <2> QED
    BY <1>2, <2>1
<1>10. ASSUME NEW c \in Client, NEW v, v # "CONNECTED", AbortOf(c, v)
       PROVE  Joins(x)'
  <2>1. CASE InUse(pcb[c])
    <3>1. pcb[c] \in Pcb /\ sock[pcb[c]].is # "free"
      BY <1>t, <2>1, Sockets DEF InUse
    <3>2. status' = [status EXCEPT ![sock[pcb[c]].cli] = "CONNECT_ERR", ![c] = v]
      BY <1>10, <2>1 DEF AbortOf
    <3>3. sock[pcb[c]].cli = x => status'[x] # "CONNECTED"
      BY <1>10, <1>t, <3>2
    <3>4. sock[pcb[c]].cli # x => status'[x] \in {status[x], v}
      BY <1>t, <3>2
    <3> QED
      BY <1>1, <1>3, <1>10, <3>1, <3>3, <3>4
  <2>2. CASE ~InUse(pcb[c])
    <3>1. UNCHANGED sock /\ status'[x] \in {status[x], v}
      BY <1>10, <1>t, <2>2 DEF AbortOf, Becomes
    <3> QED
      BY <1>1, <1>2, <1>10, <3>1
  <2> QED
    BY <2>1, <2>2
<1>11. CASE StopAborts
  <2>1. now.cli \in Client /\ AbortOf(now.cli, "DISCONNECT")
    BY <1>11, <1>t, StopPlaces DEF StopAborts
  <2> QED
    BY <1>10, <2>1
<1>12. CASE PauseOf(Xmpp)
  <2>1. CASE status[Xmpp] = "CONNECTED"
    BY <1>10, <1>12, <2>1, Names DEF PauseOf
  <2>2. CASE status[Xmpp] # "CONNECTED"
    <3>1. UNCHANGED sock /\ status'[x] \in {status[x], "PAUSE"}
      BY <1>12, <1>t, <2>2 DEF PauseOf, Becomes
    <3> QED
      BY <1>1, <1>2, <3>1
  <2> QED
    BY <2>1, <2>2
<1>13. CASE \/ StartOf(Http) \/ InitOf(Http) \/ LinkAgain \/ LinkStops \/ TaskEnded
            \/ \E c \in Client, why \in Reason : BeginStop(c, why)
            \/ UNCHANGED tcpVars
  <2>1. UNCHANGED sock /\ (status'[x] = status[x] \/ status'[x] # "CONNECTED")
    BY <1>13, <1>t DEF StartOf, InitOf, LinkAgain, LinkStops, TaskEnded, BeginStop,
       Becomes, tcpVars
  <2> QED
    BY <1>1, <1>2, <2>1
<1>14. CASE Reboot
  BY <1>1, <1>14 DEF Reboot, AllPaused
<1> QED
  BY <1>0, <1>4, <1>5, <1>6, <1>8, <1>9, <1>10, <1>11, <1>12, <1>13, <1>14, Names
     DEF TcpStep

LEMMA JoinsInvariant == Spec => [](UnusedInv /\ JoinsInv)
<1>1. Init => UnusedInv /\ JoinsInv
  <2> SUFFICES ASSUME Init, NEW c \in Client PROVE Unused(c) /\ Joins(c)
    BY DEF UnusedInv, JoinsInv
  <2> QED
    BY Sockets, Elsewhere DEF Init, TcpInit, AllPaused, NoAttempt, AllFree, Unused,
       Joins
<1> QED
  BY <1>1, UnusedStep, JoinsStep, TypeInvariant, PTL DEF Spec

\* lwip_raw_api_tcp_template.c:33-42,58-78,290-298: a client that believes it is
\* connected has an open connection, for a pool of any size, any number of open
\* queries and every late answer or failure; with both clients at work, in
\* clean runs.
THEOREM StatusIsTruthful == Spec => []StatusTruthful
<1>1. Typed /\ AgreeInv /\ JoinsInv => StatusTruthful
  <2> SUFFICES ASSUME Typed, AgreeInv, JoinsInv, clean \/ used # Client,
                      NEW c \in Client, status[c] = "CONNECTED"
               PROVE  \E p \in Pcb : sock[p] = [is |-> "open", cli |-> c]
    BY DEF StatusTruthful
  <2>1. PICK p \in Pcb : sock[p].is = "open" /\ sock[p].cli = c
    BY DEF AgreeInv, Agree, Has, JoinsInv, Joins
  <2>2. sock[p] = [is |-> "open", cli |-> c]
    BY <2>1 DEF Typed, Socks, Socket, Free
  <2> QED
    BY <2>2
<1> QED
  BY <1>1, AgreeInvariant, JoinsInvariant, TypeInvariant, PTL

=============================================================================
