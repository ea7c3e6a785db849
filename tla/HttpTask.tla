------------------------------ MODULE HttpTask ------------------------------
(***************************************************************************)
(* The HTTP task (isp_http_tcp.c:28-478,1654-1856) on top of the TCP       *)
(* clients: commands received over XMPP start a download or an upload,     *)
(* mainloop drives it, the callbacks of its TCP client move it on.  The    *)
(* other client, XMPP's, is driven by mainloop too and is initialised anew *)
(* when the PPP link was torn down (ppp_service.c, isp_xmpp_tcp.c).        *)
(*                                                                         *)
(* The content of the messages is left out: what a received packet means   *)
(* for the task is a choice.  A behaviour is clean until an event happens    *)
(* that the code does not provide for (Upset).                             *)
(***************************************************************************)
EXTENDS TcpClient

CONSTANTS Xmpp, Http,
          Uses   \* bound: the sets of clients that behaviours follow

ASSUME HttpAssumption == /\ Client = {Xmpp, Http} /\ Xmpp # Http
                         /\ LongLived = {Xmpp} /\ KeepAlive = {Http}
                         /\ Uses \subseteq SUBSET Client \ {{}}

VARIABLES used,   \* the clients this behaviour follows; the others stay as they are
          http,   \* http_tcp_status
          task,   \* http_task_type
          quiet,  \* whether GET_HTTP_ACTIVE > 30
          clean   \* history: no event the code does not provide for

httpVars == <<http, task, quiet>>
vars == <<used, tcpVars, httpVars, clean>>

Uploading == {"UPLOADING", "UPLOADING_END", "UPLOAD_FINISH"}
HttpStatus == Uploading \cup {"INIT", "START", "STARTED", "UPLOAD_DONE",
                              "DOWNLOADING", "DOWNLOAD_FINISH", "ERROR",
                              "FINISH"}

TypeOK == /\ TcpTypeOK
          /\ used \in Uses
          /\ http \in HttpStatus
          /\ task \in {"download", "upload"}
          /\ quiet \in BOOLEAN /\ clean \in BOOLEAN

Init == /\ TcpInit /\ used \in Uses
        /\ http = "INIT" /\ task = "download" /\ quiet = FALSE /\ clean = TRUE

HttpIs(s) == http' = s /\ UNCHANGED <<task, quiet>>

Reset == Reboot /\ http' = "INIT" /\ task' = "download" /\ quiet' = FALSE

-----------------------------------------------------------------------------
(* mainloop: the rounds of the clients and the supervision of the link *)

\* connerr tells the task of an empty pool.
ClientRound(c) ==
    \/ /\ \/ ResolveCached(c) \/ Resolve(c) \/ Asked(c) \/ AwaitAnswer(c)
          \/ Dial(c) \/ DialRefused(c) \/ Dialled(c)
          \/ Retry(c) \/ Again(c) \/ Settle(c)
       /\ UNCHANGED httpVars
    \/ /\ NoMorePcb(c)
       /\ IF c = Http THEN HttpIs("ERROR") ELSE UNCHANGED httpVars
    \/ (NoMorePcbFaults(c) \/ RetryResets(c)) /\ Reset

\* __xmpp_srv_routing: the server has been silent for too long.
XmppSilent == /\ Xmpp \in used
              /\ Round(Xmpp, "CONNECTED")
              /\ BeginStop(Xmpp, "routing")
              /\ UNCHANGED httpVars

\* ppp_routing: an error or the silence of the link.
LinkError == /\ link = "up"
             /\ BeginStop(IF Xmpp \in used THEN Xmpp ELSE Http, "link")
             /\ UNCHANGED httpVars

\* disconn_tcp_client_buf goes on to the next client, pppClose follows.
LinkStops ==
    /\ now.at = "done" /\ now.why = "link"
    /\ IF now.cli = Xmpp /\ Http \in used THEN now' = Stopping(Http, "link") /\ UNCHANGED link
       ELSE now' = Idle /\ link' = "down"
    /\ UNCHANGED <<status, pcb, attempts, waits, queries, sock, httpVars>>

\* init_xmpp_tcp, init_isp_http_cli and a PPP session; without memory for a
\* password the client of XMPP stays as it was.
LinkAgain ==
    /\ link = "down" /\ now = Idle
    /\ \E anew \in {Client, {Http}} :
          /\ status' = [c \in Client |-> IF c \notin anew THEN status[c]
                                         ELSE IF c = Xmpp /\ c \in used THEN "INIT"
                                         ELSE "PAUSE"]
          /\ pcb' = [c \in Client |-> IF c \in anew THEN NoPcb ELSE pcb[c]]
          /\ attempts' = [c \in Client |-> IF c \in anew THEN 0 ELSE attempts[c]]
    /\ link' = "up"
    /\ UNCHANGED <<waits, queries, sock, now, httpVars>>

\* connerr and then disconn
Stop == \/ StopAborts /\ IF now.cli = Http THEN HttpIs("FINISH")
                         ELSE IF InUse(pcb[Xmpp]) /\ sock[pcb[Xmpp]].cli = Http
                         THEN HttpIs("ERROR")
                         ELSE UNCHANGED httpVars
        \/ StopFaults /\ Reset

-----------------------------------------------------------------------------
(* isp_http_tcp_routing, in mainloop; also after the link was torn down *)

HttpRound(S) == Http \in used /\ now = Idle /\ http \in S

\* Faulty variant: a task that shows no activity goes on.
TaskEndsUntimed == /\ HttpRound({"UPLOAD_DONE", "DOWNLOAD_FINISH", "FINISH"})
                   /\ (http = "FINISH" => task = "download")
                   /\ BeginStop(Http, "task")
                   /\ UNCHANGED httpVars

\* isp_stop_http: the time is over, the transfer is complete, or the peer has
\* ended a download.
TaskEnds == /\ HttpRound(HttpStatus \ {"INIT"})
            /\ \/ quiet
               \/ http \in {"UPLOAD_DONE", "DOWNLOAD_FINISH"}
               \/ http = "FINISH" /\ task = "download"
            /\ BeginStop(Http, "task")
            /\ UNCHANGED httpVars

TaskEnded == /\ now.at = "done" /\ now.why = "task"
             /\ now' = Idle
             /\ HttpIs("INIT")
             /\ UNCHANGED <<status, pcb, attempts, waits, queries, sock,
                            link>>

TaskStarts == /\ HttpRound({"START"}) /\ ~quiet
              /\ StartOf(Http)
              /\ HttpIs("STARTED")

TaskStartsAgain == /\ HttpRound({"ERROR"}) /\ ~quiet
                   /\ HttpIs("START")
                   /\ UNCHANGED tcpVars

\* rout_upload_cb sends a block, has sent the last one, or has no room; it runs
\* in tcpip, before mainloop's next round.
UploadBlock == /\ HttpRound({"UPLOADING", "UPLOADING_END"}) /\ ~quiet
               /\ \/ http = "UPLOADING" /\ http' \in {http, "UPLOADING_END"}
                  \/ http = "UPLOADING_END" /\ http' \in {http, "UPLOAD_FINISH"}
               /\ UNCHANGED <<tcpVars, task, quiet>>

-----------------------------------------------------------------------------
(* tcpip: commands of the peer, and the callbacks of the clients *)

\* A connection that XMPP can hear its server over.
Heard == link = "up" /\ \E p \in Pcb : sock[p] = [is |-> "open", cli |-> Xmpp]

\* A command comes over XMPP's connection.
Commanded == Http \in used /\ link = "up" /\ (Xmpp \in used => Heard)

\* The XMPP library ends the connection on what it has received: dis_connect,
\* xmpp_disconn.  The PCB that lwIP is working on is aborted behind its back,
\* which does no harm or stops the device.
XmppPaused ==
    /\ Xmpp \in used /\ Heard
    /\ \/ /\ PauseOf(Xmpp)
          /\ IF status[Xmpp] = "CONNECTED" /\ InUse(pcb[Xmpp])
                /\ sock[pcb[Xmpp]].cli = Http
             THEN HttpIs("ERROR") ELSE UNCHANGED httpVars
       \/ status[Xmpp] = "CONNECTED" /\ Reset

\* isp_start_http_download, isp_start_http_upload
Command == /\ http = "INIT" /\ Commanded
           /\ InitOf(Http)
           /\ http' = "START" /\ quiet' = FALSE
           /\ task' \in {"download", "upload"}

\* resp_down while a task is running, or with too long a name: isp_stop_http,
\* here in tcpip.
CommandStops == /\ Commanded
                /\ IF status[Http] = "CONNECTED"
                   THEN AbortOf(Http, "DISCONNECT") /\ UNCHANGED now
                   ELSE UNCHANGED tcpVars
                /\ HttpIs("INIT")

\* The request is sent, or there is no memory for it.
HttpConnected == http' \in IF task = "upload" THEN {"UPLOADING", "ERROR"}
                           ELSE {http, "ERROR"}

OnConnected(p) == /\ Connected(p)
                  /\ IF sock[p].cli = Http
                     THEN HttpConnected /\ UNCHANGED <<task, quiet>>
                     ELSE UNCHANGED httpVars

OnError(p) == /\ ConnError(p)
              /\ IF sock[p].cli = Http THEN HttpIs("ERROR") ELSE UNCHANGED httpVars

OnPeerCloses(p) == \/ /\ PeerCloses(p)
                      /\ IF sock[p].cli = Http THEN HttpIs("FINISH")
                         ELSE UNCHANGED httpVars
                   \/ PeerCloseFaults(p) /\ Reset

OnAnswer(c) == Answer(c) /\ UNCHANGED httpVars

OnNoAnswer(c) == /\ NoAnswer(c)
                 /\ IF c = Http THEN HttpIs("ERROR") ELSE UNCHANGED httpVars

\* recv: the head of the response, more of it, the rest of it, or no head.
Recv(p) == /\ sock[p].is = "open" /\ sock[p].cli = Http
           /\ link = "up"
           /\ quiet' = FALSE
           /\ http' \in CASE http \in Uploading -> {"UPLOAD_DONE"}
                          [] http = "STARTED" -> {"STARTED", "DOWNLOADING",
                                                  "DOWNLOAD_FINISH", "ERROR"}
                          [] http = "DOWNLOADING" -> {http, "DOWNLOAD_FINISH"}
                          [] http \notin Uploading \cup {"STARTED", "DOWNLOADING"}
                                -> {http}
           /\ UNCHANGED <<tcpVars, task>>

\* More than 30 seconds have passed without activity.
Quiet == http # "INIT" /\ ~quiet /\ quiet' = TRUE /\ UNCHANGED <<tcpVars, http, task>>

-----------------------------------------------------------------------------
\* What the code does not provide for: an answer of the resolver that comes
\* after the client gave up; an answer of the peer before tcp_connect has
\* returned; the failure of a connection after its end; a client that
\* is started, paused or initialised anew and keeps a connection; a PCB
\* that is lost; a reset by the peer just before tcp_abort.
Upset ==
    \/ \E c \in Client : /\ queries'[c] < queries[c]
                         /\ status[c] # "DNS_START"
                         /\ now # [at |-> "asked", cli |-> c]
    \/ /\ now.at = "dialled" /\ InUse(pcb[now.cli])
       /\ sock[pcb[now.cli]].is = "opening"
       /\ sock'[pcb[now.cli]].is # "opening"
    \/ \E p \in Pcb : sock[p].is = "closing" /\ sock'[p] = Free /\ status' # status
    \/ \E c \in Client : /\ \/ status[c] \in {"CONNECTING", "CONNECTED"}
                            \/ now = [at |-> "dialled", cli |-> c]
                         /\ status'[c] \in {"PAUSE", "INIT"}
                         /\ \E p \in Pcb : /\ sock'[p].is \in {"opening", "open"}
                                           /\ sock'[p].cli = c
    \/ \E p \in Pcb : sock[p].is # "leaked" /\ sock'[p].is = "leaked"
    \/ now.at = "abort" /\ now' = now /\ status'[now.cli] # status[now.cli]

Marks == clean' = (clean /\ ~Upset) /\ UNCHANGED used

Next == \/ \E c \in Client : ClientRound(c) /\ Marks
        \/ XmppSilent /\ Marks
        \/ LinkError /\ Marks
        \/ LinkStops /\ Marks
        \/ LinkAgain /\ Marks
        \/ XmppPaused /\ Marks
        \/ Stop /\ Marks
        \/ TaskEnds /\ Marks
        \/ TaskEnded /\ Marks
        \/ TaskStarts /\ Marks
        \/ TaskStartsAgain /\ Marks
        \/ UploadBlock /\ Marks
        \/ Command /\ Marks
        \/ CommandStops /\ Marks
        \/ \E p \in Pcb : OnConnected(p) /\ Marks
        \/ \E p \in Pcb : OnError(p) /\ Marks
        \/ \E p \in Pcb : OnPeerCloses(p) /\ Marks
        \/ \E p \in Pcb : Recv(p) /\ Marks
        \/ \E p \in Pcb : Gone(p) /\ UNCHANGED httpVars /\ Marks
        \/ \E c \in Client : OnAnswer(c) /\ Marks
        \/ \E c \in Client : OnNoAnswer(c) /\ Marks
        \/ Quiet /\ Marks

Spec == Init /\ [][Next]_vars

\* mainloop goes through its rounds while the link is up; isp_http_tcp_routing
\* follows ppp_routing in every round, so it runs whenever the link was up.
\* The resolver and TCP give up in the end; time passes.
FairSpec == /\ Spec
            /\ \A c \in Client : WF_vars(ClientRound(c) /\ Marks)
            /\ WF_vars((LinkStops \/ LinkAgain \/ Stop \/ TaskEnded) /\ Marks)
            /\ SF_vars((TaskEnds \/ TaskStarts \/ TaskStartsAgain) /\ Marks)
            /\ \A p \in Pcb : WF_vars(sock[p].is = "opening"
                                      /\ (OnConnected(p) \/ OnError(p)) /\ Marks)
            /\ \A c \in Client : WF_vars((OnAnswer(c) \/ OnNoAnswer(c)) /\ Marks)
            /\ WF_vars(Quiet /\ Marks)

-----------------------------------------------------------------------------
(* Properties *)


\* lwip_raw_api_tcp_template.c:33-42,58-78,290-298: a client that believes it is
\* connected has an open connection, whatever late answer, late failure, pause
\* or restart came in between.  Only with both clients at work the run has to
\* be clean: line 36 closes the PCB that the client names, which may have
\* become the other client's.
StatusTruthful ==
    clean \/ used # Client =>
        \A c \in Client : status[c] = "CONNECTED" =>
            \E p \in Pcb : sock[p] = [is |-> "open", cli |-> c]

\* lwip_raw_api_tcp_template.c:249-254: in a clean run the device is reset
\* before the attempts in a row exceed the limit by more than one, so the
\* counter never wraps past the test.
ResetInTime == clean => \A c \in LongLived : attempts[c] <= AttemptLimit + 1

\* The states of XMPP's client that no round of mainloop's leaves.
Stuck == \/ status[Xmpp] = "PAUSE"
         \/ status[Xmpp] = "CONNECTING" /\ \A p \in Live : sock[p].cli # Xmpp

NoMemory == LinkAgain /\ status'[Xmpp] = status[Xmpp]

\* isp_xmpp_tcp.c:270-271, lwip_raw_api_tcp_template.c:248: the connection of
\* XMPP is re-established for ever, whatever happens on the way: again and again
\* it has a connection, or tries anew.  Nothing but a pause, a status that was
\* overwritten by TCP_CONNECTING, or a lack of memory at each new session ends
\* that.
XmppRecovers == \/ []<>(\/ Xmpp \notin used
                        \/ status[Xmpp] = "INIT"
                        \/ \E p \in Pcb : sock[p] = [is |-> "open", cli |-> Xmpp])
                \/ <>[]Stuck
                \/ []<><<NoMemory>>_vars

\* isp_http_tcp.c:1736-1747: a task that shows no more activity ends, whatever
\* its last callback made of it.
TaskIsOver == <>[]quiet => []<>(http = "INIT")
=============================================================================
