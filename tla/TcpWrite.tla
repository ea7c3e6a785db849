------------------------------ MODULE TcpWrite ------------------------------
(***************************************************************************)
(* MY_TCP_Client_write2 (lwip_raw_api_tcp_template.c): a thread that is    *)
(* not tcpip hands a copy of its data to the tcpip thread through one      *)
(* static record wd, posts __WDATA_FUNC and polls tcp_write_err for the    *)
(* result.  The threads that write have one priority and share the         *)
(* processor in time slices, so any two of their steps may be interleaved. *)
(* tcpip has a higher one, but rt_free may make it wait for a thread that  *)
(* holds the lock of the heap.                                             *)
(*                                                                         *)
(* The n-th call of writer w carries the data <<w, n>>, which also names   *)
(* the buffer it allocates.  A poll of ten tenths of a second may end at   *)
(* any moment without a result.                                            *)
(***************************************************************************)
EXTENDS Integers, FiniteSets

CONSTANTS Writer,       \* threads that write
          Calls,        \* bound: calls of one writer
          Posts,        \* attempts to post the callback, 5 in the code
          MboxSize,     \* callbacks the mailbox of tcpip holds
          Nothing       \* no buffer

Data == Writer \X (1..Calls)

ASSUME WriteAssumption == /\ Calls \in Nat \ {0} /\ Posts \in Nat \ {0}
                          /\ MboxSize \in Nat \ {0}
                          /\ Nothing \notin Data

\* err_t values: 99 stands for no result yet.
Err == {"OK", "MEM", "TIMEOUT", "CONN", "none"}

VARIABLES wdBuf,        \* wd.buf
          wdCli,        \* wd.cli: the writer whose connection it is
          content,      \* data last copied into each buffer, Nothing before
          heap,         \* buffers allocated and not freed
          result,       \* tcp_write_err
          pending,      \* callbacks posted and not begun
          func,         \* tcpip: "idle" or "free", between its two halves
          sent,         \* data written, with the connection it went to
          starved,      \* data that found no memory for a copy
          pc, call, post,     \* of each writer
          answer              \* what each call returned

vars == <<wdBuf, wdCli, content, heap, result, pending, func, sent, starved,
          pc, call, post, answer>>

shared == <<wdBuf, wdCli, content, heap, result, pending, func, sent, starved>>

Steps == {"idle", "alloc", "copy", "post", "poll"}

TypeOK == /\ wdBuf \in Data \cup {Nothing}
          /\ wdCli \in Writer
          /\ content \in [Data -> Data \cup {Nothing}]
          /\ heap \subseteq Data
          /\ result \in Err
          /\ pending \in 0..MboxSize
          /\ func \in {"idle", "free"}
          /\ sent \subseteq (Data \cup {Nothing}) \X Writer
          /\ starved \subseteq Data
          /\ pc \in [Writer -> Steps]
          /\ call \in [Writer -> 0..Calls]
          /\ post \in [Writer -> 0..Posts]
          /\ answer \in [Data -> Err]

Init == /\ wdBuf = Nothing /\ wdCli \in Writer
        /\ content = [d \in Data |-> Nothing]
        /\ heap = {}
        /\ result = "none"
        /\ pending = 0 /\ func = "idle" /\ sent = {} /\ starved = {}
        /\ pc = [w \in Writer |-> "idle"]
        /\ call = [w \in Writer |-> 0]
        /\ post = [w \in Writer |-> 0]
        /\ answer = [d \in Data |-> "none"]

Current(w) == <<w, call[w]>>

Goto(w, s) == pc' = [pc EXCEPT ![w] = s]

Return(w, e) == /\ Goto(w, "idle")
                /\ answer' = [answer EXCEPT ![Current(w)] = e]

-----------------------------------------------------------------------------
(* The writers *)

\* Faulty variant: a buffer still in use is taken over.
EnterBusy(w) == /\ pc[w] = "idle" /\ call[w] < Calls
                /\ call' = [call EXCEPT ![w] = @ + 1]
                /\ Goto(w, "alloc")
                /\ UNCHANGED <<shared, post, answer>>

\* The check of wd.buf, apart from the assignment it guards.
Enter(w) == /\ pc[w] = "idle" /\ call[w] < Calls
            /\ call' = [call EXCEPT ![w] = @ + 1]
            /\ IF wdBuf = Nothing
               THEN Goto(w, "alloc") /\ UNCHANGED answer
               ELSE /\ answer' = [answer EXCEPT ![<<w, call[w] + 1>>] = "MEM"]
                    /\ UNCHANGED pc
            /\ UNCHANGED <<shared, post>>

Malloc(w) == /\ pc[w] = "alloc"
             /\ wdBuf' = Current(w)
             /\ heap' = heap \cup {Current(w)}
             /\ Goto(w, "copy")
             /\ UNCHANGED <<wdCli, content, result, pending, func, sent, call,
                            post, answer, starved>>

\* Without memory the call returns the initial value of ret.
MallocFails(w) == /\ pc[w] = "alloc"
                  /\ wdBuf' = Nothing
                  /\ starved' = starved \cup {Current(w)}
                  /\ Return(w, "OK")
                  /\ UNCHANGED <<wdCli, content, heap, result, pending, func,
                                 sent, call, post>>

\* memcpy into whatever wd.buf points to now.
Copy(w) == /\ pc[w] = "copy"
           /\ content' = IF wdBuf = Nothing THEN content
                         ELSE [content EXCEPT ![wdBuf] = Current(w)]
           /\ post' = [post EXCEPT ![w] = 0]
           /\ Goto(w, "post")
           /\ UNCHANGED <<wdBuf, wdCli, heap, result, pending, func, sent,
                          call, answer, starved>>

\* Faulty variant: the post is repeated without end.
PrepareUnbounded(w) == /\ pc[w] = "post"
                       /\ wdCli' = w
                       /\ result' = "none"

Prepare(w) == /\ pc[w] = "post" /\ post[w] < Posts
              /\ wdCli' = w
              /\ result' = "none"

\* tcpip_callback_with_block found room in the mailbox.
PostSucceeds(w) == /\ Prepare(w)
                   /\ pending < MboxSize
                   /\ pending' = pending + 1
                   /\ Goto(w, "poll")
                   /\ UNCHANGED <<wdBuf, content, heap, func, sent, call,
                                  post, answer, starved>>

\* The mailbox is full, with these callbacks or with others: sleep and retry.
PostFails(w) == /\ Prepare(w)
                /\ post' = [post EXCEPT ![w] = @ + 1]
                /\ UNCHANGED <<wdBuf, content, heap, pending, func, sent, pc,
                               call, answer, starved>>

\* Faulty variant: the buffer of a message that was not posted is kept.
GiveUpKeeps(w) == /\ pc[w] = "post" /\ post[w] = Posts
                  /\ wdBuf' = Nothing
                  /\ Return(w, "MEM")
                  /\ UNCHANGED <<wdCli, content, heap, result, pending, func,
                                 sent, call, post, starved>>

GiveUp(w) == /\ pc[w] = "post" /\ post[w] = Posts
             /\ heap' = heap \ {wdBuf}
             /\ wdBuf' = Nothing
             /\ Return(w, "MEM")
             /\ UNCHANGED <<wdCli, content, result, pending, func, sent, call,
                            post, starved>>

\* tcp_write_err has changed.
PollDone(w) == /\ pc[w] = "poll" /\ result # "none"
               /\ Return(w, result)
               /\ UNCHANGED <<shared, call, post>>

\* One second without a result.
PollTimeout(w) == /\ pc[w] = "poll" /\ result = "none"
                  /\ Return(w, "TIMEOUT")
                  /\ UNCHANGED <<shared, call, post>>

-----------------------------------------------------------------------------
(* __WDATA_FUNC in the tcpip thread *)

\* tcp_write copies the data or refuses them.
FuncWrite == /\ func = "idle" /\ pending > 0
             /\ pending' = pending - 1
             /\ func' = "free"
             /\ \/ /\ result' = "OK"
                   /\ sent' = IF wdBuf = Nothing THEN sent
                              ELSE sent \cup {<<content[wdBuf], wdCli>>}
                \/ result' = "CONN" /\ UNCHANGED sent
             /\ UNCHANGED <<wdBuf, wdCli, content, heap, pc, call, post,
                            answer, starved>>

\* Faulty variant: the record is not released.
FuncFreeKeeps == /\ func = "free"
                 /\ heap' = heap \ {wdBuf}
                 /\ func' = "idle"
                 /\ UNCHANGED <<wdBuf, wdCli, content, result, pending, sent,
                                pc, call, post, answer, starved>>

FuncFree == /\ func = "free"
            /\ heap' = heap \ {wdBuf}
            /\ wdBuf' = Nothing
            /\ func' = "idle"
            /\ UNCHANGED <<wdCli, content, result, pending, sent, pc, call,
                           post, answer, starved>>

Write(w) == \/ Enter(w) \/ Malloc(w) \/ MallocFails(w) \/ Copy(w)
            \/ PostSucceeds(w) \/ PostFails(w) \/ GiveUp(w)
            \/ PollDone(w) \/ PollTimeout(w)

Func == FuncWrite \/ FuncFree

Next == Func \/ \E w \in Writer : Write(w)

Spec == Init /\ [][Next]_vars

\* The tcpip thread keeps running; every writer's sleeps end.
FairSpec == Spec /\ WF_vars(Func) /\ \A w \in Writer : WF_vars(Write(w))

-----------------------------------------------------------------------------
(* Properties *)

\* lwip_raw_api_tcp_template.h: "write data into a TCP connection": what a
\* call reported as written went, as it was, to the caller's connection, unless
\* there was no memory for the copy (line 380 reports success then).
ReportedIsSent == \A d \in Data :
                      answer[d] = "OK" => <<d, d[1]>> \in sent \/ d \in starved

\* lwip_raw_api_tcp_template.c:331,373: a buffer is freed by the give-up or by
\* the callback, also when the caller has long timed out; none is lost.
NoLostBuffer == heap \subseteq {wdBuf}

\* lwip_raw_api_tcp_template.c:339: data that were refused with ERR_MEM before
\* they were copied, or that were given up, are never sent later.
RefusedNotSent == \A d \in Data, w \in Writer :
                      answer[d] = "MEM" => <<d, w>> \notin sent

\* lwip_raw_api_tcp_template.c:346-366: every call returns, and after a
\* time-out the record becomes free again for the next call.
RecordFreedAgain == []<>(wdBuf = Nothing)
=============================================================================
