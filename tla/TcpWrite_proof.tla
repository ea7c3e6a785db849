--------------------------- MODULE TcpWrite_proof ---------------------------
(***************************************************************************)
(* Proofs about TcpWrite: types for any number of writers, and what the    *)
(* hand-off promises as long as no two calls overlap.                      *)
(***************************************************************************)
EXTENDS TcpWrite, TLAPS

\* A call that is going on has a number.
CallNumbered == \A w \in Writer : pc[w] # "idle" => call[w] \in 1..Calls

LEMMA CurrentIsData ==
    ASSUME TypeOK, CallNumbered, NEW w \in Writer, pc[w] # "idle"
    PROVE  Current(w) \in Data
BY DEF CallNumbered, Current, Data

\* No step of a writer or of tcpip spoils a type.
LEMMA TypeStep == TypeOK /\ CallNumbered /\ [Next]_vars
                  => TypeOK' /\ CallNumbered'
<1> SUFFICES ASSUME TypeOK, CallNumbered, [Next]_vars
             PROVE  TypeOK' /\ CallNumbered'
  OBVIOUS
<1> USE WriteAssumption DEF TypeOK, CallNumbered, Steps, Err
<1>1. CASE FuncWrite
  BY <1>1 DEF FuncWrite
<1>2. CASE FuncFree
  BY <1>2 DEF FuncFree
<1>3. ASSUME NEW w \in Writer, Write(w) PROVE TypeOK' /\ CallNumbered'
  <2>1. CASE Enter(w)
    <3>1. call[w] + 1 \in 1..Calls
      BY <2>1 DEF Enter
    <3>2. <<w, call[w] + 1>> \in Data
      BY <3>1 DEF Data
    <3> QED
      BY <2>1, <3>1, <3>2 DEF Enter, Goto, shared
  <2>2. CASE pc[w] # "idle"
    <3>1. Current(w) \in Data
      BY <2>2, CurrentIsData
    <3>2. CASE Malloc(w)
      BY <3>1, <3>2 DEF Malloc, Goto
    <3>3. CASE MallocFails(w)
      BY <3>1, <3>3 DEF MallocFails, Return, Goto
    <3>4. CASE Copy(w)
      BY <3>1, <3>4 DEF Copy, Goto
    <3>5. CASE PostSucceeds(w)
      BY <3>5 DEF PostSucceeds, Prepare, Goto
    <3>6. CASE PostFails(w)
      BY <3>6 DEF PostFails, Prepare
    <3>7. CASE GiveUp(w)
      BY <3>1, <3>7 DEF GiveUp, Return, Goto
    <3>8. CASE PollDone(w) \/ PollTimeout(w)
      BY <3>1, <3>8 DEF PollDone, PollTimeout, Return, Goto, shared
    <3>9. ~Enter(w)
      BY <2>2 DEF Enter
    <3> QED
      BY <1>3, <3>2, <3>3, <3>4, <3>5, <3>6, <3>7, <3>8, <3>9 DEF Write
  <2>3. CASE pc[w] = "idle"
    BY <1>3, <2>1, <2>3 DEF Write, Malloc, MallocFails, Copy, PostSucceeds,
       PostFails, Prepare, GiveUp, PollDone, PollTimeout
  <2> QED
    BY <2>2, <2>3
<1>4. CASE UNCHANGED vars
  BY <1>4 DEF vars
<1> QED
  BY <1>1, <1>2, <1>3, <1>4 DEF Next, Func

\* Every variable keeps its type, however many threads write
\* (lwip_raw_api_tcp_template.c:315-381).
THEOREM TypeCorrect == Spec => [](TypeOK /\ CallNumbered)
<1>1. Init => TypeOK /\ CallNumbered
  BY WriteAssumption DEF Init, TypeOK, CallNumbered, Steps, Err
<1> QED
  BY <1>1, TypeStep, PTL DEF Spec

-----------------------------------------------------------------------------
(* Calls that do not overlap *)

\* At most one call is past its check of wd.buf and has not returned.  A call
\* that timed out has returned, and its callback may still be on the way.
Alone == \A u, v \in Writer : pc[u] # "idle" /\ pc[v] # "idle" => u = v

\* The record is free, or one callback owns it, posted or half done.
RecordOwned ==
    /\ heap \subseteq {wdBuf}
    /\ pending \in {0, 1}
    /\ func = "free" => pending = 0
    /\ wdBuf = Nothing => pending = 0 /\ func = "idle"
    /\ pending = 1 => content[wdBuf] = wdBuf /\ wdCli = wdBuf[1]

\* What the steps of one call rely on: the record stays the caller's from the
\* allocation to the post, and the poll sees the result of its own callback.
CallOwns(w) ==
    /\ pc[w] = "alloc" => wdBuf = Nothing
    /\ pc[w] \in {"copy", "post"} =>
          wdBuf = Current(w) /\ pending = 0 /\ func = "idle"
    /\ pc[w] = "post" => content[wdBuf] = wdBuf
    /\ pc[w] = "poll" /\ pending = 1 => result = "none" /\ wdBuf = Current(w)
    /\ pc[w] = "poll" /\ pending = 0 =>
          \/ result = "CONN"
          \/ result = "OK" /\ <<Current(w), w>> \in sent
    /\ pc[w] # "idle" => answer[Current(w)] = "none"

\* Numbers not called yet have no answer; data in the record or sent belong to
\* calls that were not refused, and not to one that has still to post.
Numbers ==
    /\ \A d \in Data : d[2] > call[d[1]] => answer[d] = "none"
    /\ wdBuf # Nothing => wdBuf[2] <= call[wdBuf[1]] /\ answer[wdBuf] # "MEM"
    /\ \A d \in Data, v \in Writer : <<d, v>> \in sent =>
          /\ d[2] <= call[d[1]]
          /\ answer[d] # "MEM"
          /\ \A w \in Writer : pc[w] \in {"alloc", "copy", "post"} =>
                                   d # Current(w)

SerialInv == /\ RecordOwned
             /\ \A w \in Writer : CallOwns(w)
             /\ Numbers
             /\ ReportedIsSent

\* The steps of tcpip.
LEMMA FuncKeepsSerial ==
    ASSUME TypeOK, CallNumbered, SerialInv, Func PROVE SerialInv'
<1> USE WriteAssumption DEF TypeOK, SerialInv, RecordOwned
<1>1. CASE FuncWrite
  <2>1. /\ pending = 1 /\ pending' = 0 /\ func = "idle" /\ func' = "free"
        /\ wdBuf \in Data
        /\ UNCHANGED <<wdBuf, wdCli, content, heap, pc, call, post, answer,
                       starved>>
    BY <1>1 DEF FuncWrite
  <2>2. /\ result' \in {"OK", "CONN"}
        /\ result' = "OK" => sent' = sent \cup {<<wdBuf, wdBuf[1]>>}
        /\ sent' \in {sent, sent \cup {<<wdBuf, wdBuf[1]>>}}
    BY <1>1, <2>1 DEF FuncWrite
  <2>3. \A w \in Writer : /\ pc[w] \notin {"alloc", "copy", "post"}
                          /\ Current(w)' = Current(w)
    <3> SUFFICES ASSUME NEW w \in Writer
                 PROVE  /\ pc[w] \notin {"alloc", "copy", "post"}
                        /\ Current(w)' = Current(w)
      OBVIOUS
    <3>1. CallOwns(w) /\ wdBuf # Nothing
      BY <2>1
    <3>2. pc[w] \notin {"alloc", "copy", "post"}
      BY <2>1, <3>1 DEF CallOwns
    <3> QED
      BY <2>1, <3>2 DEF Current
  <2>4. RecordOwned'
    BY <2>1
  <2>5. ASSUME NEW w \in Writer PROVE CallOwns(w)'
    <3>1. CASE pc[w] = "poll"
      <4>1. /\ CallOwns(w) /\ Current(w)' = Current(w)
            /\ Current(w)[1] = w
        BY <2>3 DEF Current
      <4>2. wdBuf = Current(w) /\ answer[Current(w)] = "none"
        BY <2>1, <3>1, <4>1 DEF CallOwns
      <4>3. result' = "OK" => <<Current(w)', w>> \in sent'
        BY <2>2, <4>1, <4>2
      <4> QED
        BY <2>1, <2>2, <3>1, <4>1, <4>2, <4>3 DEF CallOwns
    <3>2. CASE pc[w] # "poll"
      BY <2>1, <2>3, <3>2 DEF CallOwns, Steps
    <3> QED
      BY <3>1, <3>2
  <2>6. Numbers'
    BY <2>1, <2>2, <2>3 DEF Numbers
  <2>7. ReportedIsSent'
    BY <2>1, <2>2 DEF ReportedIsSent
  <2> QED
    BY <2>4, <2>5, <2>6, <2>7
<1>2. CASE FuncFree
  <2>1. /\ pending = 0 /\ func' = "idle" /\ wdBuf' = Nothing /\ func = "free"
        /\ heap' = {}
        /\ UNCHANGED <<wdCli, content, result, pending, sent, pc, call, post,
                       answer, starved>>
    BY <1>2 DEF FuncFree
  <2>2. ASSUME NEW w \in Writer PROVE CallOwns(w)'
    BY <2>1 DEF CallOwns, Current
  <2>3. Numbers'
    BY <2>1 DEF Numbers, Current
  <2> QED
    BY <2>1, <2>2, <2>3 DEF ReportedIsSent
<1> QED
  BY <1>1, <1>2 DEF Func

\* The steps of a call.
LEMMA WriteKeepsSerial ==
    ASSUME TypeOK, CallNumbered, SerialInv, Alone, Alone',
           NEW w \in Writer, Write(w)
    PROVE  SerialInv'
<1> USE WriteAssumption DEF TypeOK, SerialInv
<1>1. CASE Enter(w)
  <2> DEFINE d == <<w, call[w] + 1>>
  <2>1. /\ pc[w] = "idle" /\ call[w] < Calls
        /\ call' = [call EXCEPT ![w] = @ + 1]
        /\ UNCHANGED <<wdBuf, wdCli, content, heap, result, pending, func,
                       sent, starved, post>>
    BY <1>1 DEF Enter, shared
  <2>2. d \in Data /\ d[2] > call[d[1]] /\ answer[d] = "none"
    BY <2>1 DEF Data, Numbers
  <2>3. \A e \in Data : e # d => (e[2] > call'[e[1]] => e[2] > call[e[1]])
    BY <2>1 DEF Data
  <2>4. \A e \in Data : e[2] <= call[e[1]] => e # d /\ e[2] <= call'[e[1]]
    BY <2>1, <2>2 DEF Data
  <2>5. d[2] <= call'[d[1]] /\ Current(w)' = d
    BY <2>1 DEF Current
  <2>6. \A v \in Writer : v # w => Current(v)' = Current(v) /\ Current(v) # d
    BY <2>1 DEF Current
  <2>7. CASE wdBuf = Nothing
    <3>1. pc' = [pc EXCEPT ![w] = "alloc"] /\ answer' = answer
      BY <1>1, <2>7 DEF Enter, Goto
    <3>2. \A v \in Writer : v # w => pc[v] = "idle" /\ pc'[v] = "idle"
      BY <3>1 DEF Alone
    <3>3. ASSUME NEW v \in Writer PROVE CallOwns(v)'
      BY <2>1, <2>2, <2>5, <2>7, <3>1, <3>2 DEF CallOwns
    <3>4. Numbers'
      BY <2>1, <2>2, <2>3, <2>4, <2>5, <2>7, <3>1, <3>2 DEF Numbers
    <3> QED
      BY <2>1, <3>1, <3>3, <3>4 DEF RecordOwned, ReportedIsSent
  <2>8. CASE wdBuf # Nothing
    <3>1. pc' = pc /\ answer' = [answer EXCEPT ![d] = "MEM"]
      BY <1>1, <2>8 DEF Enter
    <3>2. ASSUME NEW v \in Writer PROVE CallOwns(v)'
      BY <2>1, <2>6, <3>1, CurrentIsData DEF CallOwns
    <3>3. Numbers'
      BY <2>1, <2>2, <2>3, <2>4, <2>5, <2>6, <2>8, <3>1 DEF Numbers
    <3>4. ReportedIsSent'
      BY <2>1, <3>1 DEF ReportedIsSent
    <3> QED
      BY <2>1, <3>2, <3>3, <3>4 DEF RecordOwned
  <2> QED
    BY <2>7, <2>8
<1>2. CASE pc[w] # "idle"
  <2> DEFINE d == Current(w)
  <2>1. d \in Data /\ d[1] = w /\ d[2] = call[w]
    BY <1>2, CurrentIsData DEF Current
  <2>2. \A v \in Writer : v # w => pc[v] = "idle"
    BY <1>2 DEF Alone
  <2>3. answer[d] = "none"
    BY <1>2 DEF CallOwns
  <2>4. CASE Malloc(w)
    <3>1. /\ wdBuf = Nothing /\ wdBuf' = d /\ heap' = {d}
          /\ pending = 0 /\ func = "idle" /\ pc[w] = "alloc"
          /\ pc' = [pc EXCEPT ![w] = "copy"]
          /\ UNCHANGED <<wdCli, content, result, pending, func, sent, call,
                         post, answer, starved>>
      BY <2>4 DEF Malloc, Goto, CallOwns, RecordOwned
    <3>2. RecordOwned'
      BY <3>1 DEF RecordOwned
    <3>3. ASSUME NEW v \in Writer PROVE CallOwns(v)'
      BY <2>2, <2>3, <3>1 DEF CallOwns, Current
    <3>4. Numbers'
      BY <2>1, <2>2, <2>3, <3>1 DEF Numbers, Current
    <3> QED
      BY <3>1, <3>2, <3>3, <3>4 DEF ReportedIsSent
  <2>5. CASE MallocFails(w)
    <3>1. /\ wdBuf = Nothing /\ wdBuf' = Nothing
          /\ pc' = [pc EXCEPT ![w] = "idle"]
          /\ answer' = [answer EXCEPT ![d] = "OK"]
          /\ starved' = starved \cup {d}
          /\ UNCHANGED <<wdCli, content, heap, result, pending, func, sent,
                         call, post>>
      BY <2>5 DEF MallocFails, Return, Goto, CallOwns
    <3>2. ASSUME NEW v \in Writer PROVE CallOwns(v)'
      BY <2>2, <3>1 DEF CallOwns, Current
    <3>3. Numbers'
      BY <2>1, <2>2, <3>1 DEF Numbers, Current
    <3>4. ReportedIsSent'
      BY <3>1 DEF ReportedIsSent
    <3> QED
      BY <3>1, <3>2, <3>3, <3>4 DEF RecordOwned
  <2>6. CASE Copy(w)
    <3>1. /\ wdBuf = d /\ pending = 0 /\ func = "idle"
          /\ content' = [content EXCEPT ![d] = d]
          /\ pc' = [pc EXCEPT ![w] = "post"] /\ pc[w] = "copy"
          /\ UNCHANGED <<wdBuf, wdCli, heap, result, pending, func, sent,
                         call, answer, starved>>
      BY <2>1, <2>6 DEF Copy, Goto, CallOwns
    <3>2. ASSUME NEW v \in Writer PROVE CallOwns(v)'
      BY <2>1, <2>2, <2>3, <3>1 DEF CallOwns, Current
    <3>3. Numbers'
      BY <2>1, <2>2, <3>1 DEF Numbers, Current
    <3> QED
      BY <3>1, <3>2, <3>3 DEF RecordOwned, ReportedIsSent
  <2>7. CASE PostSucceeds(w)
    <3>1. /\ wdBuf = d /\ pending = 0 /\ func = "idle"
          /\ content[wdBuf] = wdBuf
          /\ wdCli' = w /\ result' = "none" /\ pending' = 1
          /\ pc' = [pc EXCEPT ![w] = "poll"]
          /\ UNCHANGED <<wdBuf, content, heap, func, sent, call, post, answer,
                         starved>>
      <4>1. CallOwns(w) /\ pc[w] = "post"
        BY <2>7 DEF PostSucceeds, Prepare
      <4>2. /\ wdBuf = d /\ pending = 0 /\ func = "idle"
            /\ content[wdBuf] = wdBuf
        BY <4>1 DEF CallOwns
      <4> QED
        BY <2>7, <4>2 DEF PostSucceeds, Prepare, Goto
    <3>2. ASSUME NEW v \in Writer PROVE CallOwns(v)'
      <4>1. Current(v)' = Current(v)
        BY <3>1 DEF Current
      <4> QED
        BY <2>1, <2>2, <2>3, <3>1, <4>1 DEF CallOwns
    <3>3. Numbers'
      BY <2>1, <2>2, <3>1 DEF Numbers, Current
    <3> QED
      BY <2>1, <3>1, <3>2, <3>3 DEF RecordOwned, ReportedIsSent
  <2>8. CASE PostFails(w)
    <3>1. /\ pc[w] = "post" /\ wdCli' = w /\ pending = 0 /\ result' = "none"
          /\ UNCHANGED <<wdBuf, content, heap, pending, func, sent, pc, call,
                         answer, starved>>
      BY <2>8 DEF PostFails, Prepare, CallOwns
    <3>2. ASSUME NEW v \in Writer PROVE CallOwns(v)'
      BY <2>2, <3>1 DEF CallOwns, Current
    <3>3. Numbers'
      BY <3>1 DEF Numbers, Current
    <3> QED
      BY <3>1, <3>2, <3>3 DEF RecordOwned, ReportedIsSent
  <2>9. CASE GiveUp(w)
    <3>1. /\ pc[w] = "post" /\ pending = 0 /\ func = "idle"
          /\ wdBuf' = Nothing /\ heap' = {}
          /\ pc' = [pc EXCEPT ![w] = "idle"]
          /\ answer' = [answer EXCEPT ![d] = "MEM"]
          /\ UNCHANGED <<wdCli, content, result, pending, func, sent, call,
                         post, starved>>
      BY <2>9 DEF GiveUp, Return, Goto, CallOwns, RecordOwned
    <3>2. ASSUME NEW v \in Writer PROVE CallOwns(v)'
      BY <2>2, <3>1 DEF CallOwns, Current
    <3>3. Numbers'
      BY <2>1, <2>2, <3>1 DEF Numbers, Current
    <3>4. ReportedIsSent'
      BY <3>1 DEF ReportedIsSent
    <3> QED
      BY <3>1, <3>2, <3>3, <3>4 DEF RecordOwned
  <2>10. CASE PollDone(w) \/ PollTimeout(w)
    <3>1. PICK e \in {"OK", "CONN", "TIMEOUT"} :
              /\ answer' = [answer EXCEPT ![d] = e]
              /\ e = "OK" => <<d, w>> \in sent
      BY <2>10 DEF PollDone, PollTimeout, Return, CallOwns, RecordOwned
    <3>2. /\ pc[w] = "poll" /\ pc' = [pc EXCEPT ![w] = "idle"]
          /\ UNCHANGED <<wdBuf, wdCli, content, heap, result, pending, func,
                         sent, starved, call, post>>
      BY <2>10 DEF PollDone, PollTimeout, Return, Goto, shared
    <3>3. ASSUME NEW v \in Writer PROVE CallOwns(v)'
      BY <2>2, <3>1, <3>2 DEF CallOwns, Current
    <3>4. Numbers'
      BY <2>1, <2>2, <3>1, <3>2 DEF Numbers, Current
    <3>5. ReportedIsSent'
      BY <2>1, <3>1, <3>2 DEF ReportedIsSent
    <3> QED
      BY <3>2, <3>3, <3>4, <3>5 DEF RecordOwned
  <2>11. ~Enter(w)
    BY <1>2 DEF Enter
  <2> QED
    BY <2>4, <2>5, <2>6, <2>7, <2>8, <2>9, <2>10, <2>11 DEF Write
<1>3. CASE pc[w] = "idle"
  BY <1>1, <1>3 DEF Write, Malloc, MallocFails, Copy, PostSucceeds,
     PostFails, Prepare, GiveUp, PollDone, PollTimeout
<1> QED
  BY <1>2, <1>3

LEMMA SerialInvariant == Spec /\ []Alone => []SerialInv
<1>1. Init => SerialInv
  BY WriteAssumption
     DEF Init, SerialInv, RecordOwned, CallOwns, Numbers, ReportedIsSent, Data
<1>2. /\ TypeOK /\ CallNumbered /\ SerialInv /\ Alone /\ Alone'
      /\ [Next]_vars
      => SerialInv'
  <2> SUFFICES ASSUME TypeOK, CallNumbered, SerialInv, Alone, Alone',
                      [Next]_vars
               PROVE  SerialInv'
    OBVIOUS
  <2>1. CASE UNCHANGED vars
    BY <2>1 DEF vars, SerialInv, RecordOwned, CallOwns, Numbers,
                ReportedIsSent, Current
  <2> QED
    BY <2>1, FuncKeepsSerial, WriteKeepsSerial DEF Next
<1> QED
  BY <1>1, <1>2, TypeCorrect, PTL DEF Spec

\* As long as no two calls overlap, what a call reported as written went, as it
\* was, to the caller's connection, unless there was no memory for the copy; a
\* late callback of a call that timed out cannot disturb a later one
\* (lwip_raw_api_tcp_template.c:315-381).
THEOREM SerialWritesArrive == Spec /\ []Alone => []ReportedIsSent
BY SerialInvariant, PTL DEF SerialInv

\* As long as no two calls overlap, the give-up and the callback between them
\* free every buffer (lwip_raw_api_tcp_template.c:331, 373).
THEOREM SerialWritesFree == Spec /\ []Alone => []NoLostBuffer
<1>1. SerialInv => NoLostBuffer
  BY DEF SerialInv, RecordOwned, NoLostBuffer
<1> QED
  BY <1>1, SerialInvariant, PTL

\* As long as no two calls overlap, refused data are never sent later
\* (lwip_raw_api_tcp_template.c:339).
THEOREM SerialRefusalsHold == Spec /\ []Alone => []RefusedNotSent
<1>1. SerialInv => RefusedNotSent
  BY DEF SerialInv, Numbers, RefusedNotSent
<1> QED
  BY <1>1, SerialInvariant, PTL

\* With a single thread that writes nothing overlaps and the three promises hold
\* without a condition, for any number of calls, attempts and places in the
\* mailbox.
THEOREM OneWriterIsSafe ==
    ASSUME NEW w, Writer = {w}
    PROVE  Spec => [](ReportedIsSent /\ NoLostBuffer /\ RefusedNotSent)
<1>1. Alone
  BY DEF Alone
<1> QED
  BY <1>1, SerialWritesArrive, SerialWritesFree, SerialRefusalsHold, PTL
=============================================================================
