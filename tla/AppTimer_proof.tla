--------------------------- MODULE AppTimer_proof ---------------------------
(***************************************************************************)
(* Proofs about AppEvent and AppTimer, for tables, mailboxes and heaps of  *)
(* any size, any number of posters and users, and any periods.             *)
(***************************************************************************)
EXTENDS AppTimer, SequenceTheorems, TLAPS

-----------------------------------------------------------------------------
(* Sequences *)

Elems(s) == {s[i] : i \in DOMAIN s}
Distinct(s) == \A i, k \in DOMAIN s : s[i] = s[k] => i = k

LEMMA AppendElems ==
    ASSUME NEW S, NEW s \in Seq(S), NEW e \in S
    PROVE  /\ Append(s, e) \in Seq(S) /\ Len(Append(s, e)) = Len(s) + 1
           /\ Elems(Append(s, e)) = Elems(s) \cup {e}
           /\ Distinct(s) /\ e \notin Elems(s) => Distinct(Append(s, e))
<1>1. /\ Append(s, e) \in Seq(S) /\ Len(Append(s, e)) = Len(s) + 1
      /\ \A i \in 1..Len(s) : Append(s, e)[i] = s[i]
      /\ Append(s, e)[Len(s) + 1] = e
      /\ Len(s) \in Nat
      /\ DOMAIN s = 1..Len(s) /\ DOMAIN Append(s, e) = 1..(Len(s) + 1)
  BY AppendProperties, LenProperties
<1>2. Elems(Append(s, e)) \subseteq Elems(s) \cup {e}
  BY <1>1 DEF Elems
<1>3. Elems(s) \cup {e} \subseteq Elems(Append(s, e))
  BY <1>1 DEF Elems
<1>4. ASSUME Distinct(s), e \notin Elems(s) PROVE Distinct(Append(s, e))
  <2> SUFFICES ASSUME NEW i \in DOMAIN Append(s, e),
                      NEW k \in DOMAIN Append(s, e),
                      Append(s, e)[i] = Append(s, e)[k]
               PROVE  i = k
    BY DEF Distinct
  <2>1. \A n \in DOMAIN s : s[n] # e
    BY <1>4 DEF Elems
  <2>2. CASE i = Len(s) + 1
    BY <1>1, <2>1, <2>2
  <2>3. CASE k = Len(s) + 1
    BY <1>1, <2>1, <2>3
  <2>4. CASE i \in DOMAIN s /\ k \in DOMAIN s
    BY <1>1, <1>4, <2>4 DEF Distinct
  <2> QED
    BY <1>1, <2>2, <2>3, <2>4
<1> QED
  BY <1>1, <1>2, <1>3, <1>4

LEMMA TailElems ==
    ASSUME NEW S, NEW s \in Seq(S), s # <<>>
    PROVE  /\ Head(s) \in S /\ Tail(s) \in Seq(S)
           /\ Len(Tail(s)) = Len(s) - 1
           /\ Elems(s) = {Head(s)} \cup Elems(Tail(s))
           /\ Distinct(s) => Distinct(Tail(s)) /\ Head(s) \notin Elems(Tail(s))
<1>1. /\ Head(s) \in S /\ Tail(s) \in Seq(S)
      /\ Len(Tail(s)) = Len(s) - 1
      /\ \A i \in 1..Len(Tail(s)) : Tail(s)[i] = s[i + 1]
      /\ Len(s) \in Nat \ {0} /\ Head(s) = s[1]
      /\ DOMAIN s = 1..Len(s) /\ DOMAIN Tail(s) = 1..(Len(s) - 1)
  BY HeadTailProperties, LenProperties, EmptySeq
<1>2. ASSUME NEW e \in Elems(s) PROVE e = Head(s) \/ e \in Elems(Tail(s))
  <2>1. PICK i \in 1..Len(s) : e = s[i]
    BY <1>1 DEF Elems
  <2>2. CASE i = 1
    BY <1>1, <2>1, <2>2
  <2>3. CASE i # 1
    <3>1. i - 1 \in DOMAIN Tail(s) /\ Tail(s)[i - 1] = e
      BY <1>1, <2>1, <2>3
    <3> QED
      BY <3>1 DEF Elems
  <2> QED
    BY <2>2, <2>3
<1>3. Head(s) \in Elems(s) /\ Elems(Tail(s)) \subseteq Elems(s)
  BY <1>1 DEF Elems
<1>4. ASSUME Distinct(s)
      PROVE  Distinct(Tail(s)) /\ Head(s) \notin Elems(Tail(s))
  <2>1. ASSUME NEW i \in DOMAIN Tail(s), NEW k \in DOMAIN Tail(s),
               Tail(s)[i] = Tail(s)[k]
        PROVE  i = k
    BY <1>1, <1>4, <2>1 DEF Distinct
  <2>2. ASSUME NEW i \in DOMAIN Tail(s) PROVE Tail(s)[i] # Head(s)
    BY <1>1, <1>4 DEF Distinct
  <2> QED
    BY <2>1, <2>2 DEF Distinct, Elems
<1> QED
  BY <1>1, <1>2, <1>3, <1>4

-----------------------------------------------------------------------------
(* The mailbox *)

\* What a step of the timers is for the mailbox.
EvStep == \/ \E j \in TickJob : PostTick(j)
          \/ \E p \in Poster : Malloc(p) \/ Send(p) \/ Refuse(p)
          \/ Recv \/ Call \/ Finish \/ EvReset
          \/ UNCHANGED evVars

LEMMA EvSteps ==
    ASSUME [Next]_vars PROVE EvStep
<1>1. second_timer \in TickJob /\ feed_watchdog \in TickJob
  BY TimerAssumption
<1> QED
  BY <1>1 DEF Next, vars, EvStep, Second, Feed, Appev, Receive, Begin,
     SystemReset, Pass, Fire, Return, End, Prepare, Find, Take, SetTicks,
     SetTimeout, SetHisTime, Enable, Sets, PostReset

\* The jobs of the events that are under way are known, and appev calls a job
\* of an event that it has received.
JobsKnown ==
    /\ \A e \in Queued \cup Held \cup ({current} \ {Idle}) : job[e] \in Job
    /\ running # Idle => current # Idle

EvInv == NothingLeaks /\ JobsKnown

LEMMA EvNames ==
    /\ Idle \notin Job /\ Idle \notin Event
    /\ Idle \notin Slot /\ Idle \notin Block
    /\ \A e \in Slot : e \notin Block
    /\ Slot \subseteq Event /\ Block \subseteq Event
    /\ TickJob \subseteq Job /\ ThreadJob \subseteq Job
    /\ MailboxSize \in Nat
BY EventAssumption DEF Job, Event

\* The mailbox and its contents.
LEMMA MailboxFacts ==
    ASSUME EvTypeOK
    PROVE  /\ mailbox \in Seq(Event) /\ Len(mailbox) \in Nat
           /\ Queued = Elems(mailbox) /\ Queued \subseteq Event
           /\ Queued' = Elems(mailbox')
<1>1. mailbox \in Seq(Event)
  BY DEF EvTypeOK
<1>2. Len(mailbox) \in Nat /\ DOMAIN mailbox = 1..Len(mailbox)
  BY <1>1, LenProperties
<1>3. \A i \in 1..Len(mailbox) : mailbox[i] \in Event
  BY <1>1, ElementOfSeq
<1> QED
  BY <1>1, <1>2, <1>3 DEF Queued, Elems

LEMMA EvTypeInit ==
    ASSUME EvInit PROVE EvTypeOK
<1>1. mailbox \in Seq(Event) /\ Len(mailbox) <= MailboxSize
  BY EmptySeq, EvNames DEF EvInit
<1> QED
  BY <1>1 DEF EvInit, EvTypeOK

LEMMA EvTypeStep ==
    ASSUME EvTypeOK, EvStep PROVE EvTypeOK'
<1>0. /\ mailbox \in Seq(Event) /\ Len(mailbox) \in Nat
      /\ Len(mailbox) <= MailboxSize
  BY MailboxFacts DEF EvTypeOK
<1>1. ASSUME NEW j \in TickJob, PostTick(j) PROVE EvTypeOK'
  <2>1. CASE UNCHANGED <<enable, job, mailbox>>
    BY <1>1, <2>1 DEF PostTick, EvTypeOK
  <2>2. ASSUME NEW s \in Slot, job' = [job EXCEPT ![s] = j],
               UNCHANGED <<enable, mailbox>>
        PROVE  EvTypeOK'
    BY <1>1, <2>2, EvNames DEF PostTick, EvTypeOK
  <2>3. ASSUME NEW s \in Slot, job' = [job EXCEPT ![s] = j],
               Len(mailbox) < MailboxSize,
               enable' = [enable EXCEPT ![s] = TRUE],
               mailbox' = Append(mailbox, s)
        PROVE  EvTypeOK'
    <3>1. mailbox' \in Seq(Event) /\ Len(mailbox') <= MailboxSize
      BY <1>0, <2>3, AppendElems, EvNames
    <3> QED
      BY <1>1, <2>3, <3>1, EvNames DEF PostTick, EvTypeOK
  <2> QED
    BY <1>1, <2>1, <2>2, <2>3 DEF PostTick
<1>2. ASSUME NEW p \in Poster, Malloc(p) PROVE EvTypeOK'
  BY <1>2, EvNames DEF Malloc, EvTypeOK
<1>3. ASSUME NEW p \in Poster, Send(p) PROVE EvTypeOK'
  <2>1. inHand[p] \in Block
    BY <1>3 DEF Send, EvTypeOK
  <2>2. mailbox' \in Seq(Event) /\ Len(mailbox') <= MailboxSize
    BY <1>0, <1>3, <2>1, AppendElems, EvNames DEF Send
  <2> QED
    BY <1>3, <2>2 DEF Send, EvTypeOK
<1>4. ASSUME NEW p \in Poster, Refuse(p) PROVE EvTypeOK'
  BY <1>4 DEF Refuse, EvTypeOK
<1>5. CASE Recv
  <2>1. /\ mailbox' \in Seq(Event) /\ Len(mailbox') <= MailboxSize
        /\ current' \in Event
    BY <1>0, <1>5, TailElems, EvNames DEF Recv
  <2> QED
    BY <1>5, <2>1 DEF Recv, EvTypeOK
<1>6. CASE Call
  BY <1>6 DEF Call, EvTypeOK
<1>7. CASE Finish
  <2>1. enable' \in [Slot -> BOOLEAN]
    BY <1>7, Zenon DEF Finish, EvTypeOK
  <2> QED
    BY <1>7, <2>1 DEF Finish, EvTypeOK
<1>8. CASE EvReset
  <2>1. mailbox' \in Seq(Event) /\ Len(mailbox') <= MailboxSize
    BY <1>8, EmptySeq, EvNames DEF EvReset
  <2> QED
    BY <1>8, <2>1 DEF EvReset, EvTypeOK
<1>9. CASE UNCHANGED evVars
  BY <1>9 DEF evVars, EvTypeOK
<1> QED
  BY <1>1, <1>2, <1>3, <1>4, <1>5, <1>6, <1>7, <1>8, <1>9 DEF EvStep

\* NothingLeaks, entry by entry and block by block.
Accounts ==
    /\ \A s \in Slot : enable[s] <=> s \in Queued \/ s = current
    /\ \A b \in Block : b \in heap <=> \/ \E p \in Poster : inHand[p] = b
                                       \/ b \in Queued \/ b = current
    /\ \A p \in Poster : inHand[p] # Idle =>
          /\ inHand[p] \notin Queued /\ inHand[p] # current
          /\ \A q \in Poster : inHand[p] = inHand[q] => p = q
    /\ Distinct(mailbox) /\ current \notin Queued

LEMMA AccountsEquivalent ==
    ASSUME EvTypeOK PROVE NothingLeaks <=> Accounts
<1> USE EvNames DEF EvTypeOK
<1>1. SlotsAccounted <=> \A s \in Slot : enable[s] <=> s \in Queued \/ s = current
  <2>1. SlotsAccounted <=> \A s \in Slot : (enable[s] = TRUE) <=> s \in Queued \/ s = current
    BY Zenon DEF SlotsAccounted
  <2> QED
    BY <2>1
<1>2. heap = Held \cup ((Queued \cup {current}) \cap Block)
      <=> \A b \in Block : b \in heap <=> \/ \E p \in Poster : inHand[p] = b
                                          \/ b \in Queued \/ b = current
  BY DEF Held
<1>3. Held \cap (Queued \cup {current}) = {}
      <=> \A p \in Poster : inHand[p] # Idle =>
             inHand[p] \notin Queued /\ inHand[p] # current
  BY DEF Held
<1> QED
  BY <1>1, <1>2, <1>3 DEF NothingLeaks, BlocksAccounted, NoEventTwice, Distinct, Accounts

LEMMA EvInvInit ==
    ASSUME EvInit PROVE EvInv
<1>1. Queued = {} /\ mailbox = <<>> /\ Distinct(mailbox)
  BY DEF EvInit, Queued, Distinct
<1>2. Accounts
  BY <1>1, EvNames DEF EvInit, Accounts
<1>3. JobsKnown
  BY <1>1 DEF EvInit, JobsKnown, Held
<1> QED
  BY <1>2, <1>3, EvTypeInit, AccountsEquivalent DEF EvInv

\* Every entry and every block is accounted for after a step.
LEMMA AccountsStep ==
    ASSUME EvTypeOK, EvTypeOK', Accounts, JobsKnown, EvStep
    PROVE  Accounts'
<1> USE EvNames, MailboxFacts
<1>1. ASSUME NEW j \in TickJob, PostTick(j) PROVE Accounts'
  <2>1. CASE UNCHANGED <<enable, mailbox>>
    BY <1>1, <2>1 DEF PostTick, Accounts, Queued
  <2>2. ASSUME NEW s \in Slot, ~enable[s],
               enable' = [enable EXCEPT ![s] = TRUE],
               mailbox' = Append(mailbox, s)
        PROVE  Accounts'
    <3>1. s \notin Queued /\ s # current
      BY <2>2 DEF Accounts
    <3>2. Queued' = Queued \cup {s} /\ Distinct(mailbox')
      BY <2>2, <3>1, AppendElems DEF Accounts
    <3>3. UNCHANGED <<heap, current, inHand>>
      BY <1>1 DEF PostTick
    <3>4. \A t \in Slot : enable'[t] <=> enable[t] \/ t = s
      BY <2>2 DEF EvTypeOK
    <3>5. \A p \in Poster : inHand[p] # s
      BY DEF EvTypeOK
    <3> QED
      BY <3>1, <3>2, <3>3, <3>4, <3>5 DEF Accounts
  <2> QED
    BY <1>1, <2>1, <2>2 DEF PostTick, IsFirstFree
<1>2. ASSUME NEW p \in Poster, Malloc(p) PROVE Accounts'
  <2>1. PICK b \in Block : /\ b \notin heap /\ heap' = heap \cup {b}
                           /\ inHand' = [inHand EXCEPT ![p] = b]
    BY <1>2 DEF Malloc
  <2>2. inHand[p] = Idle /\ UNCHANGED <<enable, mailbox, current>> /\ Queued' = Queued
    BY <1>2 DEF Malloc, Queued
  <2>3. \A q \in Poster : inHand'[q] = IF q = p THEN b ELSE inHand[q]
    BY <2>1 DEF EvTypeOK
  <2> QED
    BY <2>1, <2>2, <2>3 DEF Accounts
<1>3. ASSUME NEW p \in Poster, Send(p) PROVE Accounts'
  <2>1. /\ inHand[p] \in Block /\ mailbox' = Append(mailbox, inHand[p])
        /\ UNCHANGED <<enable, heap, current>>
    BY <1>3 DEF Send, EvTypeOK
  <2>2. \A q \in Poster : inHand'[q] = IF q = p THEN Idle ELSE inHand[q]
    BY <1>3 DEF Send, EvTypeOK
  <2>3. Queued' = Queued \cup {inHand[p]} /\ Distinct(mailbox')
    BY <2>1, AppendElems DEF Accounts
  <2> QED
    BY <2>1, <2>2, <2>3 DEF Accounts
<1>4. ASSUME NEW p \in Poster, Refuse(p) PROVE Accounts'
  <2>1. /\ inHand[p] \in Block /\ heap' = heap \ {inHand[p]}
        /\ UNCHANGED <<enable, mailbox, current>> /\ Queued' = Queued
    BY <1>4 DEF Refuse, EvTypeOK, Queued
  <2>2. \A q \in Poster : inHand'[q] = IF q = p THEN Idle ELSE inHand[q]
    BY <1>4 DEF Refuse, EvTypeOK
  <2> QED
    BY <2>1, <2>2 DEF Accounts
<1>5. CASE Recv
  <2>1. /\ current = Idle /\ mailbox # <<>> /\ current' = Head(mailbox)
        /\ mailbox' = Tail(mailbox) /\ UNCHANGED <<enable, heap, inHand>>
    BY <1>5 DEF Recv
  <2>2. /\ current' \in Event /\ Queued = {current'} \cup Queued'
        /\ Distinct(mailbox') /\ current' \notin Queued'
    BY <2>1, TailElems DEF Accounts
  <2>3. \A e : e \in Queued <=> e \in Queued' \/ e = current'
    BY <2>2
  <2>4. \A s \in Slot : enable'[s] <=> s \in Queued' \/ s = current'
    BY <2>1, <2>3 DEF Accounts
  <2>5. \A b \in Block : b \in heap' <=> \/ \E p \in Poster : inHand'[p] = b
                                         \/ b \in Queued' \/ b = current'
    BY <2>1, <2>3 DEF Accounts
  <2> QED
    BY <2>1, <2>2, <2>3, <2>4, <2>5 DEF Accounts
<1>6. CASE Call
  BY <1>6 DEF Call, Accounts, Queued
<1>7. CASE Finish
  <2>1. /\ current # Idle /\ current' = Idle
        /\ heap' = heap \ {current} /\ UNCHANGED <<mailbox, inHand>>
        /\ Queued' = Queued
    BY <1>7 DEF Finish, JobsKnown, Queued
  <2>2. \A s \in Slot : enable'[s] <=> enable[s] /\ s # current
    BY <1>7 DEF Finish
  <2> QED
    BY <2>1, <2>2 DEF Accounts
<1>8. CASE EvReset
  <2>1. Queued' = {} /\ Distinct(mailbox')
    BY <1>8 DEF EvReset, Queued, Distinct
  <2> QED
    BY <1>8, <2>1 DEF EvReset, Accounts
<1>9. CASE UNCHANGED evVars
  BY <1>9 DEF evVars, Accounts, Queued
<1> QED
  BY <1>1, <1>2, <1>3, <1>4, <1>5, <1>6, <1>7, <1>8, <1>9 DEF EvStep

\* The jobs of the events under way stay what they were.
JobsKept ==
    \A e \in Queued \cup Held \cup ({current} \ {Idle}) : job'[e] = job[e]

LEMMA JobsStay ==
    ASSUME EvTypeOK, Accounts, EvStep, ~EvReset PROVE JobsKept
<1> USE EvNames, MailboxFacts
<1>1. ASSUME NEW j \in TickJob, PostTick(j) PROVE JobsKept
  <2>1. CASE UNCHANGED job
    BY <2>1 DEF JobsKept
  <2>2. ASSUME NEW s \in Slot, ~enable[s], job' = [job EXCEPT ![s] = j]
        PROVE  JobsKept
    <3>1. s \notin Queued /\ s # current /\ s \notin Held
      BY <2>2 DEF Accounts, Held, EvTypeOK
    <3>2. \A e \in Event : e # s => job'[e] = job[e]
      BY <2>2 DEF EvTypeOK
    <3> QED
      BY <3>1, <3>2 DEF JobsKept, Held, EvTypeOK
  <2> QED
    BY <1>1, <2>1, <2>2 DEF PostTick, IsFirstFree
<1>2. ASSUME NEW p \in Poster, Malloc(p) PROVE JobsKept
  <2>1. PICK b \in Block, j \in ThreadJob : b \notin heap /\ job' = [job EXCEPT ![b] = j]
    BY <1>2 DEF Malloc
  <2>2. b \notin Queued /\ b # current /\ b \notin Held
    BY <2>1 DEF Accounts, Held
  <2>3. \A e \in Event : e # b => job'[e] = job[e]
    BY <2>1 DEF EvTypeOK
  <2> QED
    BY <2>2, <2>3 DEF JobsKept, Held, EvTypeOK
<1>3. CASE UNCHANGED job
  BY <1>3 DEF JobsKept
<1> QED
  BY <1>1, <1>2, <1>3 DEF EvStep, Send, Refuse, Recv, Call, Finish, evVars

LEMMA JobsStep ==
    ASSUME EvTypeOK, Accounts, JobsKnown, EvStep PROVE JobsKnown'
<1> USE EvNames, MailboxFacts
<1>0. Held' = {inHand'[p] : p \in Poster} \ {Idle}
  BY DEF Held
<1>1. ASSUME ~EvReset, NEW j \in TickJob, PostTick(j) PROVE JobsKnown'
  <2>1. UNCHANGED <<inHand, current, running>> /\ Held' = Held
    BY <1>1 DEF PostTick, Held
  <2>2. \A e \in Queued' : e \in Queued \/ job'[e] \in Job
    <3>1. CASE mailbox' = mailbox
      BY <3>1 DEF Queued
    <3>2. ASSUME NEW s \in Slot, mailbox' = Append(mailbox, s),
                 job' = [job EXCEPT ![s] = j]
          PROVE  \A e \in Queued' : e \in Queued \/ job'[e] \in Job
      <4>1. Queued' = Queued \cup {s}
        BY <3>2, AppendElems
      <4>2. job'[s] = j
        BY <3>2 DEF EvTypeOK
      <4> QED
        BY <4>1, <4>2
    <3> QED
      BY <1>1, <3>1, <3>2 DEF PostTick
  <2>3. JobsKept
    BY <1>1, JobsStay
  <2> QED
    BY <2>1, <2>2, <2>3 DEF JobsKept, JobsKnown
<1>2. ASSUME ~EvReset, NEW p \in Poster, Malloc(p) PROVE JobsKnown'
  <2>1. PICK b \in Block, j \in ThreadJob :
           /\ inHand' = [inHand EXCEPT ![p] = b]
           /\ job' = [job EXCEPT ![b] = j]
    BY <1>2 DEF Malloc
  <2>2. UNCHANGED <<current, running>> /\ Queued' = Queued
    BY <1>2 DEF Malloc, Queued
  <2>3. Held' \subseteq Held \cup {b}
    BY <1>0, <2>1 DEF Held, EvTypeOK
  <2>4. job'[b] \in Job
    BY <2>1 DEF EvTypeOK
  <2>5. JobsKept
    BY <1>2, JobsStay
  <2> QED
    BY <2>2, <2>3, <2>4, <2>5 DEF JobsKept, JobsKnown
<1>3. ASSUME NEW p \in Poster, Send(p) PROVE JobsKnown'
  <2>1. /\ inHand[p] \in Block /\ inHand[p] \in Held
        /\ mailbox' = Append(mailbox, inHand[p])
        /\ UNCHANGED <<job, current, running>>
    BY <1>3 DEF Send, EvTypeOK, Held
  <2>2. Queued' = Queued \cup {inHand[p]}
    BY <2>1, AppendElems
  <2>3. Held' \subseteq Held
    BY <1>0, <1>3 DEF Send, Held, EvTypeOK
  <2> QED
    BY <2>1, <2>2, <2>3 DEF JobsKnown
<1>4. ASSUME NEW p \in Poster, Refuse(p) PROVE JobsKnown'
  <2>1. UNCHANGED <<job, current, running>> /\ Queued' = Queued
    BY <1>4 DEF Refuse, Queued
  <2>2. Held' \subseteq Held
    BY <1>0, <1>4 DEF Refuse, Held, EvTypeOK
  <2> QED
    BY <2>1, <2>2 DEF JobsKnown
<1>5. CASE Recv
  <2>1. /\ current = Idle /\ mailbox # <<>> /\ current' = Head(mailbox)
        /\ mailbox' = Tail(mailbox) /\ UNCHANGED <<job, inHand, running>>
        /\ Held' = Held
    BY <1>5 DEF Recv, Held
  <2>2. Queued = {current'} \cup Queued'
    BY <2>1, TailElems
  <2> QED
    BY <2>1, <2>2 DEF JobsKnown
<1>6. CASE Call
  BY <1>6 DEF Call, JobsKnown, Queued, Held
<1>7. CASE Finish
  BY <1>7 DEF Finish, JobsKnown, Queued, Held
<1>8. CASE EvReset
  <2>1. Queued' = {}
    BY <1>8 DEF EvReset, Queued
  <2> QED
    BY <1>0, <1>8, <2>1 DEF EvReset, JobsKnown
<1>9. CASE UNCHANGED evVars
  BY <1>9 DEF evVars, JobsKnown, Queued, Held
<1> QED
  BY <1>1, <1>2, <1>3, <1>4, <1>5, <1>6, <1>7, <1>8, <1>9 DEF EvStep

\* The mailbox loses and shares nothing, whatever runs on top of it.
LEMMA EvInvStep ==
    ASSUME EvTypeOK, EvInv, EvStep PROVE EvTypeOK' /\ EvInv'
<1>1. Accounts /\ JobsKnown
  BY AccountsEquivalent DEF EvInv
<1>2. EvTypeOK' /\ Accounts' /\ JobsKnown'
  BY <1>1, EvTypeStep, AccountsStep, JobsStep
<1>3. NothingLeaks' <=> Accounts'
  BY <1>2, AccountsEquivalent, PTL
<1> QED
  BY <1>2, <1>3 DEF EvInv

LEMMA EvInvariant == Spec => [](EvTypeOK /\ EvInv)
<1>1. Init => EvTypeOK /\ EvInv
  BY EvTypeInit, EvInvInit DEF Init
<1>2. EvTypeOK /\ EvInv /\ [Next]_vars => (EvTypeOK /\ EvInv)'
  BY EvSteps, EvInvStep
<1> QED
  BY <1>1, <1>2, PTL DEF Spec

\* app_ev.c:29,39,58,70-83,165,176: entries of the table and blocks of the
\* heap neither leak nor are shared, for a table, a mailbox and a heap of any
\* size and any number of posters.
THEOREM EventsAreAccountedFor == Spec => []NothingLeaks
BY EvInvariant, PTL DEF EvInv

-----------------------------------------------------------------------------
(* Timers *)

\* The parts of TypeOK that are about the timers; a function is called while
\* second_timer looks at an entry.
Timer == [alloc : BOOLEAN, enable : BOOLEAN, ticks : Nat,
          timeout : User \cup {Idle}, age : 0..MaxAge]
Timers == timer \in [Entry -> Timer]
Users == /\ pc \in [User -> Stage] /\ mine \in [User -> Entry \cup {0}]
         /\ since \in [User -> 0..MaxAge]
Scan == /\ scan \in 0..(Entries + 1) /\ calling \in User \cup {Idle}
        /\ calling # Idle => scan \in Entry /\ running = second_timer

LEMMA TimerNumbers ==
    /\ Ticks \in [User -> Nat] /\ Entries \in Nat /\ MaxAge \in Nat
    /\ Idle \notin User /\ Idle # second_timer
BY TimerAssumption, EventAssumption DEF Job

LEMMA OlderInRange == \A n \in 0..MaxAge : Older(n) \in 0..MaxAge
BY TimerNumbers DEF Older

LEMMA TimersStep ==
    ASSUME Timers, Users, [Next]_vars PROVE Timers'
<1> USE TimerNumbers
<1>1. CASE UNCHANGED timer
  BY <1>1 DEF Timers
<1>2. CASE Second
  <2>1. \A i \in Entry : [timer[i] EXCEPT !.age = Older(@)] \in Timer
    BY OlderInRange DEF Timers, Timer
  <2> QED
    BY <1>2, <2>1 DEF Second, Timers
<1>3. CASE timer' = [i \in Entry |-> NoTimer]
  <2>1. NoTimer \in Timer
    BY DEF NoTimer, Timer
  <2> QED
    BY <1>3, <2>1 DEF Timers
<1>4. ASSUME NEW u \in User, NEW e, timer' = [timer EXCEPT ![mine[u]] = e],
             mine[u] \in Entry => e \in Timer
      PROVE  Timers'
  BY <1>4 DEF Timers
<1>5. ASSUME NEW u \in User, Prepare(u) PROVE Timers'
  <2>1. CASE Find(u)
    BY <1>1, <2>1 DEF Find
  <2>2. CASE Take(u)
    <3>1. mine[u] \in Entry => [timer[mine[u]] EXCEPT !.alloc = TRUE] \in Timer
      BY DEF Timers, Timer
    <3> QED
      BY <1>4, <2>2, <3>1 DEF Take, Sets
  <2>3. CASE SetTicks(u)
    <3>1. mine[u] \in Entry => [timer[mine[u]] EXCEPT !.ticks = Ticks[u]] \in Timer
      BY DEF Timers, Timer
    <3> QED
      BY <1>4, <2>3, <3>1 DEF SetTicks, Sets
  <2>4. CASE SetTimeout(u)
    <3>1. mine[u] \in Entry => [timer[mine[u]] EXCEPT !.timeout = u] \in Timer
      BY DEF Timers, Timer
    <3> QED
      BY <1>4, <2>4, <3>1 DEF SetTimeout, Sets
  <2>5. CASE SetHisTime(u)
    <3>1. \A i \in Entry : [timer[i] EXCEPT !.age = 0] \in Timer
      BY DEF Timers, Timer
    <3>2. timer' = [timer EXCEPT ![mine[u]] = [timer[mine[u]] EXCEPT !.age = 0]]
      BY <2>5 DEF SetHisTime, Timers
    <3> QED
      BY <1>4, <3>1, <3>2
  <2>6. CASE Enable(u)
    <3>1. mine[u] \in Entry => [timer[mine[u]] EXCEPT !.enable = TRUE] \in Timer
      BY DEF Timers, Timer
    <3> QED
      BY <1>4, <2>6, <3>1 DEF Enable, Sets
  <2> QED
    BY <1>5, <2>1, <2>2, <2>3, <2>4, <2>5, <2>6 DEF Prepare
<1>6. CASE Fire
  <2>1. \A i \in Entry : [timer[i] EXCEPT !.age = 0] \in Timer
    BY DEF Timers, Timer
  <2> QED
    BY <1>6, <2>1 DEF Fire, Looking, Timers
<1> QED
  BY <1>1, <1>2, <1>3, <1>5, <1>6 DEF Next, vars, Feed, Appev, Receive, Begin,
     SystemReset, Pass, Return, End, PostReset

LEMMA UsersStep ==
    ASSUME Users, [Next]_vars PROVE Users'
<1> USE TimerNumbers DEF Users
<1>1. CASE UNCHANGED <<pc, mine, since>>
  BY <1>1
<1>2. CASE Second
  BY <1>2, OlderInRange DEF Second
<1>3. CASE SystemReset
  BY <1>3 DEF SystemReset, Stage
<1>4. ASSUME NEW u \in User, Prepare(u) PROVE Users'
  BY <1>4 DEF Prepare, Find, Take, SetTicks, SetTimeout, SetHisTime, Enable,
     Sets, At, Stage
<1>5. CASE Fire
  <2>1. PICK c : since' = [since EXCEPT ![c] = 0]
    BY <1>5 DEF Fire
  <2>2. UNCHANGED <<pc, mine>>
    BY <1>5 DEF Fire
  <2>3. since' = [u \in User |-> IF u = c THEN 0 ELSE since[u]]
    BY <2>1, Zenon
  <2>4. 0 \in 0..MaxAge
    OBVIOUS
  <2>5. since' \in [User -> 0..MaxAge]
    BY <2>3, <2>4, Zenon
  <2> QED
    BY <2>2, <2>5
<1> QED
  BY <1>1, <1>2, <1>3, <1>4, <1>5 DEF Next, vars, Feed, Appev, Receive, Begin,
     Pass, Return, End, PostReset

LEMMA ScanStep ==
    ASSUME Timers, Scan, [Next]_vars PROVE Scan'
<1> USE TimerNumbers DEF Scan, Entry
<1>1. CASE UNCHANGED <<scan, calling, running>>
  BY <1>1
<1>2. CASE SystemReset
  BY <1>2 DEF SystemReset
<1>3. CASE Begin
  BY <1>3 DEF Begin, Call
<1>4. CASE Pass
  BY <1>4 DEF Pass, Looking, evVars
<1>5. CASE Fire
  BY <1>5 DEF Fire, Looking, Timers, Timer, evVars
<1>6. CASE Return
  BY <1>6 DEF Return, evVars
<1>7. CASE End
  BY <1>7 DEF End, Finish
<1> QED
  BY <1>1, <1>2, <1>3, <1>4, <1>5, <1>6, <1>7 DEF Next, vars, Second, Feed,
     Appev, Receive, PostReset, Prepare, Find, Take, SetTicks, SetTimeout,
     SetHisTime, Enable, Sets, PostTick, Recv, Malloc, Send, Refuse, evVars

LEMMA TypeInvariant == Spec => [](EvTypeOK /\ EvInv /\ Timers /\ Users /\ Scan)
<1>1. Init => Timers /\ Users /\ Scan
  <2> SUFFICES ASSUME Init PROVE Timers /\ Users /\ Scan
    OBVIOUS
  <2>1. NoTimer \in Timer
    BY TimerNumbers DEF NoTimer, Timer
  <2>2. Timers
    BY <2>1 DEF Init, Timers
  <2>3. Users /\ Scan
    BY TimerNumbers DEF Init, Users, Scan, Stage
  <2> QED
    BY <2>2, <2>3
<1>2. Timers /\ Users /\ Scan /\ [Next]_vars => (Timers /\ Users /\ Scan)'
  BY TimersStep, UsersStep, ScanStep
<1> QED
  BY <1>1, <1>2, EvInvariant, PTL DEF Spec

\* app_ev.c and app_timer.c: every variable keeps its type, for every table
\* and mailbox; __timerout_in stays within its table.
THEOREM TypeCorrect == Spec => []TypeOK
<1>1. EvTypeOK /\ Timers /\ Users /\ Scan => TypeOK
  BY DEF TypeOK, Timers, Timer, Users, Scan
<1> QED
  BY <1>1, TypeInvariant, PTL

\* A user that goes on has found an entry.
Placed == \A u \in User : IF pc[u] = "find" THEN mine[u] = 0
                          ELSE mine[u] \in Entry

\* What an entry that is enabled, or names a function, says of its user.
EntryOwned(i) ==
    /\ timer[i].enable => \E u \in User : mine[u] = i /\ pc[u] = "done"
    /\ \A u \in User : timer[i].timeout = u =>
          mine[u] = i /\ pc[u] \in {"his_time", "enable", "done"}

\* What a user finds in its entry that it has written.
EntryWritten(u) ==
    /\ pc[u] \in {"timeout", "his_time", "enable", "done"} =>
          timer[mine[u]].ticks = Ticks[u]
    /\ pc[u] \in {"his_time", "enable", "done"} => timer[mine[u]].timeout = u
    /\ pc[u] \in {"enable", "done"} => timer[mine[u]].age = since[u]

Private == /\ \A i \in Entry : EntryOwned(i)
           /\ \A u \in User : EntryWritten(u)

\* While no two users have taken one entry, every entry is its user's own.
TimerInv == Placed /\ (~Shared => Private)

LEMMA PlacedStep ==
    ASSUME Users, Placed, [Next]_vars PROVE Placed'
<1>1. CASE UNCHANGED <<pc, mine>>
  BY <1>1 DEF Placed
<1>2. CASE SystemReset
  BY <1>2 DEF SystemReset, Placed
<1>3. ASSUME NEW u \in User, Prepare(u) PROVE Placed'
  <2>1. CASE Find(u)
    BY <2>1 DEF Find, At, Users, Placed
  <2>2. CASE ~Find(u)
    <3>1. /\ pc[u] # "find" /\ UNCHANGED mine
          /\ \E t \in Stage \ {"find"} : pc' = [pc EXCEPT ![u] = t]
      BY <1>3, <2>2 DEF Prepare, Take, SetTicks, SetTimeout, SetHisTime, Enable,
         Sets, At, Stage
    <3> QED
      BY <3>1 DEF Users, Placed
  <2> QED
    BY <2>1, <2>2
<1> QED
  BY <1>1, <1>2, <1>3 DEF Next, vars, Second, Feed, Appev, Receive, Begin, Pass,
     Fire, Return, End, PostReset

\* An entry that is shared stays shared until the processor is reset.
LEMMA SharedStays ==
    ASSUME Users, Placed, Shared, [Next]_vars, ~SystemReset PROVE Shared'
<1>1. CASE UNCHANGED mine
  BY <1>1 DEF Shared
<1>2. ASSUME NEW w \in User, Find(w) PROVE Shared'
  <2>1. PICK u \in User, v \in User : u # v /\ mine[u] = mine[v] /\ mine[u] # 0
    BY DEF Shared
  <2>2. mine[w] = 0 /\ \A x \in User : x # w => mine'[x] = mine[x]
    BY <1>2 DEF Find, At, Users, Placed
  <2> QED
    BY <2>1, <2>2 DEF Shared
<1> QED
  BY <1>1, <1>2 DEF Next, vars, Second, Feed, Appev, Receive, Begin, Pass, Fire,
     Return, End, PostReset, Prepare, Take, SetTicks, SetTimeout, SetHisTime,
     Enable, Sets

\* The user u writes its entry and goes from one statement to the next.
LEMMA PrivateWrite ==
    ASSUME Timers, Users, Placed, ~Shared, Private,
           NEW u \in User, NEW e \in Timer, NEW t \in Stage \ {"find"},
           pc[u] # "find", pc' = [pc EXCEPT ![u] = t], UNCHANGED mine,
           timer' = [timer EXCEPT ![mine[u]] = e],
           \A v \in User : v # u => since'[v] = since[v],
           e.enable => t = "done" \/ (timer[mine[u]].enable /\ pc[u] # "done"),
           e.timeout \in User => \/ e.timeout = u /\ t \in {"his_time", "enable", "done"}
                                 \/ /\ e.timeout = timer[mine[u]].timeout
                                    /\ e.timeout # u,
           t \in {"timeout", "his_time", "enable", "done"} => e.ticks = Ticks[u],
           t \in {"his_time", "enable", "done"} => e.timeout = u,
           t \in {"enable", "done"} => e.age = since'[u]
    PROVE  Private'
<1>1. mine[u] \in Entry /\ \A v \in User : v # u => mine[v] # mine[u]
  BY TimerNumbers DEF Placed, Shared, Entry
<1>2. /\ pc'[u] = t /\ \A v \in User : v # u => pc'[v] = pc[v]
      /\ timer'[mine[u]] = e
      /\ \A i \in Entry : i # mine[u] => timer'[i] = timer[i]
  BY <1>1 DEF Users, Timers
<1>3. ASSUME NEW i \in Entry PROVE EntryOwned(i)'
  <2>0. EntryOwned(i)
    BY DEF Private
  <2>1. CASE i # mine[u]
    BY <1>1, <1>2, <2>0, <2>1 DEF EntryOwned
  <2>2. CASE i = mine[u]
    BY <1>1, <1>2, <2>0, <2>2 DEF EntryOwned
  <2> QED
    BY <2>1, <2>2
<1>4. ASSUME NEW v \in User PROVE EntryWritten(v)'
  <2>0. EntryWritten(v) /\ (pc[v] # "find" => mine[v] \in Entry)
    BY DEF Private, Placed
  <2>1. CASE v = u
    BY <1>1, <1>2, <2>1 DEF EntryWritten
  <2>2. CASE v # u
    BY <1>1, <1>2, <2>0, <2>2 DEF EntryWritten
  <2> QED
    BY <2>1, <2>2
<1> QED
  BY <1>3, <1>4 DEF Private

LEMMA PrivateStep ==
    ASSUME Timers, Users, Scan, TimerInv, [Next]_vars, ~Shared'
    PROVE  Private'
<1> USE TimerNumbers
<1>1. CASE SystemReset
  <2>1. /\ \A i \in Entry : timer'[i] = NoTimer
        /\ \A u \in User : pc'[u] = "find"
    BY <1>1 DEF SystemReset
  <2> QED
    BY <2>1 DEF Private, EntryOwned, EntryWritten, NoTimer
<1> SUFFICES ASSUME ~SystemReset PROVE Private'
  BY <1>1
<1>2. Placed /\ ~Shared /\ Private
  BY SharedStays DEF TimerInv
<1>3. CASE UNCHANGED <<timer, pc, mine, since>>
  BY <1>2, <1>3 DEF Private, EntryOwned, EntryWritten
<1>4. CASE Second
  <2>1. UNCHANGED <<pc, mine>>
    BY <1>4 DEF Second
  <2>2. \A u \in User : since'[u] = Older(since[u])
    BY <1>4 DEF Second
  <2>3. \A i \in Entry : /\ timer'[i].alloc = timer[i].alloc
                         /\ timer'[i].enable = timer[i].enable
                         /\ timer'[i].ticks = timer[i].ticks
                         /\ timer'[i].timeout = timer[i].timeout
                         /\ timer'[i].age = Older(timer[i].age)
    BY <1>4 DEF Second, Timers, Timer
  <2>4. ASSUME NEW i \in Entry PROVE EntryOwned(i)'
    BY <1>2, <2>1, <2>3 DEF Private, EntryOwned
  <2>5. ASSUME NEW u \in User PROVE EntryWritten(u)'
    <3>1. EntryWritten(u) /\ (pc[u] # "find" => mine[u] \in Entry)
      BY <1>2 DEF Private, Placed
    <3> QED
      BY <2>1, <2>2, <2>3, <3>1 DEF EntryWritten
  <2> QED
    BY <2>4, <2>5 DEF Private
<1>5. ASSUME NEW u \in User, Prepare(u) PROVE Private'
  <2>0. EntryWritten(u)
    BY <1>2 DEF Private
  <2>1. CASE Find(u)
    <3>1. /\ pc[u] = "find" /\ pc'[u] = "take" /\ UNCHANGED <<timer, since>>
          /\ \A v \in User : v # u => pc'[v] = pc[v] /\ mine'[v] = mine[v]
      BY <2>1 DEF Find, At, Users
    <3>2. ASSUME NEW i \in Entry PROVE EntryOwned(i)'
      BY <1>2, <3>1 DEF Private, EntryOwned
    <3>3. ASSUME NEW v \in User PROVE EntryWritten(v)'
      BY <1>2, <3>1 DEF Private, EntryWritten
    <3> QED
      BY <3>2, <3>3 DEF Private
  <2> SUFFICES ASSUME ~Find(u) PROVE Private'
    BY <2>1
  <2>2. pc[u] # "find"
    BY <1>5 DEF Prepare, Take, SetTicks, SetTimeout, SetHisTime, Enable, Sets, At
  <2>3. mine[u] \in Entry /\ timer[mine[u]] \in Timer /\ EntryOwned(mine[u])
    BY <1>2, <2>2 DEF Private, Placed, Timers
  <2>4. timer[mine[u]].enable => pc[u] = "done"
    BY <1>2, <2>3 DEF EntryOwned, Shared, Entry
  <2>5. \A v \in User : timer[mine[u]].timeout = v => v = u
    BY <1>2, <2>3 DEF EntryOwned, Shared, Entry
  <2>6. CASE Take(u)
    <3> DEFINE e == [timer[mine[u]] EXCEPT !.alloc = TRUE]
    <3>1. /\ e \in Timer /\ e.enable = timer[mine[u]].enable
          /\ e.timeout = timer[mine[u]].timeout
      BY <2>3 DEF Timer
    <3>2. /\ pc[u] = "take" /\ pc' = [pc EXCEPT ![u] = "ticks"]
          /\ timer' = [timer EXCEPT ![mine[u]] = e] /\ UNCHANGED <<mine, since>>
      BY <2>6 DEF Take, Sets, At
    <3>3. timer[mine[u]].timeout # u
      BY <2>3, <3>2 DEF EntryOwned
    <3> HIDE DEF e
    <3> QED
      BY <1>2, <2>3, <2>4, <2>5, <3>1, <3>2, <3>3, PrivateWrite DEF Stage
  <2>7. CASE SetTicks(u)
    <3> DEFINE e == [timer[mine[u]] EXCEPT !.ticks = Ticks[u]]
    <3>1. /\ e \in Timer /\ e.enable = timer[mine[u]].enable
          /\ e.timeout = timer[mine[u]].timeout /\ e.ticks = Ticks[u]
      BY <2>3 DEF Timer
    <3>2. /\ pc[u] = "ticks" /\ pc' = [pc EXCEPT ![u] = "timeout"]
          /\ timer' = [timer EXCEPT ![mine[u]] = e] /\ UNCHANGED <<mine, since>>
      BY <2>7 DEF SetTicks, Sets, At
    <3>3. timer[mine[u]].timeout # u
      BY <2>3, <3>2 DEF EntryOwned
    <3> HIDE DEF e
    <3> QED
      BY <1>2, <2>3, <2>4, <2>5, <3>1, <3>2, <3>3, PrivateWrite DEF Stage
  <2>8. CASE SetTimeout(u)
    <3> DEFINE e == [timer[mine[u]] EXCEPT !.timeout = u]
    <3>1. /\ e \in Timer /\ e.enable = timer[mine[u]].enable
          /\ e.timeout = u /\ e.ticks = timer[mine[u]].ticks
      BY <2>3 DEF Timer
    <3>2. /\ pc[u] = "timeout" /\ pc' = [pc EXCEPT ![u] = "his_time"]
          /\ timer' = [timer EXCEPT ![mine[u]] = e] /\ UNCHANGED <<mine, since>>
      BY <2>8 DEF SetTimeout, Sets, At
    <3>3. e.ticks = Ticks[u]
      BY <2>0, <3>1, <3>2 DEF EntryWritten
    <3> HIDE DEF e
    <3> QED
      BY <1>2, <2>3, <2>4, <3>1, <3>2, <3>3, PrivateWrite DEF Stage
  <2>9. CASE SetHisTime(u)
    <3> DEFINE e == [timer[mine[u]] EXCEPT !.age = 0]
    <3>1. /\ e \in Timer /\ e.enable = timer[mine[u]].enable /\ e.age = 0
          /\ e.timeout = timer[mine[u]].timeout
          /\ e.ticks = timer[mine[u]].ticks
      BY <2>3 DEF Timer
    <3>2. /\ pc[u] = "his_time" /\ pc' = [pc EXCEPT ![u] = "enable"]
          /\ timer' = [timer EXCEPT ![mine[u]] = e] /\ UNCHANGED mine
          /\ since'[u] = 0 /\ \A v \in User : v # u => since'[v] = since[v]
      BY <2>9 DEF SetHisTime, At, Timers, Users
    <3>3. e.ticks = Ticks[u] /\ e.timeout = u
      BY <2>0, <3>1, <3>2 DEF EntryWritten
    <3> HIDE DEF e
    <3> QED
      BY <1>2, <2>3, <2>4, <3>1, <3>2, <3>3, PrivateWrite DEF Stage
  <2>10. CASE Enable(u)
    <3> DEFINE e == [timer[mine[u]] EXCEPT !.enable = TRUE]
    <3>1. /\ e \in Timer /\ e.age = timer[mine[u]].age
          /\ e.timeout = timer[mine[u]].timeout
          /\ e.ticks = timer[mine[u]].ticks
      BY <2>3 DEF Timer
    <3>2. /\ pc[u] = "enable" /\ pc' = [pc EXCEPT ![u] = "done"]
          /\ timer' = [timer EXCEPT ![mine[u]] = e] /\ UNCHANGED <<mine, since>>
      BY <2>10 DEF Enable, Sets, At
    <3>3. e.ticks = Ticks[u] /\ e.timeout = u /\ e.age = since'[u]
      BY <2>0, <3>1, <3>2 DEF EntryWritten
    <3> HIDE DEF e
    <3> QED
      BY <1>2, <2>3, <3>1, <3>2, <3>3, PrivateWrite DEF Stage
  <2> QED
    BY <1>5, <2>6, <2>7, <2>8, <2>9, <2>10 DEF Prepare
<1>6. CASE Fire
  <2>1. scan \in Entry /\ timer[scan] \in Timer /\ timer[scan].enable
    BY <1>6 DEF Fire, Looking, Due, Timers
  <2>2. PICK u \in User : mine[u] = scan /\ pc[u] = "done"
    BY <1>2, <2>1 DEF Private, EntryOwned
  <2>3. timer[scan].timeout = u
    BY <1>2, <2>2 DEF Private, EntryWritten
  <2>4. /\ UNCHANGED <<pc, mine>> /\ since' = [since EXCEPT ![u] = 0]
        /\ timer' = [timer EXCEPT ![scan] = [timer[scan] EXCEPT !.age = 0]]
    BY <1>6, <2>3 DEF Fire
  <2>5. /\ since'[u] = 0 /\ \A v \in User : v # u => since'[v] = since[v]
        /\ \A i \in Entry : i # scan => timer'[i] = timer[i]
        /\ timer'[scan].age = 0
        /\ timer'[scan].enable = timer[scan].enable
        /\ timer'[scan].timeout = timer[scan].timeout
        /\ timer'[scan].ticks = timer[scan].ticks
    BY <2>1, <2>4 DEF Users, Timers, Timer
  <2>6. ASSUME NEW i \in Entry PROVE EntryOwned(i)'
    BY <1>2, <2>4, <2>5 DEF Private, EntryOwned
  <2>7. ASSUME NEW v \in User PROVE EntryWritten(v)'
    <3>1. EntryWritten(v) /\ (pc[v] # "find" => mine[v] \in Entry)
      BY <1>2 DEF Private, Placed
    <3>2. CASE v = u
      BY <2>2, <2>4, <2>5, <3>1, <3>2 DEF EntryWritten
    <3>3. CASE v # u
      <4>1. mine[v] # scan
        BY <1>2, <2>1, <2>2, <3>3 DEF Shared, Entry
      <4> QED
        BY <2>4, <2>5, <3>1, <3>3, <4>1 DEF EntryWritten
    <3> QED
      BY <3>2, <3>3
  <2> QED
    BY <2>6, <2>7 DEF Private
<1> QED
  BY <1>3, <1>4, <1>5, <1>6 DEF Next, vars, Feed, Appev, Receive, Begin, Pass,
     Return, End, PostReset

\* A function that is called is due, and due means late enough.
LEMMA FireIsDue ==
    ASSUME Timers, Users, Scan, TimerInv, [Next]_vars,
           NEW u \in User, calling' = u, calling # u
    PROVE  since[u] > Ticks[u] \/ Shared
<1>1. Fire
  BY TimerNumbers DEF Next, vars, Second, Feed, Appev, Receive, Begin,
     SystemReset, Pass, Return, End, Prepare, Find, Take, SetTicks, SetTimeout,
     SetHisTime, Enable, Sets, PostReset
<1>2. CASE ~Shared
  <2>1. /\ scan \in Entry /\ timer[scan].timeout = u
        /\ timer[scan].age > timer[scan].ticks /\ timer[scan].enable
    BY <1>1 DEF Fire, Looking, Due
  <2>2. EntryOwned(scan) /\ EntryWritten(u)
    BY <1>2, <2>1 DEF TimerInv, Private
  <2>3. PICK v \in User : mine[v] = scan /\ pc[v] = "done"
    BY <2>1, <2>2 DEF EntryOwned
  <2>4. EntryWritten(v)
    BY <1>2 DEF TimerInv, Private
  <2>5. v = u
    BY <2>1, <2>3, <2>4 DEF EntryWritten
  <2> QED
    BY <2>1, <2>3, <2>4, <2>5 DEF EntryWritten
<1> QED
  BY <1>2

\* app_timer.c:64-67,141-145: a function is called only after more than its
\* period has passed since its timer was started or last called, for any
\* number of users and entries, unless two users have taken one entry.
THEOREM NoTimerIsEarly == Spec => NotEarly
<1> DEFINE Late == \A u \in User : calling' = u /\ calling # u =>
                       since[u] > Ticks[u] \/ Shared
<1>1. Init => TimerInv
  BY TimerNumbers DEF Init, TimerInv, Placed, Private, EntryOwned, EntryWritten,
     NoTimer
<1>2. Timers /\ Users /\ Scan /\ TimerInv /\ [Next]_vars => TimerInv'
  BY PlacedStep, PrivateStep DEF TimerInv
<1>3. Timers /\ Users /\ Scan /\ TimerInv /\ [Next]_vars => [Late]_vars
  BY FireIsDue
<1> QED
  BY <1>1, <1>2, <1>3, TypeInvariant, PTL DEF Spec, NotEarly

-----------------------------------------------------------------------------
(* The queue of jobs that the mailbox implements *)

\* The jobs of a sequence of events, and the sequence EventQueue sees.
JobsOf(m) == [i \in DOMAIN m |-> job[m[i]]]
First == IF current # Idle /\ running = Idle THEN <<job[current]>> ELSE <<>>
Waiting == First \o JobsOf(mailbox)

LEMMA MapAppend ==
    ASSUME NEW S, NEW T, NEW f, NEW s \in Seq(S), NEW e \in S,
           \A x \in S : f[x] \in T
    PROVE  [i \in DOMAIN Append(s, e) |-> f[Append(s, e)[i]]] =
           Append([i \in DOMAIN s |-> f[s[i]]], f[e])
<1> DEFINE a == Append(s, e)
           m == [i \in DOMAIN s |-> f[s[i]]]
           l == [i \in DOMAIN a |-> f[a[i]]]
<1>1. /\ a \in Seq(S) /\ Len(a) = Len(s) + 1 /\ Len(s) \in Nat
      /\ \A i \in 1..Len(s) : a[i] = s[i] /\ s[i] \in S
      /\ a[Len(s) + 1] = e
      /\ DOMAIN s = 1..Len(s) /\ DOMAIN a = 1..(Len(s) + 1)
  BY AppendProperties, LenProperties, ElementOfSeq
<1>2. m \in Seq(T) /\ Len(m) = Len(s)
  BY <1>1
<1>3. l \in Seq(T) /\ Len(l) = Len(s) + 1
  BY <1>1
<1>4. /\ Append(m, f[e]) \in Seq(T) /\ Len(Append(m, f[e])) = Len(s) + 1
      /\ \A i \in 1..Len(s) : Append(m, f[e])[i] = m[i]
      /\ Append(m, f[e])[Len(s) + 1] = f[e]
  BY <1>2, AppendProperties
<1>5. ASSUME NEW i \in 1..(Len(s) + 1) PROVE l[i] = Append(m, f[e])[i]
  BY <1>1, <1>4
<1> HIDE DEF l, m, a
<1>6. l = Append(m, f[e])
  BY <1>3, <1>4, <1>5, SeqEqual
<1> QED
  BY <1>6 DEF l, m, a

LEMMA MapTail ==
    ASSUME NEW S, NEW T, NEW f, NEW s \in Seq(S), s # <<>>,
           \A x \in S : f[x] \in T
    PROVE  [i \in DOMAIN s |-> f[s[i]]] =
           <<f[Head(s)]>> \o [i \in DOMAIN Tail(s) |-> f[Tail(s)[i]]]
<1> DEFINE m == [i \in DOMAIN s |-> f[s[i]]]
           l == [i \in DOMAIN Tail(s) |-> f[Tail(s)[i]]]
<1>1. /\ Head(s) \in S /\ Head(s) = s[1]
      /\ Len(Tail(s)) = Len(s) - 1 /\ Len(s) \in Nat \ {0}
      /\ \A i \in 1..Len(s) : s[i] \in S
      /\ \A i \in 1..(Len(s) - 1) : Tail(s)[i] = s[i + 1]
      /\ DOMAIN s = 1..Len(s) /\ DOMAIN Tail(s) = 1..(Len(s) - 1)
  BY HeadTailProperties, LenProperties, ElementOfSeq, EmptySeq
<1>2. m \in Seq(T) /\ Len(m) = Len(s)
  BY <1>1
<1>3. l \in Seq(T) /\ Len(l) = Len(s) - 1
  BY <1>1
<1>4. <<f[Head(s)]>> \in Seq(T) /\ Len(<<f[Head(s)]>>) = 1
  BY <1>1
<1>5. /\ <<f[Head(s)]>> \o l \in Seq(T) /\ Len(<<f[Head(s)]>> \o l) = Len(s)
      /\ \A i \in 1..Len(s) : (<<f[Head(s)]>> \o l)[i] =
            IF i <= 1 THEN f[Head(s)] ELSE l[i - 1]
  BY <1>1, <1>3, <1>4, ConcatProperties
<1>6. ASSUME NEW i \in 1..Len(s) PROVE m[i] = (<<f[Head(s)]>> \o l)[i]
  <2>1. CASE i = 1
    BY <1>1, <1>5, <2>1
  <2>2. CASE i # 1
    BY <1>1, <1>5, <2>2
  <2> QED
    BY <2>1, <2>2
<1> HIDE DEF l, m
<1>7. m = <<f[Head(s)]>> \o l
  BY <1>2, <1>5, <1>6, SeqEqual
<1> QED
  BY <1>7 DEF l, m

LEMMA PrefixAppend ==
    ASSUME NEW T, NEW s \in Seq(T), NEW x \in Seq(T), NEW e \in T
    PROVE  x \o Append(s, e) = Append(x \o s, e)
<1>1. Append(s, e) = s \o <<e>> /\ <<e>> \in Seq(T) /\ x \o s \in Seq(T)
  BY AppendIsConcat, ConcatProperties
<1>2. Append(x \o s, e) = (x \o s) \o <<e>>
  BY <1>1, AppendIsConcat
<1> QED
  BY <1>1, <1>2, ConcatAssociative

LEMMA HeadTailOfPrefix ==
    ASSUME NEW T, NEW s \in Seq(T), NEW e \in T
    PROVE  /\ <<e>> \o s # <<>>
           /\ Head(<<e>> \o s) = e /\ Tail(<<e>> \o s) = s
<1>1. /\ <<e>> \in Seq(T) /\ <<e>> \o s \in Seq(T)
      /\ Len(<<e>> \o s) = 1 + Len(s) /\ Len(s) \in Nat
      /\ \A i \in 1..(1 + Len(s)) : (<<e>> \o s)[i] =
            IF i <= 1 THEN e ELSE s[i - 1]
  BY ConcatProperties, LenProperties
<1>2. <<e>> \o s # <<>>
  BY <1>1, EmptySeq
<1>3. /\ Tail(<<e>> \o s) \in Seq(T) /\ Len(Tail(<<e>> \o s)) = Len(s)
      /\ \A i \in 1..Len(s) : Tail(<<e>> \o s)[i] = (<<e>> \o s)[i + 1]
  BY <1>1, <1>2, HeadTailProperties
<1>4. \A i \in 1..Len(s) : Tail(<<e>> \o s)[i] = s[i]
  BY <1>1, <1>3
<1>5. Tail(<<e>> \o s) = s
  BY <1>3, <1>4, SeqEqual
<1>6. Head(<<e>> \o s) = e
  BY <1>1, <1>2
<1> QED
  BY <1>2, <1>5, <1>6

\* A step of the queue, in terms of Waiting.
QueueStep == \/ \E j \in Job : Waiting' = Append(Waiting, j) /\ UNCHANGED running
             \/ /\ running = Idle /\ Waiting # <<>>
                /\ running' = Head(Waiting) /\ Waiting' = Tail(Waiting)
             \/ running # Idle /\ running' = Idle /\ UNCHANGED Waiting
             \/ Waiting' = <<>> /\ running' = Idle
             \/ UNCHANGED <<Waiting, running>>

LEMMA WaitingFacts ==
    ASSUME EvTypeOK
    PROVE  /\ \A e \in Event : job[e] \in Job \cup {Idle}
           /\ JobsOf(mailbox) \in Seq(Job \cup {Idle})
           /\ First \in Seq(Job \cup {Idle})
<1>1. \A e \in Event : job[e] \in Job \cup {Idle}
  BY DEF EvTypeOK
<1>2. /\ Len(mailbox) \in Nat /\ DOMAIN mailbox = 1..Len(mailbox)
      /\ \A i \in 1..Len(mailbox) : mailbox[i] \in Event
  BY MailboxFacts, LenProperties, ElementOfSeq
<1>3. JobsOf(mailbox) \in Seq(Job \cup {Idle})
  BY <1>1, <1>2 DEF JobsOf
<1>4. First \in Seq(Job \cup {Idle})
  BY <1>1 DEF First, EvTypeOK
<1> QED
  BY <1>1, <1>3, <1>4

\* A job that is under way is the one it was posted with.
LEMMA SameJobs ==
    ASSUME EvTypeOK, JobsKept
    PROVE  /\ [i \in DOMAIN mailbox |-> job'[mailbox[i]]] = JobsOf(mailbox)
           /\ current # Idle => job'[current] = job[current]
BY DEF JobsKept, JobsOf, Queued

LEMMA QueueSteps ==
    ASSUME EvTypeOK, EvTypeOK', EvInv, EvStep PROVE QueueStep
<1> USE EvNames, MailboxFacts, WaitingFacts
<1>0. Accounts /\ JobsKnown
  BY AccountsEquivalent DEF EvInv
<1>1. CASE EvReset
  <2>1. JobsOf(mailbox)' = <<>> /\ First' = <<>> /\ running' = Idle
    BY <1>1 DEF EvReset, JobsOf, First
  <2>2. Waiting' = <<>>
    BY <2>1, ConcatEmptySeq, EmptySeq DEF Waiting
  <2> QED
    BY <2>1, <2>2 DEF QueueStep
<1> SUFFICES ASSUME ~EvReset PROVE QueueStep
  BY <1>1
<1>2. /\ [i \in DOMAIN mailbox |-> job'[mailbox[i]]] = JobsOf(mailbox)
      /\ current # Idle => job'[current] = job[current]
  BY <1>0, JobsStay, SameJobs
<1>3. CASE UNCHANGED <<mailbox, current, running>>
  <2>1. JobsOf(mailbox)' = JobsOf(mailbox) /\ First' = First
    BY <1>2, <1>3 DEF JobsOf, First
  <2> QED
    BY <1>3, <2>1 DEF Waiting, QueueStep
<1>4. ASSUME NEW e \in Event, mailbox' = Append(mailbox, e), job'[e] \in Job,
             UNCHANGED <<current, running>>
      PROVE  QueueStep
  <2>1. \A x \in Event : job'[x] \in Job \cup {Idle}
    BY DEF EvTypeOK
  <2>2. JobsOf(mailbox)' = Append(JobsOf(mailbox), job'[e])
    BY <1>2, <1>4, <2>1, MapAppend DEF JobsOf
  <2>3. First' = First
    BY <1>2, <1>4 DEF First
  <2>4. Waiting' = Append(Waiting, job'[e])
    BY <1>4, <2>2, <2>3, PrefixAppend DEF Waiting
  <2> QED
    BY <1>4, <2>4 DEF QueueStep
<1>5. ASSUME NEW j \in TickJob, PostTick(j) PROVE QueueStep
  <2>1. ASSUME NEW s \in Slot, job' = [job EXCEPT ![s] = j],
               mailbox' = Append(mailbox, s)
        PROVE  QueueStep
    <3>1. job'[s] = j /\ UNCHANGED <<current, running>>
      BY <1>5, <2>1 DEF EvTypeOK, PostTick
    <3> QED
      BY <1>4, <2>1, <3>1
  <2> QED
    BY <1>3, <1>5, <2>1 DEF PostTick
<1>6. ASSUME NEW p \in Poster, Send(p) PROVE QueueStep
  <2>1. /\ inHand[p] \in Held /\ inHand[p] \in Event
        /\ mailbox' = Append(mailbox, inHand[p])
        /\ UNCHANGED <<job, current, running>>
    BY <1>6 DEF Send, Held, EvTypeOK
  <2>2. job'[inHand[p]] \in Job
    BY <1>0, <2>1 DEF JobsKnown
  <2> QED
    BY <1>4, <2>1, <2>2
<1>7. CASE Recv
  <2>1. /\ current = Idle /\ mailbox # <<>> /\ current' = Head(mailbox)
        /\ mailbox' = Tail(mailbox) /\ UNCHANGED <<job, running>>
        /\ running = Idle
    BY <1>0, <1>7 DEF Recv, JobsKnown
  <2>2. current' \in Event
    BY <2>1, TailElems
  <2>3. First = <<>> /\ First' = <<job[Head(mailbox)]>>
    BY <2>1, <2>2 DEF First
  <2>4. JobsOf(mailbox) = <<job[Head(mailbox)]>> \o JobsOf(mailbox)'
    BY <2>1, MapTail DEF JobsOf
  <2>5. Waiting' = Waiting
    BY <2>3, <2>4, ConcatEmptySeq DEF Waiting
  <2> QED
    BY <2>1, <2>5 DEF QueueStep
<1>8. CASE Call
  <2>1. /\ current # Idle /\ running = Idle /\ running' = job[current]
        /\ UNCHANGED <<job, mailbox, current>> /\ job[current] \in Job
    BY <1>0, <1>8 DEF Call, JobsKnown
  <2>2. First = <<job[current]>> /\ First' = <<>>
        /\ JobsOf(mailbox)' = JobsOf(mailbox)
    BY <2>1 DEF First, JobsOf
  <2>3. Waiting' = JobsOf(mailbox)
    BY <2>2, ConcatEmptySeq DEF Waiting
  <2>4. /\ Waiting # <<>> /\ Head(Waiting) = job[current]
        /\ Tail(Waiting) = JobsOf(mailbox)
    BY <2>1, <2>2, HeadTailOfPrefix DEF Waiting
  <2> QED
    BY <2>1, <2>3, <2>4 DEF QueueStep
<1>9. CASE Finish
  <2>1. running # Idle /\ running' = Idle /\ current' = Idle
        /\ UNCHANGED <<job, mailbox>>
    BY <1>9 DEF Finish
  <2>2. First' = First /\ JobsOf(mailbox)' = JobsOf(mailbox)
    BY <2>1 DEF First, JobsOf
  <2> QED
    BY <2>1, <2>2 DEF Waiting, QueueStep
<1> QED
  BY <1>3, <1>5, <1>6, <1>7, <1>8, <1>9 DEF EvStep, Malloc, Refuse, evVars

\* app_ev.c:43-65,155-181: the mailbox with its table and its heap implements
\* the queue of EventQueue: every step of the timers, the threads and appev is
\* a step of that queue or none.
THEOREM MailboxIsAQueue == Spec => JobsInOrder
<1>1. Init => Queue!Init
  <2> SUFFICES ASSUME Init PROVE Queue!Init
    OBVIOUS
  <2>1. First = <<>> /\ JobsOf(mailbox) = <<>> /\ running = Idle
    BY DEF Init, EvInit, First, JobsOf
  <2>2. Waiting = <<>>
    BY <2>1, ConcatEmptySeq, EmptySeq DEF Waiting
  <2> QED
    BY <2>1, <2>2 DEF Queue!Init, Waiting, First, JobsOf
<1>2. QueueStep => [Queue!Next]_<<Waiting, running>>
  BY DEF QueueStep, Queue!Next, Queue!Post, Queue!Begin, Queue!End, Queue!Reset,
     Waiting, First, JobsOf
<1>3. EvTypeOK /\ EvInv /\ [Next]_vars => [Queue!Next]_<<Waiting, running>>
  BY <1>2, EvSteps, EvTypeStep, QueueSteps
<1> QED
  BY <1>1, <1>3, EvInvariant, PTL
     DEF Spec, JobsInOrder, Queue!Spec, Waiting, First, JobsOf

=============================================================================
