------------------------------ MODULE AppEvent ------------------------------
(***************************************************************************)
(* The event mailbox of app_ev.c.  The tick interrupt posts jobs held in   *)
(* the static table app_event; threads post jobs held in blocks of the     *)
(* heap; the thread appev executes them.  The interrupt preempts every     *)
(* thread and is atomic; a thread's post is preempted between its malloc   *)
(* and its rt_mb_send.                                                     *)
(***************************************************************************)
EXTENDS Integers, Sequences, SequencesExt

CONSTANTS Slots,        \* APP_EVENT_BUFFER, 10 in the code
          MailboxSize,  \* 32 in the code
          Poster,       \* threads that post
          Block,        \* heap blocks that posts can obtain
          TickJob,      \* jobs of the interrupt: second_timer, feed_watchdog
          ThreadJob,    \* jobs of the threads: wait_rst
          Idle          \* no job

Slot == 1..Slots
Job == TickJob \cup ThreadJob
Event == Slot \cup Block

ASSUME EventAssumption == /\ Slots \in Nat \ {0} /\ MailboxSize \in Nat \ {0}
                          /\ Slot \cap Block = {}
                          /\ Idle \notin Job
                          /\ Idle \notin Event

VARIABLES enable,   \* app_event[i].enable
          job,      \* simple_data[0] of every event
          heap,     \* allocated blocks
          mailbox,  \* mainloop_mb
          current,  \* appev: the event it executes, or Idle
          running,  \* appev: the job whose callback it has called, or Idle
          inHand    \* of each poster: the block it fills, or Idle

evVars == <<enable, job, heap, mailbox, current, running, inHand>>

EvTypeOK == /\ enable \in [Slot -> BOOLEAN]
            /\ job \in [Event -> Job \cup {Idle}]
            /\ heap \subseteq Block
            /\ mailbox \in Seq(Event) /\ Len(mailbox) <= MailboxSize
            /\ current \in Event \cup {Idle}
            /\ running \in Job \cup {Idle}
            /\ inHand \in [Poster -> Block \cup {Idle}]

EvInit == /\ enable = [s \in Slot |-> FALSE]
          /\ job = [e \in Event |-> Idle]
          /\ heap = {} /\ mailbox = <<>>
          /\ current = Idle /\ running = Idle
          /\ inHand = [p \in Poster |-> Idle]

\* The state after a reset of the processor.
EvReset == /\ enable' = [s \in Slot |-> FALSE]
           /\ job' = [e \in Event |-> Idle]
           /\ heap' = {} /\ mailbox' = <<>>
           /\ current' = Idle /\ running' = Idle
           /\ inHand' = [p \in Poster |-> Idle]

-----------------------------------------------------------------------------
(* The tick interrupt *)

\* alloc_app_event takes the first free entry.
IsFirstFree(s) == ~enable[s] /\ \A t \in 1..(s-1) : enable[t]

\* post_hw_int_event; a full mailbox gives the entry back, which changes
\* nothing but its data, and a full table loses the job.
PostTick(j) ==
    /\ \/ \E s \in Slot :
            /\ IsFirstFree(s)
            /\ job' = [job EXCEPT ![s] = j]
            /\ IF Len(mailbox) < MailboxSize
               THEN /\ enable' = [enable EXCEPT ![s] = TRUE]
                    /\ mailbox' = Append(mailbox, s)
               ELSE UNCHANGED <<enable, mailbox>>
       \/ (\A s \in Slot : enable[s]) /\ UNCHANGED <<enable, job, mailbox>>
    /\ UNCHANGED <<heap, current, running, inHand>>

-----------------------------------------------------------------------------
(* Threads *)

\* post_default_event, post_default_event_wait: rt_malloc and the assignments.
Malloc(p) == /\ inHand[p] = Idle
             /\ \E b \in Block \ heap, j \in ThreadJob :
                   /\ heap' = heap \cup {b}
                   /\ inHand' = [inHand EXCEPT ![p] = b]
                   /\ job' = [job EXCEPT ![b] = j]
             /\ UNCHANGED <<enable, mailbox, current, running>>

\* Faulty variant: a mail is stored beyond the end of the pool.
SendUnchecked(p) == /\ inHand[p] # Idle
                    /\ mailbox' = Append(mailbox, inHand[p])
                    /\ inHand' = [inHand EXCEPT ![p] = Idle]
                    /\ UNCHANGED <<enable, job, heap, current, running>>

Send(p) == /\ inHand[p] # Idle /\ Len(mailbox) < MailboxSize
           /\ mailbox' = Append(mailbox, inHand[p])
           /\ inHand' = [inHand EXCEPT ![p] = Idle]
           /\ UNCHANGED <<enable, job, heap, current, running>>

\* The mailbox is full, or was for the time the poster would wait.
Refuse(p) == /\ inHand[p] # Idle /\ Len(mailbox) = MailboxSize
             /\ heap' = heap \ {inHand[p]}
             /\ inHand' = [inHand EXCEPT ![p] = Idle]
             /\ UNCHANGED <<enable, job, mailbox, current, running>>

-----------------------------------------------------------------------------
(* The thread appev *)

\* Faulty variant: the mail that came last is taken first.
RecvNewest == /\ current = Idle /\ mailbox # <<>>
              /\ current' = Last(mailbox)
              /\ mailbox' = Front(mailbox)
              /\ UNCHANGED <<enable, job, heap, running, inHand>>

\* rt_mb_recv
Recv == /\ current = Idle /\ mailbox # <<>>
        /\ current' = Head(mailbox)
        /\ mailbox' = Tail(mailbox)
        /\ UNCHANGED <<enable, job, heap, running, inHand>>

\* The function is read from the event when it is called.
Call == /\ current # Idle /\ running = Idle
        /\ running' = job[current]
        /\ UNCHANGED <<enable, job, heap, mailbox, current, inHand>>

\* Faulty variant: an entry of the table is not given back.
FinishKeeps == /\ running # Idle
               /\ heap' = heap \ {current}
               /\ current' = Idle /\ running' = Idle
               /\ UNCHANGED <<enable, job, mailbox, inHand>>

\* The callback has returned: destory_app_event or rt_free.
Finish == /\ running # Idle
          /\ enable' = [s \in Slot |-> enable[s] /\ s # current]
          /\ heap' = heap \ {current}
          /\ current' = Idle /\ running' = Idle
          /\ UNCHANGED <<job, mailbox, inHand>>

-----------------------------------------------------------------------------
(* Properties *)

Queued == {mailbox[i] : i \in DOMAIN mailbox}

Held == {inHand[p] : p \in Poster} \ {Idle}

\* An entry of the table is taken exactly while its event is in the mailbox
\* or being executed.
SlotsAccounted == {s \in Slot : enable[s]} = (Queued \cup {current}) \cap Slot

\* Every block belongs to one poster, to the mailbox or to appev, and to no two
\* of them.
BlocksAccounted ==
    /\ heap = Held \cup ((Queued \cup {current}) \cap Block)
    /\ Held \cap (Queued \cup {current}) = {}
    /\ \A p, q \in Poster : inHand[p] = inHand[q] /\ inHand[p] # Idle => p = q

\* An event is in the mailbox once, and not while it is executed.
NoEventTwice == /\ \A i, k \in DOMAIN mailbox : mailbox[i] = mailbox[k] => i = k
                /\ current \notin Queued

\* app_ev.c:29,39,58,70-83,165,176: entries and blocks neither leak nor are
\* shared, however often the mailbox or the table is full.
NothingLeaks == SlotsAccounted /\ BlocksAccounted /\ NoEventTwice

\* app_ev.c:43-65,155-181: seen from outside, a queue of jobs in which no job
\* is changed by a later post.
Queue == INSTANCE EventQueue WITH
    waiting <- (IF current # Idle /\ running = Idle THEN <<job[current]>>
                ELSE <<>>) \o [i \in DOMAIN mailbox |-> job[mailbox[i]]]
JobsInOrder == Queue!Spec

=============================================================================
