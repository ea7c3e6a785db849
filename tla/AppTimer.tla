------------------------------ MODULE AppTimer ------------------------------
(***************************************************************************)
(* The timers of app_timer.c on top of the event mailbox.  The tick        *)
(* interrupt counts the seconds and posts second_timer, which goes through *)
(* the entries of ei_timer in the thread appev and calls those that are    *)
(* due; it also posts feed_watchdog every two seconds.  Threads of appev's *)
(* own priority (mainloop, isp) take and start the entries; a time slice   *)
(* may end between any two of their statements.                            *)
(*                                                                         *)
(* Only differences of times are read, so an entry holds its age, the time *)
(* since his_time, and MaxAge stands for every larger one.                 *)
(***************************************************************************)
EXTENDS AppEvent

CONSTANTS User,          \* the threads that take an entry
          Ticks,         \* the period each asks for
          Entries,       \* EI_TIMER_COUNT, 5 in the code
          MaxAge,        \* bound: ages beyond it are not told apart
          second_timer, feed_watchdog, wait_rst

Entry == 1..Entries

ASSUME TimerAssumption ==
    /\ Ticks \in [User -> Nat] /\ Entries \in Nat /\ MaxAge \in Nat
    /\ \A u \in User : Ticks[u] < MaxAge
    /\ Idle \notin User
    /\ TickJob = {second_timer, feed_watchdog} /\ ThreadJob = {wait_rst}
    /\ second_timer \notin {feed_watchdog, wait_rst}

VARIABLES timer,    \* ei_timer
          pc,       \* of each user: the statement it executes next
          mine,     \* of each user: the entry it has found, 0 before
          scan,     \* the entry __timerout_in looks at, 0 outside of it
          calling,  \* the timeout function it has called, or Idle
          since     \* history: seconds since the last call for each user

vars == <<evVars, timer, pc, mine, scan, calling, since>>

Stage == {"find", "take", "ticks", "timeout", "his_time", "enable", "done"}

\* Set to zero by init_app_timer.
NoTimer == [alloc |-> FALSE, enable |-> FALSE, ticks |-> 0, timeout |-> Idle,
            age |-> 0]

TypeOK ==
    /\ EvTypeOK
    /\ timer \in [Entry -> [alloc : BOOLEAN, enable : BOOLEAN, ticks : Nat,
                            timeout : User \cup {Idle}, age : 0..MaxAge]]
    /\ pc \in [User -> Stage]
    /\ mine \in [User -> Entry \cup {0}]
    /\ scan \in 0..(Entries + 1)
    /\ calling \in User \cup {Idle}
    /\ since \in [User -> 0..MaxAge]

Init == /\ EvInit
        /\ timer = [i \in Entry |-> NoTimer]
        /\ pc = [u \in User |-> "find"] /\ mine = [u \in User |-> 0]
        /\ scan = 0 /\ calling = Idle
        /\ since = [u \in User |-> 0]

-----------------------------------------------------------------------------
(* app_tmr_timeout, in the tick interrupt *)

Older(n) == IF n < MaxAge THEN n + 1 ELSE n

Second == /\ PostTick(second_timer)
          /\ timer' = [i \in Entry |-> [timer[i] EXCEPT !.age = Older(@)]]
          /\ since' = [u \in User |-> Older(since[u])]
          /\ UNCHANGED <<pc, mine, scan, calling>>

Feed == /\ PostTick(feed_watchdog)
        /\ UNCHANGED <<timer, pc, mine, scan, calling, since>>

-----------------------------------------------------------------------------
(* Threads: alloc_timer, the assignments to the entry, timer_start *)

At(u, s, t) == pc[u] = s /\ pc' = [pc EXCEPT ![u] = t]

\* The entry found free; entries are never given back.
Find(u) == /\ At(u, "find", "take")
           /\ \E i \in Entry :
                 /\ ~timer[i].alloc /\ \A k \in 1..(i-1) : timer[k].alloc
                 /\ mine' = [mine EXCEPT ![u] = i]
           /\ UNCHANGED <<evVars, timer, scan, calling, since>>

Sets(u, s, t, e) == /\ At(u, s, t)
                    /\ timer' = [timer EXCEPT ![mine[u]] = e]
                    /\ UNCHANGED <<evVars, mine, scan, calling, since>>

Take(u) == Sets(u, "take", "ticks", [timer[mine[u]] EXCEPT !.alloc = TRUE])
SetTicks(u) == Sets(u, "ticks", "timeout",
                    [timer[mine[u]] EXCEPT !.ticks = Ticks[u]])
SetTimeout(u) == Sets(u, "timeout", "his_time",
                      [timer[mine[u]] EXCEPT !.timeout = u])

SetHisTime(u) == /\ At(u, "his_time", "enable")
                 /\ timer' = [timer EXCEPT ![mine[u]].age = 0]
                 /\ since' = [since EXCEPT ![u] = 0]
                 /\ UNCHANGED <<evVars, mine, scan, calling>>

Enable(u) == Sets(u, "enable", "done",
                  [timer[mine[u]] EXCEPT !.enable = TRUE])

Prepare(u) == \/ Find(u) \/ Take(u) \/ SetTicks(u) \/ SetTimeout(u)
              \/ SetHisTime(u) \/ Enable(u)

\* resp_rest, in tcpip: post_default_event_wait(wait_rst).
PostReset(p) == /\ Malloc(p) \/ Send(p) \/ Refuse(p)
                /\ UNCHANGED <<timer, pc, mine, scan, calling, since>>

-----------------------------------------------------------------------------
(* The thread appev *)

Receive == Recv /\ UNCHANGED <<timer, pc, mine, scan, calling, since>>

Begin == /\ current # Idle /\ job[current] # wait_rst
         /\ Call
         /\ scan' = IF running' = second_timer THEN 1 ELSE 0
         /\ UNCHANGED <<timer, pc, mine, calling, since>>

\* wait_rst: NVIC_SystemReset.
SystemReset == /\ current # Idle /\ running = Idle /\ job[current] = wait_rst
               /\ EvReset
               /\ timer' = [i \in Entry |-> NoTimer]
               /\ pc' = [u \in User |-> "find"] /\ mine' = [u \in User |-> 0]
               /\ scan' = 0 /\ calling' = Idle
               /\ since' = [u \in User |-> 0]

\* __timerout_in
Due(i) == timer[i].enable /\ timer[i].age > timer[i].ticks

Looking == running = second_timer /\ calling = Idle /\ scan \in Entry

Pass == /\ Looking /\ ~Due(scan)
        /\ scan' = scan + 1
        /\ UNCHANGED <<evVars, timer, pc, mine, calling, since>>

\* Faulty variant: the time of the call is not recorded.
FireKeepsTime == /\ Looking /\ Due(scan)
                 /\ calling' = timer[scan].timeout
                 /\ since' = [since EXCEPT ![calling'] = 0]
                 /\ UNCHANGED <<evVars, timer, pc, mine, scan>>

Fire == /\ Looking /\ Due(scan)
        /\ timer' = [timer EXCEPT ![scan].age = 0]
        /\ calling' = timer[scan].timeout
        /\ since' = [since EXCEPT ![calling'] = 0]
        /\ UNCHANGED <<evVars, pc, mine, scan>>

\* Faulty variant: the loop ends with the first function it calls.
ReturnBreaks == /\ calling # Idle
                /\ calling' = Idle /\ scan' = Entries + 1
                /\ UNCHANGED <<evVars, timer, pc, mine, since>>

Return == /\ calling # Idle
          /\ calling' = Idle /\ scan' = scan + 1
          /\ UNCHANGED <<evVars, timer, pc, mine, since>>

End == /\ running = second_timer => scan = Entries + 1
       /\ Finish
       /\ scan' = 0
       /\ UNCHANGED <<timer, pc, mine, calling, since>>

Appev == Receive \/ Begin \/ SystemReset \/ Pass \/ Fire \/ Return \/ End

Next == \/ Second \/ Feed \/ Appev
        \/ \E u \in User : Prepare(u)
        \/ \E p \in Poster : PostReset(p)

Spec == Init /\ [][Next]_vars

\* Time passes, the threads are scheduled and the functions return.  appev needs
\* far less than a second for an event, so a second does not find the table
\* full every time.
Room == (\E s \in Slot : ~enable[s]) /\ Len(mailbox) < MailboxSize

FairSpec == /\ Spec
            /\ WF_vars(Second) /\ SF_vars(Room /\ Second) /\ WF_vars(Appev)
            /\ \A u \in User : WF_vars(Prepare(u))

-----------------------------------------------------------------------------
(* Properties *)

\* Two users have taken one entry: the test of alloc and its assignment are
\* two steps (app_timer.c:131-133).
Shared == \E u, v \in User : u # v /\ mine[u] = mine[v] /\ mine[u] # 0

\* app_timer.c:64-67,141-145: a function is called only after more than its
\* period has passed since its timer was started or last called, however late
\* the last call was.
NotEarly ==
    [][\A u \in User : calling' = u /\ calling # u =>
           since[u] > Ticks[u] \/ Shared]_vars

\* app_timer.c:57-78,85-112: the timer of every user goes on being called:
\* seconds that were not posted because the table or the mailbox was full
\* delay a call and lose none.  An entry that two users have taken goes on
\* calling one of them.
TimersFire ==
    \A u \in User : []<>(\/ pc[u] # "done"
                         \/ \E v \in User : calling = v /\ mine[v] = mine[u])
=============================================================================
