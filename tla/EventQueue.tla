----------------------------- MODULE EventQueue -----------------------------
(***************************************************************************)
(* What the event mailbox promises: jobs are executed one at a time and in *)
(* the order they were posted in, each with the function it was posted     *)
(* with.  A post may be refused, and the poster learns it.                 *)
(***************************************************************************)
EXTENDS Sequences

CONSTANTS Job,    \* functions that are posted
          Idle    \* no job

VARIABLES waiting,   \* jobs accepted and not begun
          running    \* the job under execution, or Idle

Init == waiting = <<>> /\ running = Idle

Post(j) == waiting' = Append(waiting, j) /\ UNCHANGED running

Begin == /\ running = Idle /\ waiting # <<>>
         /\ running' = Head(waiting)
         /\ waiting' = Tail(waiting)

End == /\ running # Idle
       /\ running' = Idle
       /\ UNCHANGED waiting

\* A job may reset the processor.
Reset == waiting' = <<>> /\ running' = Idle

Next == (\E j \in Job : Post(j)) \/ Begin \/ End \/ Reset

Spec == Init /\ [][Next]_<<waiting, running>>
=============================================================================
