--------------------------- MODULE ConfigRegister ---------------------------
(***************************************************************************)
(* What the persistent configuration promises its callers: a register that *)
(* survives a reset and remembers, under its value, an older one.  A write *)
(* that returns has replaced both; one that a reset cuts may have replaced *)
(* the value alone, and the next write that a reset cuts can then bring    *)
(* the older value back.  Loading the configuration never changes what the *)
(* next load will return.  Reload is what a written value looks like when  *)
(* it is read back.                                                        *)
(***************************************************************************)
CONSTANTS Config,    \* the values struct USER_CONFIG can take
          Reload(_)  \* a value after a write and a read back

VARIABLES value,  \* what a load would return now
          older,  \* what it would return without the first copy
          ram,    \* uconfig of the running system
          mode    \* "off": not loaded, "ready": loaded, "busy": writing

vars == <<value, older, ram, mode>>

Init == /\ value \in Config
        /\ older = value
        /\ ram \in Config
        /\ mode = "off"

Load == /\ mode = "off"
        /\ mode' = "ready"
        /\ ram' = value
        /\ UNCHANGED <<value, older>>

Begin(c) == /\ mode = "ready"
            /\ mode' = "busy"
            /\ ram' = c
            /\ UNCHANGED <<value, older>>

\* The change was made in memory and could not be written.
Refuse(c) == /\ mode = "ready"
             /\ ram' = c
             /\ UNCHANGED <<value, older, mode>>

\* A write begins with the loss of a value that was written alone.
Lapse == /\ mode = "busy"
         /\ value' = older
         /\ UNCHANGED <<older, ram, mode>>

Commit == /\ mode = "busy"
          /\ value' = Reload(ram)
          /\ UNCHANGED <<older, ram, mode>>

\* The older value is given up for the value: after Commit, or at boot.
Settle == /\ mode = "busy" => value = Reload(ram)
          /\ mode # "ready"
          /\ older' = value
          /\ UNCHANGED <<value, ram, mode>>

Finish == /\ mode = "busy"
          /\ value = Reload(ram) /\ older = value
          /\ mode' = "ready"
          /\ UNCHANGED <<value, older, ram>>

Reset == /\ mode' = "off"
         /\ ram' \in Config
         /\ UNCHANGED <<value, older>>

Next == \/ Load \/ Lapse \/ Commit \/ Settle \/ Finish \/ Reset
        \/ \E c \in Config : Begin(c) \/ Refuse(c)

Spec == Init /\ [][Next]_vars
=============================================================================
