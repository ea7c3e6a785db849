---------------------------- MODULE ConfigStore ----------------------------
(***************************************************************************)
(* The persistent configuration: applications/flash_config.c over the     *)
(* half-word flash writer of drivers/extdrv/flash_opt.c.  The last 4 KB of *)
(* the flash hold two copies of one JSON text, A in the last page but one  *)
(* and B in the last page.  __read_uconfig parses A, then B, then falls    *)
(* back to defaults, and repairs the copies; __write_uconfig rewrites A,   *)
(* then B.  Power may be lost between any two half-words.                  *)
(*                                                                         *)
(* A page is its text: the configuration it spells and how much of it is   *)
(* there.  "blank" is an erased page or a text cut before its first quote, *)
(* "tornOut" a text cut between two string literals and "tornIn" one cut   *)
(* inside a literal, "open" the whole JSON object without its terminating  *)
(* NUL, "closed" the whole text.  The NUL shares a half-word with the last *)
(* brace when the text has an odd length, so "open" exists only for the    *)
(* texts of EvenLength.  Nothing but 0xFF follows a cut text in its page:  *)
(* a scan for a quote or a NUL runs from A into B, and from B off the end  *)
(* of the flash, which is a bus fault.                                     *)
(***************************************************************************)
CONSTANTS App,         \* values of the fields that survive a round trip
          NormalApp,   \* their value after __set_default_config
          Name,        \* values of openfire_domain, _username, _password
          Empty,       \* the empty string
          EvenLength,  \* the configurations whose JSON text has even length
          Fresh        \* TRUE: first power-up, both copies erased

\* struct USER_CONFIG; cred stands for openfire_username and _password.
Config == [app : App, domain : Name, cred : Name]

Default == [app |-> NormalApp, domain |-> Empty, cred |-> Empty]

ASSUME ConstantsAssumption == /\ NormalApp \in App
                              /\ Empty \in Name
                              /\ EvenLength \subseteq Config
                              /\ Fresh \in BOOLEAN

VARIABLES pageA,    \* the copy at USER_CONFIG_FLASH_ADDRESS
          pageB,    \* the copy half of USER_CONFIG_FLASH_SIZE further
          uconfig,  \* the configuration in memory
          json,     \* the configuration whose text is being programmed
          phase,    \* "off", "boot": in __read_uconfig, "run", "fault"
          step      \* what the flash writer does next, "idle" when nothing

vars == <<pageA, pageB, uconfig, json, phase, step>>

PageState == {"blank", "tornIn", "tornOut", "open", "closed"}
Page == [state : PageState, cfg : Config]
Text(s, c) == [state |-> s, cfg |-> c]
Blank == Text("blank", Default)

TypeOK == /\ pageA \in Page
          /\ pageB \in Page
          /\ uconfig \in Config
          /\ json \in Config
          /\ phase \in {"off", "boot", "run", "fault"}
          /\ step \in {"idle", "eraseA", "progA", "eraseB", "progB"}

\* makeJson writes every field under its own key; parseJson takes the user
\* name and the password from the key of the domain.  The success path of
\* parseJson falls off its end without a value: the caller's "< 0" tests the
\* result register, where the last call of all, the rt_sem_release in the
\* rt_free of the root, left RT_EOK.
Reload(c) == [c EXCEPT !.cred = c.domain]

-----------------------------------------------------------------------------
(* Reading a copy *)

\* cJSON_Parse accepts trailing bytes: the terminating NUL is not needed.
Parses(p) == p.state \in {"open", "closed"}

\* Parsing A scans for the end of a cut string literal into B; parsing B
\* scans off the flash.
OverrunA == pageA.state = "tornIn" /\ pageB.state = "blank"
OverrunB == pageB.state = "tornIn"

\* strstr(A, B) finds B: the texts are equal, or A has no NUL of its own
\* and the search runs into B, which ends.
FindsBackup == /\ pageB.state = "closed"
               /\ \/ pageA.state = "open"
                  \/ pageA.state = "closed" /\ pageA.cfg = pageB.cfg

\* Faulty variant: a search that measures the backup before it compares.
SearchMeasuresBackup == Parses(pageA) /\ pageB.state # "closed"

\* Neither text has a NUL: the search runs off the flash.
OverrunSearch == pageA.state = "open" /\ pageB.state # "closed"

Init == /\ IF Fresh THEN pageA = Blank
                    ELSE pageA \in {Text("closed", c) : c \in Config}
        /\ pageB = pageA
        /\ uconfig = Default
        /\ json = Default
        /\ phase = "off"
        /\ step = "idle"

-----------------------------------------------------------------------------
(* __read_uconfig *)

\* Copy A parses and the backup is found in it.
BootInSync == /\ phase = "off"
              /\ Parses(pageA)
              /\ FindsBackup
              /\ uconfig' = Reload(pageA.cfg)
              /\ phase' = "run"
              /\ UNCHANGED <<pageA, pageB, json, step>>

\* Faulty variant: the repair of the backup is never begun.
ResyncNeverBegins == /\ phase = "off"
                     /\ pageA.state = "closed"
                     /\ ~FindsBackup
                     /\ uconfig' = Reload(pageA.cfg)
                     /\ json' = pageA.cfg
                     /\ phase' = "boot"
                     /\ UNCHANGED <<pageA, pageB, step>>

\* Copy A parses and differs from the backup, which is rewritten from it.
BootResync == /\ phase = "off"
              /\ pageA.state = "closed"
              /\ ~FindsBackup
              /\ uconfig' = Reload(pageA.cfg)
              /\ json' = pageA.cfg
              /\ phase' = "boot"
              /\ step' = "eraseB"
              /\ UNCHANGED <<pageA, pageB>>

\* Faulty variant: the backup is never consulted.
RestoreIgnoresBackup == /\ phase = "off"
                        /\ ~Parses(pageA) /\ ~OverrunA
                        /\ uconfig' = Default
                        /\ json' = Default
                        /\ phase' = "boot"
                        /\ step' = "eraseA"
                        /\ UNCHANGED <<pageA, pageB>>

\* Copy A does not parse: the configuration comes from B or, when B does not
\* parse either, from the defaults, and both copies are rewritten.  Without
\* memory for the text nothing is written, and the message that prints A
\* looks for a NUL up to the end of B.
BootRestore ==
    /\ phase = "off"
    /\ ~Parses(pageA) /\ ~OverrunA
    /\ Parses(pageB) \/ ~OverrunB
    /\ uconfig' = IF Parses(pageB) THEN Reload(pageB.cfg) ELSE Default
    /\ \/ json' = uconfig' /\ phase' = "boot" /\ step' = "eraseA"
       \/ /\ phase' = IF pageB.state = "closed" THEN "run" ELSE "fault"
          /\ UNCHANGED <<json, step>>
    /\ UNCHANGED <<pageA, pageB>>

\* A scan leaves the flash.  The fault handler does not return, and the
\* bootloader has not enabled the watchdog yet.
BootFault == /\ phase = "off"
             /\ \/ ~Parses(pageA) /\ (OverrunA \/ OverrunB)
                \/ OverrunSearch
             /\ phase' = "fault"
             /\ UNCHANGED <<pageA, pageB, uconfig, json, step>>

-----------------------------------------------------------------------------
(* __write_uconfig and the flash writer *)

\* A command assigns fields of uconfig and saves it; makeJson may find no
\* memory, and then nothing is written.
Update(c) == /\ phase = "run" /\ step = "idle"
             /\ uconfig' = c
             /\ \/ json' = c /\ step' = "eraseA"
                \/ UNCHANGED <<json, step>>
             /\ UNCHANGED <<pageA, pageB, phase>>

\* The pages after more half-words of the text of c.  One cut stands for
\* every cut of its kind: only a power loss tells them apart.
Programmed(p, c) ==
    CASE p.state = "blank" -> {Text("tornIn", c), Text("tornOut", c)}
      [] p.state \in {"tornIn", "tornOut"} ->
            {Text(IF c \in EvenLength THEN "open" ELSE "closed", c)}
      [] OTHER -> {Text("closed", c)}

\* Faulty variant: the first erase takes the whole 4 KB.
EraseWholeArea == /\ step = "eraseA"
                  /\ pageA' = Blank /\ pageB' = Blank
                  /\ step' = "progA"
                  /\ UNCHANGED <<uconfig, json, phase>>

\* FLASH_ProgramStart erases the page of the copy.
EraseA == /\ step = "eraseA"
          /\ pageA' = Blank
          /\ step' = "progA"
          /\ UNCHANGED <<pageB, uconfig, json, phase>>

\* FLASH_AppendBuffer and FLASH_AppendEnd; then the second copy.
ProgramA == /\ step = "progA"
            /\ pageA' \in Programmed(pageA, json)
            /\ step' = IF pageA'.state = "closed" THEN "eraseB" ELSE "progA"
            /\ UNCHANGED <<pageB, uconfig, json, phase>>

EraseB == /\ step = "eraseB"
          /\ pageB' = Blank
          /\ step' = "progB"
          /\ UNCHANGED <<pageA, uconfig, json, phase>>

\* The last half-word ends the write, and __read_uconfig when it was that.
ProgramB == /\ step = "progB"
            /\ pageB' \in Programmed(pageB, json)
            /\ IF pageB'.state = "closed" THEN step' = "idle" /\ phase' = "run"
                                          ELSE UNCHANGED <<step, phase>>
            /\ UNCHANGED <<pageA, uconfig, json>>

\* A reset at any moment: memory is lost, the pages stay as they are.
PowerLoss == /\ phase # "off"
             /\ phase' = "off"
             /\ step' = "idle"
             /\ uconfig' = Default
             /\ json' = Default
             /\ UNCHANGED <<pageA, pageB>>

Boot == BootInSync \/ BootResync \/ BootRestore \/ BootFault
Write == EraseA \/ ProgramA \/ EraseB \/ ProgramB

Next == \/ Boot
        \/ Write
        \/ \E c \in Config : Update(c)
        \/ PowerLoss

\* The processor executes: boot and a started write go on.
Fairness == WF_vars(Boot) /\ WF_vars(Write)

Spec == Init /\ [][Next]_vars
FairSpec == Spec /\ Fairness

-----------------------------------------------------------------------------
(* Properties *)

\* flash_config.c:12-40, 55-78: whenever power is lost, some copy holds a
\* complete text, so a device that once had a configuration never returns to
\* the defaults.
ACopySurvives == pageA.state = "closed" \/ pageB.state = "closed"

\* flash_config.c:33-37, 61-71: from the moment one copy is complete, one
\* always is: every erase happens while the other copy is complete.
CopiesKept == [][ACopySurvives => ACopySurvives']_vars

\* flash_config.c:15-39: once a device has held one complete copy, no scan of
\* its texts leaves the flash at any later boot, however many resets cut its
\* writes and its repairs.
CommissionedNeverFaults == [](ACopySurvives => [](phase # "fault"))

\* flash_config.c:204-216: loading the configuration yields the configuration
\* the flash holds, user name and password included.
CredentialsRestored ==
    [][phase # "run" /\ phase' = "run" => uconfig' = pageA'.cfg]_vars

\* Unless resets keep coming, reading the configuration ends with a running
\* system, or off the flash when the first write of all was cut.
BootCompletes == []<>(phase = "off") \/ []<>(phase = "run")
                 \/ <>[](phase = "fault")

\* What the next boot would load.
Stored == IF Parses(pageA) THEN Reload(pageA.cfg)
          ELSE IF Parses(pageB) THEN Reload(pageB.cfg)
          ELSE Default

\* What it would load without the first copy.
Backup == IF Parses(pageB) THEN Reload(pageB.cfg) ELSE Stored

Register == INSTANCE ConfigRegister WITH
    value <- Stored,
    older <- Backup,
    ram   <- IF phase = "run" THEN uconfig ELSE Default,
    mode  <- IF phase # "run" THEN "off"
             ELSE IF step = "idle" THEN "ready" ELSE "busy"

\* flash_config.c:12-78: the two copies behave as the register.  A reset in the
\* middle of a write loads the old configuration or the new one; only when the
\* write before was itself cut, and at the NUL of its first copy, may it load
\* the one before that.  A repair at boot never changes what later boots load.
AtomicWrites == Register!Spec
=============================================================================
