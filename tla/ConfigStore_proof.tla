------------------------- MODULE ConfigStore_proof -------------------------
(***************************************************************************)
(* Proofs about ConfigStore and ConfigWriters, for every set of field      *)
(* values and every parity of the texts.                                   *)
(***************************************************************************)
EXTENDS ConfigWriters, TLAPS

LEMMA DefaultIsConfig == Default \in Config
BY ConstantsAssumption DEF Default, Config

LEMMA ReloadIsConfig == ASSUME NEW c \in Config PROVE Reload(c) \in Config
BY DEF Reload, Config

LEMMA ProgrammedIsPage ==
    ASSUME NEW p \in Page, NEW c \in Config
    PROVE  Programmed(p, c) \subseteq {q \in Page : q.cfg = c /\ q.state # "blank"}
BY DEF Programmed, Page, PageState, Text

LEMMA BlankIsPage == Blank \in Page
BY DefaultIsConfig DEF Blank, Text, Page, PageState

\* No action of boot, write, command or reset spoils a type.
LEMMA TypeStep == TypeOK /\ [Next]_vars => TypeOK'
<1> USE DefaultIsConfig, ReloadIsConfig
<1> SUFFICES ASSUME TypeOK, [Next]_vars PROVE TypeOK'
  OBVIOUS
<1> USE DEF TypeOK
<1>1. CASE BootInSync
  BY <1>1 DEF BootInSync, Page
<1>2. CASE BootResync
  BY <1>2 DEF BootResync, Page
<1>3. CASE BootRestore
  BY <1>3 DEF BootRestore, Page
<1>4. CASE BootFault
  BY <1>4 DEF BootFault
<1>5. CASE EraseA \/ EraseB
  BY <1>5, BlankIsPage DEF EraseA, EraseB
<1>6. CASE ProgramA
  BY <1>6, ProgrammedIsPage DEF ProgramA
<1>7. CASE ProgramB
  BY <1>7, ProgrammedIsPage DEF ProgramB
<1>8. ASSUME NEW c \in Config, Update(c) PROVE TypeOK'
  BY <1>8 DEF Update
<1>9. CASE PowerLoss
  BY <1>9 DEF PowerLoss
<1>10. CASE UNCHANGED vars
  BY <1>10 DEF vars
<1> QED
  BY <1>1, <1>2, <1>3, <1>4, <1>5, <1>6, <1>7, <1>8, <1>9, <1>10
     DEF Next, Boot, Write

\* Every variable keeps its type (ConfigStore.tla, all actions).
THEOREM TypeCorrect == Spec => []TypeOK
<1>1. Init => TypeOK
  BY DefaultIsConfig, BlankIsPage DEF Init, TypeOK, Text, Page, PageState
<1> QED
  BY <1>1, TypeStep, PTL DEF Spec

-----------------------------------------------------------------------------
(* The write discipline: a copy is touched only while the other one is     *)
(* complete.                                                               *)

Complete(p) == p.state = "closed"

WriteDiscipline ==
    /\ phase \in {"off", "fault"} => step = "idle"
    /\ step \in {"eraseA", "progA"} => Complete(pageB) \/ ~Complete(pageA)
    /\ step \in {"eraseB", "progB"} => Complete(pageA)
    /\ phase = "run" /\ step = "idle" => Complete(pageB)
    /\ phase = "fault" => ~ACopySurvives

LEMMA WriteDisciplineInvariant == Spec => []WriteDiscipline
<1> USE DEF WriteDiscipline, ACopySurvives, Complete
<1>1. Init => WriteDiscipline
  BY DEF Init
<1>2. WriteDiscipline /\ [Next]_vars => WriteDiscipline'
  <2> SUFFICES ASSUME WriteDiscipline, [Next]_vars PROVE WriteDiscipline'
    OBVIOUS
  <2>1. CASE BootInSync
    BY <2>1 DEF BootInSync, FindsBackup
  <2>2. CASE BootResync
    BY <2>2 DEF BootResync
  <2>3. CASE BootRestore
    BY <2>3 DEF BootRestore, Parses
  <2>4. CASE BootFault
    \* A complete copy stops every scan.
    BY <2>4 DEF BootFault, Parses, OverrunA, OverrunB, OverrunSearch
  <2>5. CASE EraseA
    BY <2>5 DEF EraseA, Blank, Text
  <2>6. CASE ProgramA
    BY <2>6 DEF ProgramA
  <2>7. CASE EraseB
    BY <2>7 DEF EraseB
  <2>8. CASE ProgramB
    BY <2>8 DEF ProgramB
  <2>9. ASSUME NEW c \in Config, Update(c) PROVE WriteDiscipline'
    BY <2>9 DEF Update
  <2>10. CASE PowerLoss
    BY <2>10 DEF PowerLoss
  <2>11. CASE UNCHANGED vars
    BY <2>11 DEF vars
  <2> QED
    BY <2>1, <2>2, <2>3, <2>4, <2>5, <2>6, <2>7, <2>8, <2>9, <2>10, <2>11
       DEF Next, Boot, Write
<1> QED
  BY <1>1, <1>2, PTL DEF Spec

\* From the moment one copy is complete, one always is
\* (flash_config.c:33-37, 61-71).
THEOREM WritesKeepACopy == Spec => CopiesKept
<1>1. WriteDiscipline /\ [Next]_vars => [ACopySurvives => ACopySurvives']_vars
  <2> SUFFICES ASSUME WriteDiscipline, Next, ACopySurvives
               PROVE  ACopySurvives'
    OBVIOUS
  <2> USE DEF ACopySurvives, Complete, WriteDiscipline
  <2>1. CASE EraseA
    BY <2>1 DEF EraseA
  <2>2. CASE ProgramA
    BY <2>2 DEF ProgramA
  <2>3. CASE EraseB
    BY <2>3 DEF EraseB
  <2>4. CASE ProgramB
    BY <2>4 DEF ProgramB
  <2>5. CASE Boot \/ PowerLoss \/ \E c \in Config : Update(c)
    BY <2>5 DEF Boot, BootInSync, BootResync, BootRestore, BootFault,
                PowerLoss, Update
  <2> QED
    BY <2>1, <2>2, <2>3, <2>4, <2>5 DEF Next, Write
<1> QED
  BY <1>1, WriteDisciplineInvariant, PTL DEF Spec, CopiesKept

\* Once a device has held one complete copy, no scan of its texts leaves the
\* flash any more, at whatever step resets cut its writes and its repairs
\* (flash_config.c:15-39).
THEOREM CommissionedDevicesBoot == Spec => CommissionedNeverFaults
<1>1. WriteDiscipline /\ ACopySurvives => phase # "fault"
  BY DEF WriteDiscipline
<1>2. ACopySurvives /\ [ACopySurvives => ACopySurvives']_vars
      => ACopySurvives'
  BY DEF ACopySurvives, vars
<1> QED
  BY <1>1, <1>2, WriteDisciplineInvariant, WritesKeepACopy, PTL
     DEF CopiesKept, CommissionedNeverFaults

\* A commissioned device never loses its configuration, whatever the moment
\* of a power loss (flash_config.c:12-40, 55-78).
THEOREM CommissionedKeepsACopy ==
    ASSUME ~Fresh PROVE Spec => []ACopySurvives
<1>1. Init => ACopySurvives
  BY DEF Init, ACopySurvives, Text
<1>2. ACopySurvives /\ [ACopySurvives => ACopySurvives']_vars
      => ACopySurvives'
  BY DEF ACopySurvives, vars
<1> QED
  BY <1>1, <1>2, WritesKeepACopy, PTL DEF Spec, CopiesKept

-----------------------------------------------------------------------------
(* The two copies implement the register, whatever the length of the text. *)

LEMMA ReloadIsIdempotent ==
    ASSUME NEW c \in Config PROVE Reload(Reload(c)) = Reload(c)
BY DEF Reload, Config

LEMMA ReloadOfDefault == Reload(Default) = Default
BY ConstantsAssumption DEF Reload, Default

LEMMA ProgrammedText ==
    ASSUME NEW p \in Page, NEW c \in Config, NEW q \in Programmed(p, c)
    PROVE  /\ q \in Page /\ q.cfg = c
           /\ q.state = "closed" => q = Text("closed", c)
           /\ Parses(p) => Parses(q)
<1>1. q \in Page /\ q.cfg = c
  BY ProgrammedIsPage
<1>2. q.state = "closed" => q = Text("closed", c)
  BY <1>1 DEF Page, Text
<1>3. Parses(p) => Parses(q)
  BY DEF Programmed, Parses, Page, PageState, Text
<1> QED
  BY <1>1, <1>2, <1>3

\* A copy that parses reads as v.
Reads(p, v) == Parses(p) => Reload(p.cfg) = v

\* During a repair both copies read as what was loaded, once the first copy is
\* written; during a write the first copy, where it parses, spells the new
\* configuration and the second one is complete until then.
Sync ==
    /\ phase \in {"off", "fault"} => step = "idle"
    /\ phase = "boot" =>
          /\ step # "idle"
          /\ uconfig = Stored
          /\ Reload(json) = Stored
          /\ step \in {"eraseA", "progA"} => Reads(pageA, Stored)
          /\ step = "eraseA" => ~Parses(pageA)
    /\ phase = "run" /\ step # "idle" => json = uconfig
    /\ phase = "run" /\ step \in {"idle", "eraseA", "progA"} => Complete(pageB)
    /\ phase = "run" /\ step = "progA" => Reads(pageA, Reload(json))
    /\ step \in {"eraseB", "progB"} => pageA = Text("closed", json)
    /\ step = "progB" => Reads(pageB, Reload(json))

LEMMA SyncInvariant == Spec => []Sync
<1> USE DEF Sync, Complete
<1>1. Init => Sync
  BY DEF Init
<1>2. TypeOK /\ Sync /\ [Next]_vars => Sync'
  <2> SUFFICES ASSUME TypeOK, Sync, [Next]_vars PROVE Sync'
    OBVIOUS
  <2> USE DEF TypeOK
  <2>1. CASE BootInSync
    BY <2>1 DEF BootInSync, FindsBackup
  <2>2. CASE BootResync
    <3>1. Stored' = Stored /\ Stored = Reload(pageA.cfg)
      BY <2>2 DEF BootResync, Stored, Parses
    <3>2. pageA = Text("closed", pageA.cfg)
      BY <2>2 DEF BootResync, Text, Page
    <3> QED
      BY <2>2, <3>1, <3>2 DEF BootResync
  <2>3. CASE BootRestore
    <3>1. Stored' = Stored /\ uconfig' = Stored
      BY <2>3 DEF BootRestore, Stored, Parses
    <3>2. Reload(uconfig') = uconfig'
      BY <2>3, ReloadIsIdempotent, ReloadOfDefault DEF BootRestore, Page
    <3>3. ~Parses(pageA')
      BY <2>3 DEF BootRestore, Parses
    <3>4. CASE phase' = "boot"
      BY <2>3, <3>1, <3>2, <3>3, <3>4 DEF BootRestore, Reads
    <3>5. CASE phase' # "boot"
      BY <2>3, <3>5 DEF BootRestore
    <3> QED
      BY <3>4, <3>5
  <2>4. CASE BootFault
    BY <2>4 DEF BootFault
  <2>5. CASE EraseA
    <3>1. ~Parses(pageA')
      BY <2>5 DEF EraseA, Parses, Blank, Text
    <3>2. phase = "boot" => Stored' = Stored
      BY <2>5, <3>1 DEF EraseA, Stored, Parses
    <3> QED
      BY <2>5, <3>1, <3>2 DEF EraseA, Reads
  <2>6. CASE ProgramA
    <3>1. /\ pageA'.cfg = json
          /\ Parses(pageA) => Parses(pageA')
          /\ pageA'.state = "closed" => pageA' = Text("closed", json)
      BY <2>6, ProgrammedText DEF ProgramA
    <3>2. Reads(pageA', Reload(json))
      BY <3>1 DEF Reads
    <3>3. phase = "boot" => Stored' = Stored
      BY <2>6, <3>1 DEF ProgramA, Stored, Parses, Reads
    <3> QED
      BY <2>6, <3>1, <3>2, <3>3 DEF ProgramA
  <2>7. CASE EraseB
    <3>1. Stored' = Stored
      BY <2>7 DEF EraseB, Stored, Parses, Text
    <3>2. ~Parses(pageB')
      BY <2>7 DEF EraseB, Parses, Blank, Text
    <3> QED
      BY <2>7, <3>1, <3>2 DEF EraseB, Reads
  <2>8. CASE ProgramB
    <3>1. pageB'.cfg = json
      BY <2>8, ProgrammedText DEF ProgramB
    <3>2. Stored' = Stored
      BY <2>8 DEF ProgramB, Stored, Parses, Text
    <3> QED
      BY <2>8, <3>1, <3>2 DEF ProgramB, Reads
  <2>9. ASSUME NEW c \in Config, Update(c) PROVE Sync'
    BY <2>9 DEF Update
  <2>10. CASE PowerLoss
    BY <2>10 DEF PowerLoss
  <2>11. CASE UNCHANGED vars
    BY <2>11 DEF vars, Stored, Reads, Parses
  <2> QED
    BY <2>1, <2>2, <2>3, <2>4, <2>5, <2>6, <2>7, <2>8, <2>9, <2>10, <2>11
       DEF Next, Boot, Write
<1> QED
  BY <1>1, <1>2, TypeCorrect, PTL DEF Spec

\* __read_uconfig and __write_uconfig implement ConfigRegister, for texts of
\* any length: a write that returned is what every later boot loads until the
\* next write, a reset in the middle of a write loads the old configuration or
\* the new one, or the older one left by a write that was cut at its NUL, and a
\* repair at boot does not change what later boots load (flash_config.c:12-78).
THEOREM WritesAreAtomic == Spec => AtomicWrites
<1> USE DefaultIsConfig, ReloadIsConfig
    DEF Register!Init, Register!Next, Register!vars
<1>1. TypeOK => Stored \in Config
  BY DEF TypeOK, Stored, Page
<1>2. Init => Register!Init
  <2>1. Init => TypeOK
    BY DEF Init, TypeOK, Blank, Text, Page, PageState
  <2>2. Init => Backup = Stored
    BY DEF Init, Backup, Stored
  <2> QED
    BY <1>1, <2>1, <2>2 DEF Init
<1>3. /\ TypeOK /\ Sync /\ Sync' /\ [Next]_vars
      => [Register!Next]_(Register!vars)
  <2> SUFFICES ASSUME TypeOK, Sync, Sync', [Next]_vars
               PROVE  [Register!Next]_(Register!vars)
    OBVIOUS
  <2> USE DEF TypeOK, Complete
  <2>0. ASSUME UNCHANGED <<pageA, pageB>> PROVE UNCHANGED <<Stored, Backup>>
    BY <2>0 DEF Stored, Backup, Parses
  <2>1. CASE BootInSync
    <3>1. UNCHANGED <<Stored, Backup>> /\ uconfig' = Stored
      BY <2>0, <2>1 DEF BootInSync, Stored
    <3>2. Register!Load
      BY <2>1, <3>1 DEF BootInSync, Sync, Register!Load
    <3> QED
      BY <3>2
  <2>2. CASE BootResync \/ BootFault
    <3>1. UNCHANGED <<Stored, Backup>>
      BY <2>0, <2>2 DEF BootResync, BootFault
    <3> QED
      BY <2>2, <3>1 DEF BootResync, BootFault
  <2>3. CASE BootRestore
    <3>1. UNCHANGED <<Stored, Backup>> /\ uconfig' = Stored
      BY <2>0, <2>3 DEF BootRestore, Stored, Parses
    <3>2. CASE phase' = "run"
      <4>1. Register!Load
        BY <2>3, <3>1, <3>2 DEF BootRestore, Sync, Register!Load
      <4> QED
        BY <4>1
    <3>3. CASE phase' # "run"
      BY <2>3, <3>1, <3>3 DEF BootRestore
    <3> QED
      BY <3>2, <3>3
  <2>4. CASE EraseA
    <3>1. ~Parses(pageA') /\ UNCHANGED <<pageB, phase, uconfig>>
          /\ step # "idle" /\ step' # "idle"
      BY <2>4 DEF EraseA, Parses, Blank, Text
    <3>2. CASE phase = "run"
      <4>1. Parses(pageB)
        BY <2>4, <3>2 DEF EraseA, Sync, Parses
      <4>2. Stored' = Backup /\ Backup' = Backup
        BY <3>1, <4>1 DEF Stored, Backup, Parses
      <4>3. Register!Lapse
        BY <3>1, <3>2, <4>2 DEF Register!Lapse
      <4> QED
        BY <4>3
    <3>3. CASE phase # "run"
      <4>1. ~Parses(pageA)
        BY <2>4, <3>3 DEF EraseA, Sync
      <4>2. UNCHANGED <<Stored, Backup>>
        BY <3>1, <4>1 DEF Stored, Backup, Parses
      <4> QED
        BY <3>1, <3>3, <4>2
    <3> QED
      BY <3>2, <3>3
  <2>5. CASE ProgramA
    <3>1. pageA'.cfg = json /\ (Parses(pageA) => Parses(pageA'))
      BY <2>5, ProgrammedText DEF ProgramA
    <3>2. /\ UNCHANGED <<pageB, phase, uconfig, json>>
          /\ step # "idle" /\ step' # "idle"
      BY <2>5 DEF ProgramA
    <3>3. CASE phase = "run"
      <4>1. Parses(pageB) /\ json = uconfig
        BY <2>5, <3>3 DEF ProgramA, Sync, Parses
      <4>2. Backup' = Backup
        BY <3>2, <4>1 DEF Backup, Parses
      <4>3. CASE Parses(pageA')
        <5>1. Stored' = Reload(uconfig)
          BY <3>1, <4>1, <4>3 DEF Stored, Parses
        <5>2. Register!Commit
          BY <3>2, <3>3, <4>2, <5>1 DEF Register!Commit
        <5> QED
          BY <5>2
      <4>4. CASE ~Parses(pageA')
        <5>1. Stored' = Backup
          BY <3>2, <4>1, <4>4 DEF Stored, Backup, Parses
        <5>2. Register!Lapse
          BY <3>2, <3>3, <4>2, <5>1 DEF Register!Lapse
        <5> QED
          BY <5>2
      <4> QED
        BY <4>3, <4>4
    <3>4. CASE phase # "run"
      <4>1. phase = "boot"
        BY <2>5, <3>4 DEF ProgramA, Sync
      <4>2. Stored' = Stored
        BY <2>5, <3>1, <3>2, <4>1 DEF ProgramA, Sync, Stored, Parses, Reads
      <4>3. Backup' = Backup
        BY <3>2, <4>2 DEF Backup, Parses
      <4> QED
        BY <3>2, <3>4, <4>2, <4>3
    <3> QED
      BY <3>3, <3>4
  <2>6. CASE EraseB
    <3>1. Stored' = Stored /\ Stored = Reload(json)
      BY <2>6 DEF EraseB, Sync, Stored, Parses, Text
    <3>2. Backup' = Stored
      BY <2>6, <3>1 DEF EraseB, Backup, Parses, Blank, Text
    <3>3. Register!Settle
      BY <2>6, <3>1, <3>2 DEF EraseB, Sync, Register!Settle
    <3> QED
      BY <3>3
  <2>7. CASE ProgramB
    <3>1. Stored' = Stored /\ Stored = Reload(json)
      BY <2>7 DEF ProgramB, Sync, Stored, Parses, Text
    <3>2. pageB'.cfg = json
      BY <2>7, ProgrammedText DEF ProgramB
    <3>3. Backup' = Stored /\ Backup = Stored
      BY <2>7, <3>1, <3>2 DEF ProgramB, Sync, Backup, Parses, Reads
    <3>4. CASE pageB'.state # "closed"
      BY <2>7, <3>1, <3>3, <3>4 DEF ProgramB
    <3>5. CASE pageB'.state = "closed" /\ phase = "run"
      <4>1. Register!Finish
        BY <2>7, <3>1, <3>3, <3>5 DEF ProgramB, Sync, Register!Finish
      <4> QED
        BY <4>1
    <3>6. CASE pageB'.state = "closed" /\ phase = "boot"
      <4>1. Register!Load
        BY <2>7, <3>1, <3>3, <3>6 DEF ProgramB, Sync, Register!Load
      <4> QED
        BY <4>1
    <3> QED
      BY <2>7, <3>4, <3>5, <3>6 DEF ProgramB, Sync
  <2>8. ASSUME NEW c \in Config, Update(c)
        PROVE  [Register!Next]_(Register!vars)
    <3>1. UNCHANGED <<Stored, Backup>>
      BY <2>0, <2>8 DEF Update
    <3>2. CASE step' = "eraseA"
      <4>1. Register!Begin(c)
        BY <2>8, <3>1, <3>2 DEF Update, Register!Begin
      <4> QED
        BY <4>1
    <3>3. CASE step' = step
      <4>1. Register!Refuse(c)
        BY <2>8, <3>1, <3>3 DEF Update, Register!Refuse
      <4> QED
        BY <4>1
    <3> QED
      BY <2>8, <3>2, <3>3 DEF Update
  <2>9. CASE PowerLoss
    <3>1. UNCHANGED <<Stored, Backup>>
      BY <2>0, <2>9 DEF PowerLoss
    <3>2. Register!Reset
      BY <2>9, <3>1 DEF PowerLoss, Register!Reset
    <3> QED
      BY <3>2
  <2>10. CASE UNCHANGED vars
    BY <2>0, <2>10 DEF vars
  <2> QED
    BY <2>1, <2>2, <2>3, <2>4, <2>5, <2>6, <2>7, <2>8, <2>9, <2>10
       DEF Next, Boot, Write
<1> QED
  BY <1>2, <1>3, TypeCorrect, SyncInvariant, PTL
     DEF Spec, AtomicWrites, Register!Spec

-----------------------------------------------------------------------------
(* Two writers without a lock (ConfigWriters)                              *)

\* A write of isp is suspended only under one of tcpip, and while the latter
\* has returned without being left, one is.
Nesting == /\ thread = "isp" => outer = NoOuter
           /\ thread = "tcpip" /\ step = "idle" => outer # NoOuter

\* Every variable keeps its type when writes are nested, and isp always finds a
\* write to go on with (ConfigWriters.tla).
THEOREM WritersTypeCorrect == WritersSpec => [](WritersTypeOK /\ Nesting)
<1>1. WritersInit => WritersTypeOK /\ Nesting
  BY DefaultIsConfig, BlankIsPage
     DEF WritersInit, WritersTypeOK, Nesting, Init, TypeOK, Text, Page, PageState
<1>2. WritersTypeOK /\ Nesting /\ [WritersNext]_wvars
      => (WritersTypeOK /\ Nesting)'
  <2> SUFFICES ASSUME WritersTypeOK, Nesting, [WritersNext]_wvars
               PROVE  (WritersTypeOK /\ Nesting)'
    OBVIOUS
  <2> USE DEF WritersTypeOK, Nesting
  <2>1. CASE Booting
    BY <2>1, TypeStep
       DEF Booting, Next, Boot, BootInSync, BootResync, BootRestore, BootFault
  <2>2. CASE Program
    BY <2>2, TypeStep DEF Program, Next
  <2>3. CASE Confsrv
    <3>1. TypeOK'
      BY <2>3, TypeStep DEF Confsrv, Next
    <3> QED
      BY <2>3, <3>1 DEF Confsrv, Saves, TypeOK, Update
  <2>4. CASE Ota
    <3>1. PICK a \in App : Update([uconfig EXCEPT !.app = a])
      BY <2>4 DEF Ota
    <3>2. [uconfig EXCEPT !.app = a] \in Config
      BY DEF TypeOK, Config
    <3>3. TypeOK'
      BY <3>1, <3>2, TypeStep DEF Next
    <3> QED
      BY <2>4, <3>3 DEF Ota, Saves, TypeOK
  <2>5. CASE OtaNested
    <3>1. PICK a \in App : uconfig' = [uconfig EXCEPT !.app = a]
      BY <2>5 DEF OtaNested
    <3>2. uconfig' \in Config
      BY <3>1 DEF TypeOK, Config
    <3>3. step \in {"eraseA", "progA", "eraseB", "progB"}
      BY <2>5 DEF OtaNested, TypeOK
    <3>4. Interrupted(step) \subseteq {"eraseA", "progA", "eraseB", "progB"}
      BY <3>3 DEF Interrupted
    <3> QED
      BY <2>5, <3>2, <3>4 DEF OtaNested, TypeOK, Suspended, NoOuter
  <2>6. CASE Resume
    BY <2>6, DefaultIsConfig DEF Resume, TypeOK, Suspended, NoOuter
  <2>7. CASE Restart
    BY <2>7, TypeStep DEF Restart, Next
  <2>8. CASE UNCHANGED wvars
    BY <2>8, TypeStep DEF wvars, vars
  <2> QED
    BY <2>1, <2>2, <2>3, <2>4, <2>5, <2>6, <2>7, <2>8 DEF WritersNext
<1> QED
  BY <1>1, <1>2, PTL DEF WritersSpec

\* What the last command saved is in the first copy.
SavedInA == saved # NoSave => pageA = Text("closed", saved)

\* A nested write runs under a write of isp in a running system; the text
\* going to the first copy is the last one saved; and but for a backup that
\* isp had open, the backup is complete until the second copy is erased.
WritersInv ==
    /\ phase \in {"off", "fault"} => step = "idle"
    /\ phase # "run" => outer = NoOuter /\ thread = "isp" /\ saved = NoSave
    /\ outer.step = "eraseA" => saved = NoSave
    /\ thread = "tcpip" /\ step = "idle" => Complete(pageA)
    /\ step \in {"eraseA", "progA"} => saved \in {json, NoSave}
    /\ step \in {"eraseB", "progB"} => Complete(pageA) /\ SavedInA
    /\ phase = "run" /\ step = "idle" =>
          Complete(pageB) /\ SavedInA
    /\ phase = "run" /\ step \in {"eraseA", "progA", "eraseB"} =>
          Complete(pageB) \/ outer.step = "progB"
    /\ phase = "boot" /\ step \in {"eraseA", "progA"} =>
          Complete(pageB) \/ ~Complete(pageA)

LEMMA WritersInvariant == WritersSpec => []WritersInv
<1>1. WritersInit => WritersInv
  BY DEF WritersInit, Init, NoOuter, WritersInv
<1>2. WritersTypeOK /\ Nesting /\ WritersInv /\ [WritersNext]_wvars
      => WritersInv'
  <2> SUFFICES ASSUME WritersTypeOK, Nesting, WritersInv,
                      [WritersNext]_wvars
               PROVE  WritersInv'
    OBVIOUS
  <2> USE DEF WritersTypeOK, TypeOK, Nesting, WritersInv, Complete, SavedInA,
              ACopySurvives
  <2>1. CASE BootInSync /\ UNCHANGED <<thread, outer, saved>>
    BY <2>1 DEF BootInSync, FindsBackup, Parses
  <2>2. CASE BootResync /\ UNCHANGED <<thread, outer, saved>>
    BY <2>2 DEF BootResync
  <2>3. CASE BootRestore /\ UNCHANGED <<thread, outer, saved>>
    BY <2>3 DEF BootRestore, Parses
  <2>4. CASE BootFault /\ UNCHANGED <<thread, outer, saved>>
    BY <2>4 DEF BootFault, Parses, OverrunA, OverrunB, OverrunSearch
  <2>5. CASE EraseA /\ Program
    BY <2>5 DEF EraseA, Program, Blank, Text
  <2>6. CASE ProgramA /\ Program
    <3>1. pageA'.cfg = json /\ pageA' \in Page
      BY <2>6, ProgrammedIsPage DEF ProgramA
    <3>2. pageA'.state = "closed" => pageA' = Text("closed", json)
      BY <3>1 DEF Page, Text
    <3> QED
      BY <2>6, <3>2 DEF ProgramA, Program
  <2>7. CASE EraseB /\ Program
    BY <2>7 DEF EraseB, Program
  <2>8. CASE ProgramB /\ Program
    BY <2>8 DEF ProgramB, Program, Parses
  <2>9. CASE Confsrv
    <3>1. /\ phase = "run" /\ step = "idle" /\ outer = NoOuter
          /\ outer.step = "none"
          /\ UNCHANGED <<pageA, pageB, phase, thread, outer>>
      BY <2>9 DEF Confsrv, Update, NoOuter
    <3>2. \/ step' = "eraseA" /\ saved' = json'
          \/ step' = "idle" /\ saved' = saved
      BY <2>9 DEF Confsrv, Update, Saves
    <3> QED
      BY <3>1, <3>2 DEF Parses
  <2>10. CASE Ota
    <3>1. /\ phase = "run" /\ step = "idle" /\ outer = NoOuter
          /\ thread = "isp" /\ outer.step = "none"
          /\ UNCHANGED <<pageA, pageB, phase, outer>>
      BY <2>10 DEF Ota, Update, NoOuter
    <3>2. \/ step' = "eraseA" /\ thread' = "tcpip" /\ saved' = json'
          \/ step' = "idle" /\ thread' = "isp" /\ saved' = saved
      BY <2>10 DEF Ota, Update, Saves
    <3> QED
      BY <3>1, <3>2 DEF Parses
  <2>11. CASE OtaNested
    <3>1. CASE UNCHANGED <<json, step, thread, outer, saved>>
      BY <2>11, <3>1 DEF OtaNested
    <3>2. ASSUME NEW s \in Interrupted(step),
                 outer' = [step |-> s, json |-> json],
                 saved' = IF s = "eraseA" THEN NoSave ELSE uconfig',
                 json' = uconfig', step' = "eraseA", thread' = "tcpip"
          PROVE  WritersInv'
      <4>1. s = "progB" \/ step # "progB"
        BY DEF Interrupted
      <4>2. outer = NoOuter /\ outer.step = "none"
        BY <2>11 DEF OtaNested, NoOuter
      <4>3. outer'.step = s /\ outer' # NoOuter
        BY <3>2, <2>11 DEF NoOuter, Interrupted, OtaNested
      <4>4. (step \in {"eraseA", "progA", "eraseB"} => Complete(pageB))
        BY <2>11, <4>2 DEF OtaNested
      <4> QED
        BY <2>11, <3>2, <4>1, <4>3, <4>4 DEF OtaNested
    <3> QED
      BY <2>11, <3>1, <3>2 DEF OtaNested
  <2>12. CASE Resume
    <3>1. outer # NoOuter /\ phase = "run" /\ thread' = "isp"
      BY <2>12 DEF Resume
    <3>2. outer \in Suspended
      BY <3>1
    <3>3. outer.step \in {"eraseA", "progA", "eraseB", "progB"}
      BY <3>2 DEF Suspended
    <3>4. /\ Complete(pageB) /\ SavedInA
          /\ UNCHANGED <<pageA, pageB, phase, saved>>
          /\ outer' = NoOuter /\ outer'.step = "none"
      BY <2>12, <3>1 DEF Resume, NoOuter
    <3>5. CASE outer.step = "eraseA"
      BY <2>12, <3>1, <3>4, <3>5 DEF Resume
    <3>6. CASE outer.step \in {"progA", "eraseB"}
      <4>1. step' = "eraseB"
        BY <2>12, <3>6 DEF Resume
      <4>2. Complete(pageA)
        BY <2>12 DEF Resume
      <4> QED
        BY <3>1, <3>4, <4>1, <4>2
    <3>7. CASE outer.step = "progB"
      <4>1. step' = "idle"
        BY <2>12, <3>7 DEF Resume
      <4> QED
        BY <3>1, <3>4, <4>1 DEF Parses
    <3> QED
      BY <3>3, <3>5, <3>6, <3>7
  <2>13. CASE Restart
    BY <2>13 DEF Restart, PowerLoss, NoOuter
  <2>14. CASE UNCHANGED wvars
    BY <2>14 DEF wvars, vars, Parses
  <2> QED
    BY <2>1, <2>2, <2>3, <2>4, <2>5, <2>6, <2>7, <2>8, <2>9, <2>10, <2>11,
       <2>12, <2>13, <2>14 DEF WritersNext, Booting, Boot, Program, Write
<1> QED
  BY <1>1, <1>2, WritersTypeCorrect, PTL DEF WritersSpec

\* However the writes of isp and tcpip are nested, when they have returned the
\* second copy is complete and the next boot loads what the last command saved
\* (flash_config.c:12-78, flash_opt.c:141-175).
THEOREM NestedSavesWin == WritersSpec => []LastSaveWins
<1>1. WritersInv => LastSaveWins
  BY DEF WritersInv, LastSaveWins, Quiet, Complete, SavedInA
<1> QED
  BY <1>1, WritersInvariant, PTL

\* The last complete copy is lost only by a nested write over a second copy
\* that isp has open (flash_config.c:18).
THEOREM NestedWritesKeepACopy == WritersSpec => CopiesKeptUnlessOpen
<1>1. WritersTypeOK /\ WritersInv /\ [WritersNext]_wvars
      => [ACopySurvives => ACopySurvives' \/ outer.step = "progB"]_wvars
  <2> SUFFICES ASSUME WritersTypeOK, WritersInv, WritersNext,
                      ACopySurvives
               PROVE  ACopySurvives' \/ outer.step = "progB"
    OBVIOUS
  <2> USE DEF ACopySurvives, WritersInv, Complete, WritersTypeOK, TypeOK
  <2>1. CASE EraseA
    BY <2>1 DEF EraseA
  <2>2. CASE ProgramA
    BY <2>2 DEF ProgramA
  <2>3. CASE EraseB
    BY <2>3 DEF EraseB
  <2>4. CASE ProgramB
    BY <2>4 DEF ProgramB
  <2>5. CASE UNCHANGED <<pageA, pageB>>
    BY <2>5
  <2> QED
    BY <2>1, <2>2, <2>3, <2>4, <2>5
       DEF WritersNext, Booting, Boot, BootInSync, BootResync, BootRestore,
           BootFault, Program, Write, Confsrv, Ota, OtaNested, Update, Resume,
           Restart, PowerLoss
<1> QED
  BY <1>1, WritersTypeCorrect, WritersInvariant, PTL
     DEF WritersSpec, CopiesKeptUnlessOpen
=============================================================================
