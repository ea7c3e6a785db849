--------------------------- MODULE OtaBoot_proof ---------------------------
(***************************************************************************)
(* Proofs about OtaBoot for every set of images and every assignment of    *)
(* kinds to them.                                                          *)
(***************************************************************************)
EXTENDS OtaBoot, TLAPS

\* A configuration that says finished was given a part of the installed MD5.
Truthful(c) == c.flag = "FINISH" /\ NoImage \notin Within[c.target] =>
                   \E i \in Within[c.target] : Spells(i)

\* While the bootloader works, the request it serves is in flash as in memory.
Serving == pc \in {"check", "erase", "head", "tail", "verify"} =>
               uconfig = stored /\ stored.flag = "READY"

\* FinishedMeansInstalled is not inductive: a save may bring uconfig back, and
\* the copy must not overwrite an image that is still said to be installed.
FinishInv == /\ TypeOK /\ Serving
             /\ ~lapsed => Truthful(stored) /\ Truthful(uconfig)

\* The variables keep their types, whatever is downloaded, asked for or reset.
THEOREM TypeCorrect == Spec => []TypeOK
<1> USE OtaAssumption DEF OtaAssumption, TypeOK, Conf, Flag
<1>1. Init => TypeOK
  <2> SUFFICES ASSUME Init PROVE TypeOK
    OBVIOUS
  <2>1. stored \in Conf /\ older \in Conf /\ uconfig \in Conf
    BY DEF Init, Wanted
  <2>2. pgerr \in BOOLEAN /\ plain \in BOOLEAN /\ lapsed \in BOOLEAN
    BY Zenon DEF Init
  <2> QED
    BY <2>1, <2>2 DEF Init, Content
<1>2. TypeOK /\ [Next]_vars => TypeOK'
  <2> SUFFICES ASSUME TypeOK, [Next]_vars PROVE TypeOK'
    OBVIOUS
  <2>1. ASSUME NEW f \in Flag PROVE [uconfig EXCEPT !.flag = f] \in Conf
    OBVIOUS
  <2>2. CASE Start
    BY <2>2 DEF Start
  <2>3. CASE Reject
    BY <2>3, <2>1 DEF Reject, Save
  <2>4. CASE Accept \/ Erase \/ StartUnverified
    BY <2>4 DEF Accept, Erase, StartUnverified, Content
  <2>5. CASE CopyHead \/ CopyTail
    BY <2>5 DEF CopyHead, CopyTail, Content
  <2>6. CASE Finish
    BY <2>6, <2>1 DEF Finish, Save
  <2>7. CASE DownloadBegins
    BY <2>7 DEF DownloadBegins, Content
  <2>8. CASE DownloadEnds
    BY <2>8 DEF DownloadEnds, Content
  <2>9. CASE RequestUpdate
    BY <2>9 DEF RequestUpdate, Save, Request, Wanted
  <2>10. CASE SaveOther \/ Reset
    BY <2>10 DEF SaveOther, Save, Reset, Content
  <2>11. CASE ResetInSave
    BY <2>11 DEF ResetInSave
  <2>12. CASE UNCHANGED vars
    BY <2>12 DEF vars
  <2> QED
    BY <2>2, <2>3, <2>4, <2>5, <2>6, <2>7, <2>8, <2>9, <2>10, <2>11, <2>12
       DEF Next, Boot, Application
<1> QED
  BY <1>1, <1>2, PTL DEF Spec

\* A step that leaves the application area alone and moves no new claim into
\* memory or flash keeps every claim true.
LEMMA ClaimsCarry ==
  ASSUME Truthful(stored), Truthful(uconfig), UNCHANGED <<head, tail>>,
         uconfig' \in {uconfig, stored} \/ uconfig'.flag # "FINISH",
         stored' \in {stored, uconfig'}
  PROVE  Truthful(stored)' /\ Truthful(uconfig)'
<1>1. \A i : Spells(i)' = Spells(i)
  BY DEF Spells
<1> QED
  BY <1>1 DEF Truthful

\* The verified copy is what the wanted MD5 was found in.
LEMMA VerifiedIsInstalled ==
  ASSUME Verified, NoImage \notin Within[uconfig.target]
  PROVE  \E i \in Within[uconfig.target] : Spells(i)
BY DEF Verified, Matches, CopyMd5

\* bootloader_main.c:154-157: the finished flag in flash is no lie, with every
\* kind of image and every wanted text, faulty half-words, unsaved requests and
\* resets in the middle of saves, until a save that a reset cuts brings back
\* the configuration of before another cut save.
THEOREM FinishedIsInstalled == Spec => []FinishedMeansInstalled
<1>1. Init /\ TypeOK => FinishInv
  BY DEF Init, FinishInv, Truthful, Serving
<1>2. FinishInv /\ TypeOK' /\ [Next]_vars => FinishInv'
  <2> SUFFICES ASSUME FinishInv, TypeOK', [Next]_vars
               PROVE /\ Serving'
                     /\ ~lapsed' => Truthful(stored)' /\ Truthful(uconfig)'
    BY DEF FinishInv
  <2>0. lapsed => lapsed'
    BY DEF Next, Boot, Application, vars, Start, Reject, Accept, Erase,
           CopyHead, CopyTail, Finish, StartUnverified, DownloadBegins,
           DownloadEnds, RequestUpdate, SaveOther, Reset, ResetInSave
  <2>1. CASE lapsed /\ ~ResetInSave
    <3>1. Serving'
      BY <2>1 DEF FinishInv, Serving, Next, Boot, Application, vars, Start,
         Reject, Accept, Erase, CopyHead, CopyTail, Finish, StartUnverified,
         DownloadBegins, DownloadEnds, RequestUpdate, SaveOther, Reset
    <3> QED
      BY <2>0, <2>1, <3>1
  <2>2. CASE ResetInSave
    <3>1. Serving'
      BY <2>2 DEF ResetInSave, Serving
    <3>2. SUFFICES ASSUME ~lapsed'
                   PROVE  Truthful(stored)' /\ Truthful(uconfig)'
      BY <3>1
    <3>3. Truthful(stored) /\ Truthful(uconfig)
      BY <2>0, <3>2 DEF FinishInv
    <3>4. PICK c \in Conf : /\ Saving(c) /\ stored' \in {older, c}
                            /\ lapsed' = (lapsed \/ stored' \notin {stored, c})
      BY <2>2 DEF ResetInSave
    <3>5. stored' \in {stored, c}
      BY <3>2, <3>4, Zenon
    <3>6. UNCHANGED <<head, tail>> /\ uconfig' = stored'
      BY <2>2 DEF ResetInSave
    <3>7. CASE c = uconfig \/ c.flag # "FINISH"
      BY <3>3, <3>5, <3>6, <3>7, ClaimsCarry
    <3>8. CASE Verified /\ c = [uconfig EXCEPT !.flag = "FINISH"]
      <4>1. c.target = uconfig.target
        BY <3>8 DEF FinishInv, TypeOK, Conf
      <4>2. Truthful(c)'
        BY <3>6, <3>8, <4>1, VerifiedIsInstalled DEF Truthful, Spells
      <4>3. Truthful(stored)'
        BY <3>3, <3>5, <3>6, <4>2 DEF Truthful, Spells
      <4> QED
        BY <3>6, <4>3 DEF Truthful, Spells
    <3> QED
      BY <3>4, <3>7, <3>8 DEF Saving, Request, FinishInv, TypeOK, Conf
  <2>3. CASE ~lapsed /\ ~ResetInSave
    <3> USE <2>3 DEF FinishInv
    <3>1. CASE Start
      BY <3>1, ClaimsCarry DEF Start, Serving
    <3>2. CASE Reject
      <4>1. uconfig'.flag = "ERROR"
        BY <3>2 DEF Reject, Save, TypeOK, Conf
      <4> QED
        BY <3>2, <4>1, ClaimsCarry DEF Reject, Save, Serving
    <3>3. CASE Accept
      BY <3>3, ClaimsCarry DEF Accept, Serving
    <3>4. CASE Erase \/ CopyHead \/ CopyTail
      <4>1. UNCHANGED <<stored, uconfig>> /\ pc' \in {"head", "tail", "verify"}
        BY <3>4 DEF Erase, CopyHead, CopyTail
      <4>2. uconfig = stored /\ stored.flag = "READY"
        BY <3>4 DEF Erase, CopyHead, CopyTail, Serving
      <4> QED
        BY <4>1, <4>2 DEF Truthful, Serving
    <3>5. CASE Finish
      <4>1. uconfig'.target = uconfig.target
        BY <3>5 DEF Finish, Save, TypeOK, Conf
      <4>2. Truthful(uconfig)'
        BY <3>5, <4>1, VerifiedIsInstalled DEF Finish, Truthful, Spells
      <4> QED
        BY <3>5, <4>2 DEF Finish, Save, Truthful, Spells, Serving
    <3>6. CASE StartUnverified \/ DownloadBegins \/ DownloadEnds
      BY <3>6, ClaimsCarry
         DEF StartUnverified, DownloadBegins, DownloadEnds, Serving
    <3>7. CASE RequestUpdate
      <4>1. uconfig'.flag = "READY" /\ stored' \in {stored, uconfig'}
        BY <3>7 DEF RequestUpdate, Save, Request
      <4> QED
        BY <3>7, <4>1, ClaimsCarry DEF RequestUpdate, Serving
    <3>8. CASE SaveOther
      BY <3>8, ClaimsCarry DEF SaveOther, Save, Serving
    <3>9. CASE Reset
      <4>1. Truthful(stored)' /\ Truthful(uconfig)'
        <5>1. \A i \in Content : Spells(i) => Spells(i)'
          BY <3>9, OtaAssumption DEF Reset, Spells, OtaAssumption, Content
        <5>2. Within[stored.target] \subseteq Content
          BY OtaAssumption DEF OtaAssumption, TypeOK, Conf
        <5> QED
          BY <3>9, <5>1, <5>2 DEF Reset, Truthful
      <4> QED
        BY <3>9, <4>1 DEF Reset, Serving
    <3>10. CASE UNCHANGED vars
      BY <3>10 DEF vars, Truthful, Spells, Serving
    <3> QED
      BY <3>1, <3>2, <3>3, <3>4, <3>5, <3>6, <3>7, <3>8, <3>9, <3>10
         DEF Next, Boot, Application
  <2> QED
    BY <2>1, <2>2, <2>3
<1>3. FinishInv => FinishedMeansInstalled
  BY DEF FinishInv, Truthful, FinishedMeansInstalled
<1> QED
  BY <1>1, <1>2, <1>3, TypeCorrect, PTL DEF Spec

-----------------------------------------------------------------------------
Whole == \E i \in Image : head = i /\ Kind[i] = "fit"

Named(c) == c.flag = "READY" => Ordinary(c.target)

\* The request and the image that a boot would find let it begin again.
Repeatable == stored.flag = "READY" /\ zone = stored.target /\ zoneKind = "fit"

\* The erased application is the danger: from the erase on, the request and the
\* download must stay as they are until the copy is complete.
PlainInv == /\ zone # NoImage => zoneKind = Kind[zone]
            /\ Named(stored) /\ Named(older) /\ Named(uconfig)
            /\ Serving
            /\ pc # "tail"
            /\ pc \in {"erase", "head", "verify"} => Repeatable
            /\ pc = "verify" => head = uconfig.target
            /\ pc = "app" => Whole
            /\ pc \in {"off", "check"} => Whole \/ Repeatable
            /\ pgerr = FALSE

BootInv == TypeOK /\ (plain => PlainInv)

\* A whole MD5 is found in one MD5 only.
LEMMA OrdinaryMatch ==
  ASSUME TypeOK, Ordinary(uconfig.target)
  PROVE  Within[uconfig.target] = {uconfig.target}
BY OtaAssumption DEF OtaAssumption, TypeOK, Conf, Ordinary

\* The copy of an image that fits has its MD5.
LEMMA CopyVerified ==
  ASSUME TypeOK, PlainInv, pc = "verify"
  PROVE  Verified
<1>1. /\ head = uconfig.target /\ zone = uconfig.target /\ zoneKind = "fit"
      /\ Ordinary(uconfig.target)
  BY DEF PlainInv, Repeatable, Serving, Named
<1>2. zone \in Image /\ zone # NoImage /\ Kind[zone] = "fit"
  BY <1>1, OtaAssumption DEF PlainInv, Ordinary, OtaAssumption
<1>3. CopyMd5 = zone
  BY <1>1, <1>2 DEF CopyMd5, Spells
<1> QED
  BY <1>1, <1>3, OrdinaryMatch DEF Verified, Matches

LEMMA BootInvariant == Spec => []BootInv
<1>1. Init /\ TypeOK => BootInv
  BY OtaAssumption DEF OtaAssumption, Init, BootInv, PlainInv, Named, Serving,
         Whole
<1>2. BootInv /\ TypeOK' /\ [Next]_vars => BootInv'
  <2> SUFFICES ASSUME BootInv, TypeOK', [Next]_vars, plain'
               PROVE  PlainInv'
    BY DEF BootInv
  <2>0. plain /\ PlainInv
    BY DEF BootInv, Next, Boot, Application, vars, Start, Reject, Accept,
           Erase, CopyHead, CopyTail, Finish, StartUnverified, DownloadBegins,
           DownloadEnds, RequestUpdate, SaveOther, Reset, ResetInSave
  <2> USE <2>0 DEF BootInv, PlainInv, Named, Serving, Whole, Repeatable
  <2>1. CASE Start
    BY <2>1 DEF Start, TypeOK, Conf
  <2>2. CASE Reject
    <3>1. uconfig'.flag = "ERROR" /\ stored' = uconfig' /\ older' = uconfig'
      BY <2>2 DEF Reject, Save, TypeOK, Conf
    <3>2. ~Repeatable
      BY <2>2, OrdinaryMatch DEF Reject, Refused, Matches, ZoneMd5
    <3> QED
      BY <2>2, <3>1, <3>2 DEF Reject, Refused
  <2>3. CASE Accept
    <3>1. zone = uconfig.target /\ zone # NoImage
      BY <2>3, OtaAssumption, OrdinaryMatch
         DEF OtaAssumption, Accept, Refused, Matches, ZoneMd5, TypeOK, Conf,
             Ordinary
    <3>2. zoneKind = "fit"
      BY <2>3, <3>1 DEF Accept, Refused, Ordinary, TypeOK, Conf
    <3> QED
      BY <2>3, <3>1, <3>2 DEF Accept
  <2>4. CASE Erase
    BY <2>4 DEF Erase
  <2>5. CASE CopyHead
    BY <2>5 DEF CopyHead
  <2>6. CASE CopyTail
    BY <2>6 DEF CopyTail
  <2>7. CASE Finish
    <3>1. uconfig'.flag = "FINISH" /\ stored' = uconfig' /\ older' = uconfig'
      BY <2>7 DEF Finish, Save, TypeOK, Conf
    <3>2. head \in Image /\ Kind[head] = "fit"
      BY <2>7, OtaAssumption
         DEF OtaAssumption, Finish, Verified, TypeOK, Conf, Ordinary
    <3> QED
      BY <2>7, <3>1, <3>2 DEF Finish
  <2>8. CASE StartUnverified
    <3>1. Verified
      BY <2>8, CopyVerified DEF StartUnverified
    <3> QED
      BY <2>8, <3>1 DEF StartUnverified
  <2>9. CASE DownloadBegins \/ DownloadEnds
    BY <2>9 DEF DownloadBegins, DownloadEnds
  <2>10. CASE RequestUpdate
    <3>1. PICK t \in Target :
             /\ uconfig' = [flag |-> "READY", target |-> t]
             /\ stored' \in {stored, uconfig'}
             /\ older' \in {older, uconfig'}
             /\ plain' = (plain /\ Ordinary(t))
      BY <2>10 DEF RequestUpdate, Save, Request
    <3>2. Ordinary(t)
      BY <3>1, Zenon
    <3> QED
      BY <2>10, <3>1, <3>2 DEF RequestUpdate
  <2>11. CASE SaveOther
    BY <2>11 DEF SaveOther, Save
  <2>12. CASE Reset
    BY <2>12 DEF Reset, TypeOK
  <2>13. CASE ResetInSave
    <3>1. PICK c \in Conf :
             /\ Saving(c)
             /\ stored' \in {older, c} /\ older' \in {older, stored'}
             /\ plain' = (plain /\ (c = Request(c.target) => Ordinary(c.target)))
      BY <2>13 DEF ResetInSave
    <3>2. /\ pc' = "off" /\ uconfig' = stored'
          /\ UNCHANGED <<zone, zoneKind, head, tail, pgerr>>
      BY <2>13 DEF ResetInSave
    <3>3. c = Request(c.target) => Ordinary(c.target)
      BY <3>1, Zenon
    <3>4. Named(c)
      <4>1. c.flag = "READY" => c = Request(c.target)
        BY DEF Conf, Request
      <4> QED
        BY <3>3, <4>1
    <3>5. Whole
      <4>1. CASE Refused
        BY <4>1, OrdinaryMatch DEF Refused, Matches, ZoneMd5
      <4>2. CASE Verified
        BY <4>2, OtaAssumption DEF OtaAssumption, Verified, TypeOK, Conf, Ordinary
      <4> QED
        BY <3>1, <4>1, <4>2 DEF Saving
    <3>6. Named(stored') /\ Named(older') /\ Named(uconfig')
      BY <3>1, <3>2, <3>4
    <3> QED
      BY <3>2, <3>5, <3>6
  <2>14. CASE UNCHANGED vars
    BY <2>14 DEF vars
  <2> QED
    BY <2>1, <2>2, <2>3, <2>4, <2>5, <2>6, <2>7, <2>8, <2>9, <2>10, <2>11,
       <2>12, <2>13, <2>14 DEF Next, Boot, Application
<1> QED
  BY <1>1, <1>2, TypeCorrect, PTL DEF Spec

\* bootloader_main.c:91-163: with ordinary requests and a working flash, resets
\* and downloads at any moment never make the bootloader start a torn copy.
THEOREM AppIsWhole == Spec => []NeverStartsBrokenApp
<1>1. BootInv => NeverStartsBrokenApp
  BY OtaAssumption
     DEF OtaAssumption, BootInv, PlainInv, Whole, NeverStartsBrokenApp,
         Spells
<1> QED
  BY <1>1, BootInvariant, PTL

\* bootloader_main.c:91-180: with ordinary requests and a working flash the
\* application is started with an answer on record: the branch that starts an
\* unverified copy and leaves the request standing is never taken.
THEOREM RequestsAreAnswered == Spec => RequestAnswered
<1> DEFINE Answers == pc # "app" /\ pc' = "app" /\ plain => stored'.flag # "READY"
<1>1. BootInv /\ [Next]_vars => [Answers]_vars
  <2> SUFFICES ASSUME BootInv, Next, pc # "app", pc' = "app", plain
               PROVE  stored'.flag # "READY"
    OBVIOUS
  <2>1. PlainInv /\ TypeOK
    BY DEF BootInv
  <2>2. CASE Start
    BY <2>2 DEF Start
  <2>3. CASE Reject
    BY <2>1, <2>3 DEF Reject, Save, PlainInv, TypeOK, Conf
  <2>4. CASE Finish
    BY <2>1, <2>4 DEF Finish, Save, PlainInv, TypeOK, Conf
  <2>5. CASE StartUnverified
    BY <2>1, <2>5, CopyVerified DEF StartUnverified
  <2> QED
    BY <2>2, <2>3, <2>4, <2>5 DEF Next, Boot, Application, Accept, Erase,
       CopyHead, CopyTail, DownloadBegins, DownloadEnds, RequestUpdate,
       SaveOther, Reset, ResetInSave
<1> QED
  BY <1>1, BootInvariant, PTL DEF Spec, RequestAnswered
=============================================================================
