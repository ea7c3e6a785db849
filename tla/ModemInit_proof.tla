-------------------------- MODULE ModemInit_proof --------------------------
(***************************************************************************)
(* Proofs about ModemInit: the supervisor keeps its promises with the      *)
(* whole of init_modem in it, and the link is dialled for the card that is *)
(* in the modem, for every set of cards, APN table and number of tries.    *)
(***************************************************************************)
EXTENDS ModemInit, PppService_proof

\* A dial is tried with an entry of the table.
TriesEntry == at = "atd" => tries < ApnCount[card]

\* The steps that leave the supervisor alone, and the others.
LEMMA ModemSteps ==
    ASSUME [ModemNext]_mvars
    PROVE  UNCHANGED vars \/ Next \/ Connect
BY DEF ModemNext, mvars, Asks, Power, Probe, Setup, Gsn, Ccid, Register, Query,
       Chooses, Compare, Apn, NoConnect, NoCmux, Ready, Inside, Supervise,
       Around, Behave, Next, Mainloop

\* The restart of the device, as the supervisor sees it.
LEMMA ConnectRestarts ==
    ASSUME Connect
    PROVE  /\ sys = "INITMODEM" /\ step = "loop"
           /\ sys' = "NORMAL" /\ ppp' = "NONE" /\ branch' = "INITPPP"
           /\ mark' = 0 /\ csq' = 0 /\ link' = "closed"
           /\ UNCHANGED <<step, silence, early>>
BY Zenon DEF Connect

\* The types of the supervisor, also over a restart of the device.
LEMMA SupervisorTypeStep ==
    ASSUME TypeOK, [ModemNext]_mvars PROVE TypeOK'
<1>1. CASE Connect
  <2>1. xmpp' \in BOOLEAN
    BY <1>1, Zenon DEF Connect
  <2> QED
    BY <1>1, <2>1, ConnectRestarts, PppAssumption DEF TypeOK, Session
<1> QED
  BY <1>1, ModemSteps, TypeStep

\* What the supervisor knows survives the restart: no session is open then.
LEMMA SupervisorStep ==
    ASSUME TypeOK, LinkInv, [ModemNext]_mvars PROVE LinkInv'
<1>1. CASE Connect
  BY <1>1, ConnectRestarts
     DEF TypeOK, LinkInv, MarkFresh, Placed, Known, Told, Torn
<1> QED
  BY <1>1, ModemSteps, LinkStep

LEMMA SupervisorInvariant == ModemSpec => [](TypeOK /\ LinkInv)
<1>1. Init => TypeOK
  <2>1. Init => xmpp \in BOOLEAN /\ early \in BOOLEAN
    BY Zenon DEF Init
  <2> QED
    BY <2>1, PppAssumption DEF Init, TypeOK, Session
<1> QED
  BY <1>1, LinkInit, SupervisorTypeStep, SupervisorStep, PTL
     DEF ModemSpec, PortInit

\* ppp_service.c:129,180-249: with init_modem in the loop too, a session that
\* ended with an error after the dial leaves a status that closes it.
THEOREM ModemFailuresStayOnRecord == ModemSpec => []FailureOnRecord
<1>1. PortInit => FailureOnRecord
  BY DEF PortInit, Init, FailureOnRecord
<1>2. TypeOK /\ LinkInv /\ FailureOnRecord /\ [ModemNext]_mvars
      => FailureOnRecord'
  <2> SUFFICES ASSUME TypeOK, LinkInv, FailureOnRecord, [ModemNext]_mvars
               PROVE  FailureOnRecord'
    OBVIOUS
  <2>1. CASE Connect
    BY <2>1 DEF Connect, FailureOnRecord, LinkInv, Known
  <2> QED
    BY <2>1, ModemSteps, RecordStep
<1> QED
  BY <1>1, <1>2, SupervisorInvariant, PTL DEF ModemSpec

\* ppp_service.c:120-132,434-442: a link is torn down for cause only, also by
\* the restart that ends the search for an APN.
THEOREM ModemTornDownJustly == ModemSpec => TornDownForCause
<1>1. TypeOK /\ LinkInv /\ [ModemNext]_mvars => [DownForCause]_vars
  <2> SUFFICES ASSUME TypeOK, LinkInv, [ModemNext]_mvars
               PROVE  [DownForCause]_vars
    OBVIOUS
  <2>1. CASE Connect
    BY <2>1 DEF Connect, DownForCause, LinkInv, Known, Torn
  <2> QED
    BY <2>1, ModemSteps, DownStep
<1> QED
  BY <1>1, SupervisorInvariant, PTL
     DEF ModemSpec, TornDownForCause, DownForCause

\* ppp_service.c:189-217: with init_modem and its restarts too, two sessions
\* never overlap.
THEOREM ModemSessionsInTurn == ModemSpec => OneSession
<1>1. LinkInv /\ [ModemNext]_mvars => [OpensClosed]_vars
  <2> SUFFICES ASSUME LinkInv, [ModemNext]_mvars PROVE [OpensClosed]_vars
    OBVIOUS
  <2>1. CASE Connect
    BY <2>1 DEF Connect, OpensClosed
  <2> QED
    BY <2>1, ModemSteps, OpenStep
<1> QED
  BY <1>1, SupervisorInvariant, PTL DEF ModemSpec, OneSession, OpensClosed

-----------------------------------------------------------------------------
(* init_modem *)

\* The cards that AT_CCID cannot tell from the one in the modem.
Alike == {c \in Card : Number[c] = Number[card]}

\* What a CCID that was read properly says, and what the saved one says.
CardInv ==
    /\ conf.ccid = Number[card] => conf.of \in Alike
    /\ at \in {"register", "query", "compare", "apn", "atd"} /\ ~missed =>
          ccid = Number[card]
    /\ at = "cmux" /\ ~missed => conf.of \in Alike
    /\ CardKnown

LEMMA ModemNumbers ==
    /\ IdTries \in Nat \ {0} /\ RegTries \in Nat \ {0}
    /\ \A c \in Card : ApnCount[c] \in Nat
BY ModemAssumption

LEMMA CardNames ==
    \A c \in Card : Number[c] # "none" /\ Number[c] # "junk" /\ Number[c] # ""
BY ModemAssumption, Zenon

\* Whatever comes in time, what is still to come is an answer to this command
\* or to the last late one.
LEMMA BuffersLate ==
    ASSUME late \in Commands \union {"none"}, NEW k \in Commands,
           NEW b \in Buffers(k)
    PROVE  b.late \in Commands \union {"none"}
BY DEF Buffers, Commands

\* The parts of ModemTypeOK.
Place == /\ at \in {"power", "probe", "setup", "gsn", "ccid", "register",
                    "query", "compare", "apn", "atd", "cmux"}
         /\ tries \in Nat
         /\ at \in {"probe", "setup"} => tries <= 2
         /\ at \in {"gsn", "ccid"} => tries < IdTries
         /\ at \in {"register", "query"} => tries < RegTries
         /\ at \in {"apn", "atd"} => tries <= ApnCount[card]
         /\ TriesEntry
Cards == /\ card \in Card
         /\ ccid \in Numbers \union {"junk", ""}
         /\ conf \in [ccid : Numbers \union {"none", "junk", ""},
                      of : Card \union {"none"}]
Late == late \in Commands \union {"none"}
Flags == missed \in BOOLEAN /\ calm \in BOOLEAN
PortTyped == Place /\ Cards /\ Late /\ Flags

LEMMA PortParts == ModemTypeOK /\ TriesEntry <=> TypeOK /\ PortTyped
BY DEF ModemTypeOK, PortTyped, Place, Cards, Late, Flags

\* The parts of ModemTypeOK that a step leaves alone.
LEMMA CardsKept ==
    ASSUME Cards, UNCHANGED <<card, ccid, conf>> PROVE Cards'
BY DEF Cards

LEMMA PlaceKept ==
    ASSUME Place, UNCHANGED <<at, tries, card>> PROVE Place'
BY DEF Place, TriesEntry

LEMMA FlagsKept ==
    ASSUME Flags, UNCHANGED <<missed, calm>> PROVE Flags'
BY DEF Flags

\* No step of init_modem leaves its loops or forgets whose entry it tries.
LEMMA PortTypeStep ==
    ASSUME PortTyped, [ModemNext]_mvars PROVE PortTyped'
<1> USE ModemNumbers DEF PortTyped
<1>1. card' = card
  BY DEF ModemNext, mvars, Asks, Power, Probe, Setup, Gsn, Ccid, Register,
         Query, Chooses, Compare, Apn, NoConnect, Connect, NoCmux, Ready,
         Inside, Supervise, Around, Behave
<1>2. CASE Power
  <2>1. /\ at' = "probe" /\ tries' = 0
        /\ late' \in {late, "none"}
        /\ UNCHANGED <<ccid, conf, missed, calm>>
    BY <1>2 DEF Power, Inside, Goes
  <2>2. Place'
    BY <2>1 DEF Place, TriesEntry
  <2>3. Late'
    BY <2>1 DEF Late
  <2> QED
    BY <1>1, <2>1, <2>2, <2>3, CardsKept, FlagsKept
<1>3. CASE Probe
  <2>1. UNCHANGED <<ccid, conf, missed, calm>>
    BY <1>3 DEF Probe, Inside
  <2>2. Late'
    BY <1>3, BuffersLate DEF Probe, Late, Commands
  <2>3. Place'
    BY <1>1, <1>3 DEF Probe, Inside, Goes, Again, Place, TriesEntry
  <2> QED
    BY <1>1, <2>1, <2>2, <2>3 DEF Cards, Flags
<1>4. CASE Setup
  <2>1. UNCHANGED <<ccid, conf, missed, calm>>
    BY <1>4 DEF Setup, Inside
  <2>2. Late'
    BY <1>4, BuffersLate DEF Setup, Late, Commands
  <2>3. Place'
    BY <1>1, <1>4 DEF Setup, Inside, Goes, Place, TriesEntry
  <2> QED
    BY <1>1, <2>1, <2>2, <2>3 DEF Cards, Flags
<1>5. CASE Gsn
  <2>1. UNCHANGED <<ccid, conf, missed, calm>>
    BY <1>5 DEF Gsn, Inside
  <2>2. Late'
    BY <1>5, BuffersLate DEF Gsn, Late, Commands
  <2>3. Place'
    BY <1>1, <1>5 DEF Gsn, Inside, Goes, Again, Place, TriesEntry
  <2> QED
    BY <1>1, <2>1, <2>2, <2>3 DEF Cards, Flags
<1>6. CASE Ccid
  <2>1. UNCHANGED <<conf, calm>>
    BY <1>6 DEF Ccid, Inside
  <2>2. missed' \in BOOLEAN
    BY <1>6 DEF Ccid, Flags
  <2>3. ccid' \in Numbers \union {"junk", ""}
    BY <1>6 DEF Ccid, Reading, Cards, Numbers
  <2>4. Late'
    BY <1>6, BuffersLate DEF Ccid, Late, Commands
  <2>5. Place'
    BY <1>1, <1>6 DEF Ccid, Inside, Goes, Again, Place, TriesEntry
  <2> QED
    BY <1>1, <2>1, <2>2, <2>3, <2>4, <2>5 DEF Cards, Flags
<1>7. CASE Register
  <2>1. UNCHANGED <<ccid, conf, missed, calm>>
    BY <1>7 DEF Register, Inside
  <2>2. Late'
    BY <1>7, BuffersLate DEF Register, Late, Commands
  <2>3. Place'
    BY <1>1, <1>7 DEF Register, Inside, Place, TriesEntry
  <2> QED
    BY <1>1, <2>1, <2>2, <2>3 DEF Cards, Flags
<1>8. CASE Query
  <2>1. UNCHANGED <<ccid, conf, missed, calm>>
    BY <1>8 DEF Query, Inside
  <2>2. Late'
    BY <1>8, BuffersLate DEF Query, Late, Commands
  <2>3. Place'
    BY <1>1, <1>8 DEF Query, Inside, Goes, Place, TriesEntry
  <2> QED
    BY <1>1, <2>1, <2>2, <2>3 DEF Cards, Flags
<1>9. CASE Compare
  <2>1. /\ at' \in {"cmux", "apn"} /\ tries' = 0
        /\ UNCHANGED <<late, ccid, conf, missed, calm>>
    BY <1>9 DEF Compare, Inside, Goes
  <2>2. ApnCount[card] \in Nat
    BY DEF Cards
  <2>3. Place'
    BY <1>1, <2>1, <2>2 DEF Place, TriesEntry
  <2>4. Late'
    BY <2>1 DEF Late
  <2> QED
    BY <1>1, <2>1, <2>3, <2>4, CardsKept, FlagsKept
<1>10. CASE Apn
  <2>1. UNCHANGED <<ccid, conf, missed, calm>>
    BY <1>10 DEF Apn, Inside
  <2>2. Late'
    BY <1>10, BuffersLate DEF Apn, Late, Commands
  <2>3. Place'
    BY <1>1, <1>10 DEF Apn, Inside, Goes, Place, TriesEntry
  <2> QED
    BY <1>1, <2>1, <2>2, <2>3 DEF Cards, Flags
<1>11. CASE NoConnect
  <2>1. /\ at = "atd" /\ at' = "apn" /\ tries' = tries + 1
        /\ UNCHANGED <<late, ccid, conf, missed, calm>>
    BY <1>11 DEF NoConnect, Inside
  <2>2. ApnCount[card] \in Nat
    BY DEF Cards
  <2>3. Place'
    BY <1>1, <2>1, <2>2 DEF Place, TriesEntry
  <2>4. Late'
    BY <2>1 DEF Late
  <2> QED
    BY <1>1, <2>1, <2>3, <2>4, CardsKept, FlagsKept
<1>12. CASE Connect
  <2>1. missed' \in BOOLEAN
    BY <1>12, Zenon DEF Connect
  <2>2. conf' \in {[ccid |-> ccid, of |-> card], conf}
    BY <1>12, Zenon DEF Connect
  <2>3. /\ at' = "power" /\ tries' = 0 /\ late' = "none" /\ ccid' = ""
        /\ UNCHANGED calm
    BY <1>12, Zenon DEF Connect, Goes
  <2>4. [ccid |-> ccid, of |-> card] \in
           [ccid : Numbers \union {"none", "junk", ""},
            of : Card \union {"none"}]
    BY DEF Cards
  <2>5. Cards'
    BY <1>1, <2>2, <2>3, <2>4, Zenon DEF Cards
  <2>6. Place'
    BY <2>3 DEF Place, TriesEntry
  <2>7. Late' /\ Flags'
    BY <2>1, <2>3 DEF Late, Flags
  <2> QED
    BY <2>5, <2>6, <2>7
<1>13. CASE NoCmux \/ Ready
  <2>1. /\ at' = "power" /\ tries' = 0 /\ late' \in {late, "none"}
        /\ UNCHANGED <<ccid, conf, missed, calm>>
    BY <1>13 DEF NoCmux, Ready, Inside, Goes
  <2>2. Place'
    BY <2>1 DEF Place, TriesEntry
  <2>3. Late'
    BY <2>1 DEF Late
  <2> QED
    BY <1>1, <2>1, <2>2, <2>3, CardsKept, FlagsKept
<1>14. CASE Supervise \/ Around \/ UNCHANGED mvars
  <2>1. UNCHANGED <<port, calm>>
    BY <1>14 DEF Supervise, Around, mvars
  <2>2. Late'
    BY <2>1 DEF Late, port
  <2> QED
    BY <1>1, <2>1, <2>2, PlaceKept, CardsKept, FlagsKept DEF port
<1>15. CASE Behave
  <2>1. UNCHANGED port /\ calm' \in BOOLEAN
    BY <1>15 DEF Behave
  <2>2. Late' /\ Flags'
    BY <2>1 DEF Late, Flags, port
  <2> QED
    BY <1>1, <2>1, <2>2, PlaceKept, CardsKept DEF port
<1> QED
  BY <1>2, <1>3, <1>4, <1>5, <1>6, <1>7, <1>8, <1>9, <1>10, <1>11, <1>12,
     <1>13, <1>14, <1>15 DEF ModemNext, Asks, Chooses

LEMMA PortTypeInvariant == ModemSpec => []PortTyped
<1>1. PortInit => PortTyped
  <2> SUFFICES ASSUME PortInit PROVE PortTyped
    OBVIOUS
  <2>1. missed \in BOOLEAN
    BY Zenon DEF PortInit
  <2>2. conf \in [ccid : Numbers \union {"none", "junk", ""},
                  of : Card \union {"none"}]
    <3>1. CASE conf = [ccid |-> "none", of |-> "none"]
      BY <3>1
    <3>2. CASE \E c \in Card : conf = [ccid |-> Number[c], of |-> c]
      <4>1. PICK c \in Card : conf = [ccid |-> Number[c], of |-> c]
        BY <3>2
      <4>2. Number[c] \in Numbers
        BY DEF Numbers
      <4> QED
        BY <4>1, <4>2
    <3> QED
      BY <3>1, <3>2 DEF PortInit
  <2>3. Cards
    BY <2>2 DEF PortInit, Cards
  <2>4. Place
    BY DEF PortInit, Place, TriesEntry
  <2>5. Late /\ Flags
    BY <2>1 DEF PortInit, Late, Flags
  <2> QED
    BY <2>3, <2>4, <2>5 DEF PortTyped
<1> QED
  BY <1>1, PortTypeStep, PTL DEF ModemSpec

\* sim900.c:183-291: every variable keeps its type, and every loop of init_modem
\* stays within its tries.
THEOREM ModemTypeCorrect == ModemSpec => []ModemTypeOK
BY PortTypeInvariant, SupervisorInvariant, PortParts, PTL

\* The CCID is the card's unless it was misread, and a saved CCID of this card
\* was saved with an APN of its network.
LEMMA CardStep ==
    ASSUME TypeOK, PortTyped, LinkInv, CardInv, [ModemNext]_mvars
    PROVE  CardInv'
<1> USE CardNames DEF PortTyped, Cards, CardInv, CardKnown, Alike, port
<1>1. CASE Power \/ Probe \/ Setup \/ Gsn
  BY <1>1 DEF Power, Probe, Setup, Gsn, Inside, Goes, Again, vars
<1>2. CASE Ccid
  <2>1. sys = "INITMODEM" /\ at = "ccid" /\ UNCHANGED <<vars, card, conf>>
    BY <1>2 DEF Ccid, Inside
  <2>2. \/ at' \in {"power", "ccid"}
        \/ at' = "register" /\ (~missed' => ccid' = Number[card])
    BY <1>2 DEF Ccid, Inside, Goes, Again, Reading
  <2> QED
    BY <2>1, <2>2 DEF vars
<1>3. CASE Register \/ Query
  BY <1>3 DEF Register, Query, Inside, Goes, vars
<1>4. CASE Compare
  BY <1>4 DEF Compare, Inside, Goes, vars
<1>5. CASE Apn
  BY <1>5 DEF Apn, Inside, Goes, vars
<1>6. CASE NoConnect \/ NoCmux
  BY <1>6 DEF NoConnect, NoCmux, Inside, Goes, vars
<1>7. CASE Connect
  <2>1. conf' \in {[ccid |-> ccid, of |-> card], conf}
    BY <1>7, Zenon DEF Connect
  <2>2. at' = "power" /\ sys' = "NORMAL" /\ card' = card
    BY <1>7, Zenon DEF Connect, Goes
  <2>3. conf'.ccid = Number[card] => conf'.of \in Alike
    <3>1. CASE conf' = [ccid |-> ccid, of |-> card]
      BY <3>1
    <3>2. CASE conf' = conf
      BY <3>2
    <3> QED
      BY <2>1, <3>1, <3>2
  <2> QED
    BY <2>2, <2>3
<1>8. CASE Ready
  BY <1>8 DEF Ready, InitModem, Goes
<1>9. CASE Supervise \/ Around
  <2>1. UNCHANGED <<port, card>>
    BY <1>9 DEF Supervise, Around
  <2>2. sys' \in {"INITPPP", "PPPSUCCESS"} => sys \in {"INITPPP", "PPPSUCCESS"}
    BY <1>9 DEF LinkInv, Known, Told, TypeOK,
       Supervise, Around, Routing, Report, Begin, PppError, Promote, Check,
       Enters, RoutingNone, RoutingOpen, Dialled, RoutingRest, RoutingDown,
       Close, Stopped, AfterInitPpp, CsqAnswered, CsqFails, LinkUp, LinkEnds,
       Data, XmppChanges, Second, TimeOut, LateReport, Torn
  <2> QED
    BY <2>1, <2>2
<1>10. CASE Behave \/ UNCHANGED mvars
  BY <1>10 DEF Behave, mvars, vars
<1> QED
  BY <1>1, <1>2, <1>3, <1>4, <1>5, <1>6, <1>7, <1>8, <1>9, <1>10
     DEF ModemNext, Asks, Chooses

\* sim900.c:250-289, at_cmd.c:588-597: the link is dialled with an APN accepted
\* by the network of this card or of one with the same first digits, for every
\* history of cards and late answers, unless the CCID was read from the answer
\* to another command alone.
THEOREM CardIsKnown == ModemSpec => []CardKnown
<1>1. PortInit => CardInv
  <2> SUFFICES ASSUME PortInit PROVE CardInv
    OBVIOUS
  <2>1. at = "power" /\ sys = "NORMAL" /\ card \in Card
    BY DEF PortInit, Init
  <2>2. CASE conf = [ccid |-> "none", of |-> "none"]
    BY <2>1, <2>2, CardNames DEF CardInv, CardKnown, Alike
  <2>3. CASE \E c \in Card : conf = [ccid |-> Number[c], of |-> c]
    BY <2>1, <2>3 DEF CardInv, CardKnown, Alike
  <2> QED
    BY <2>2, <2>3 DEF PortInit
<1>2. CardInv => CardKnown
  BY DEF CardInv
<1> QED
  BY <1>1, <1>2, CardStep, PortTypeInvariant, SupervisorInvariant, PTL
     DEF ModemSpec
=============================================================================
