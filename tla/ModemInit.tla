------------------------------ MODULE ModemInit ------------------------------
(***************************************************************************)
(* init_modem (sim900.c) in the loop of SYS_INITMODEM_STATUS, where         *)
(* PppService has one step: the modem is powered and asked for its IMEI,   *)
(* its card and its network; for a card that is not the one of the saved   *)
(* configuration an APN is looked for, saved, and the device restarted.    *)
(*                                                                         *)
(* The modem is external.  An answer that misses the window of its command *)
(* (modem_serial.c) is found by a later one, since nothing discards what   *)
(* the port holds; one late answer at a time is followed.                  *)
(***************************************************************************)
EXTENDS PppService

CONSTANTS Card,      \* SIM cards, each with its network
          Number,    \* the first 15 of the 20 digits of the CCID of a card
          ApnCount,  \* entries of the APN table for the network of a card
          Dials,     \* the indices of those the network accepts
          IdTries,   \* 10 in the code
          RegTries   \* 60

ASSUME ModemAssumption ==
    /\ Card # {} /\ "none" \notin Card
    /\ \A c \in Card : Number[c] \notin {"none", "junk", ""}
    /\ ApnCount \in [Card -> Nat] /\ Dials \in [Card -> SUBSET Nat]
    /\ IdTries \in Nat \ {0} /\ RegTries \in Nat \ {0}

VARIABLES at,      \* where init_modem is
          tries,   \* i of its loops
          late,    \* the command whose answer is still to come
          ccid,    \* simcard_ccid, which AT_CCID cuts to sizeof(modem_imei)
          conf,    \* uconfig.APNINFO: the CCID, and whose APN it holds
          card,    \* the card in the modem
          missed,  \* the last CCID was read from the answer to another command
          calm     \* the modem answers in time and memory suffices

port == <<at, tries, late, ccid, conf, missed>>
mvars == <<vars, port, card, calm>>

Commands == {"plain", "gsn", "ccid", "cops"}

Numbers == {Number[c] : c \in Card}

ModemTypeOK ==
    /\ TypeOK
    /\ at \in {"power", "probe", "setup", "gsn", "ccid", "register", "query",
               "compare", "apn", "atd", "cmux"}
    /\ tries \in Nat
    /\ at \in {"probe", "setup"} => tries <= 2
    /\ at \in {"gsn", "ccid"} => tries < IdTries
    /\ at \in {"register", "query"} => tries < RegTries
    /\ at \in {"apn", "atd"} => tries <= ApnCount[card]
    /\ late \in Commands \union {"none"}
    /\ ccid \in Numbers \union {"junk", ""}
    /\ conf \in [ccid : Numbers \union {"none", "junk", ""},
                 of : Card \union {"none"}]
    /\ card \in Card /\ missed \in BOOLEAN /\ calm \in BOOLEAN

\* The flash holds the factory's configuration or one of an earlier life, with
\* this card or another.
PortInit ==
    /\ Init
    /\ at = "power" /\ tries = 0 /\ late = "none"
    /\ ccid = "" /\ missed = FALSE
    /\ conf \in {[ccid |-> Number[c], of |-> c] : c \in Card}
                \union {[ccid |-> "none", of |-> "none"]}
    /\ card \in Card /\ calm \in BOOLEAN

-----------------------------------------------------------------------------
(* The exchange of a command and its answer *)

\* What priv_at_command may have in its buffer after the command k, and what is
\* still to come: the answer, with a late one before it, and cut then if the
\* two exceed the 60 bytes of the buffer; a refusal; the late answer only, or
\* nothing.
Buffers(k) ==
    LET intime == IF late = "none" THEN {"own"} ELSE {"both", "other"}
    IN [got : intime, late : {"none"}] \union
       IF calm THEN {}
       ELSE {[got |-> "refused", late |-> "none"],
             [got |-> IF late = "none" THEN "nothing" ELSE "other",
              late |-> k],
             [got |-> "nothing", late |-> late]}

\* AT_AT and AT_CGDCONT: any OK will do.
AT_AT(got) == \/ got \in {"own", "both", "other"}
              \/ got = "refused" /\ late # "none"

\* AT_GSN and AT_CCID look for the text before OK, and refuse two of them.
AT_GSN(got) == got \in {"own", "other"}

\* Faulty variant: what follows the first OK is not looked at.
ReadingFirst(got) == IF got \in {"refused", "nothing"} THEN {}
                     ELSE IF got = "own" \/ late = "ccid" THEN {Number[card]}
                     ELSE {"junk", ""}

\* The CCIDs AT_CCID may take from the buffer, of which it keeps 15 digits; the
\* bytes before an OK that stands alone are what the stack holds, perhaps an
\* empty text.
Reading(got) ==
    IF got = "own" \/ (got = "other" /\ late = "ccid") THEN {Number[card]}
    ELSE IF got = "other" THEN {"junk", ""} ELSE {}

\* AT_COPS needs a code in quotes.
AT_COPS(got) == \/ got \in {"own", "both"}
                \/ got = "other" /\ late = "cops"

Inside(place) == /\ sys = "INITMODEM" /\ step = "loop" /\ at = place
                 /\ UNCHANGED <<vars, card, calm>>

Goes(place) == at' = place /\ tries' = 0

\* The loops that ask again and begin anew with reinit after the last try.
Again(most) == IF tries + 1 < most THEN tries' = tries + 1 /\ UNCHANGED at
               ELSE Goes("power")

-----------------------------------------------------------------------------
(* init_modem *)

Power == /\ Inside("power")
         /\ Goes("probe")
         /\ late' \in {late, "none"}
         /\ UNCHANGED <<ccid, conf, missed>>

Probe == /\ Inside("probe")
         /\ \E b \in Buffers("plain") :
               /\ late' = b.late
               /\ IF AT_AT(b.got) THEN Goes("setup") ELSE Again(2)
         /\ UNCHANGED <<ccid, conf, missed>>

\* AT+CMGF, AT+CNMI and AT+COPS=0,2: nobody looks at the answers.
Setup == /\ Inside("setup")
         /\ \E b \in Buffers("plain") : late' = b.late
         /\ IF tries < 2 THEN tries' = tries + 1 /\ UNCHANGED at
            ELSE Goes("gsn")
         /\ UNCHANGED <<ccid, conf, missed>>

Gsn == /\ Inside("gsn")
       /\ \E b \in Buffers("gsn") :
             /\ late' = b.late
             /\ IF AT_GSN(b.got) THEN Goes("ccid") ELSE Again(IdTries)
       /\ UNCHANGED <<ccid, conf, missed>>

Ccid == /\ Inside("ccid")
        /\ \E b \in Buffers("ccid") :
              /\ late' = b.late
              /\ \/ /\ ccid' \in Reading(b.got)
                    /\ missed' = (b.got = "other" /\ late # "ccid")
                    /\ Goes("register")
                 \/ /\ Reading(b.got) = {}
                    /\ Again(IdTries)
                    /\ UNCHANGED <<ccid, missed>>
        /\ UNCHANGED conf

\* AT+COPS=0,2 before each AT+COPS?.
Register == /\ Inside("register")
            /\ \E b \in Buffers("plain") : late' = b.late
            /\ at' = "query"
            /\ UNCHANGED <<tries, ccid, conf, missed>>

\* Faulty variant: the last try is not told from the others.
QueryForEver ==
    /\ Inside("query")
    /\ \E b \in Buffers("cops") :
          /\ late' = b.late
          /\ IF AT_COPS(b.got) THEN Goes("compare")
             ELSE at' = "register" /\ tries' = tries + 1
    /\ UNCHANGED <<ccid, conf, missed>>

\* read_modem_status is compared with 0, not called: a modem that is off is
\* asked as often as any other.
Query == /\ Inside("query")
         /\ \E b \in Buffers("cops") :
               /\ late' = b.late
               /\ IF AT_COPS(b.got) THEN Goes("compare")
                  ELSE IF tries + 1 < RegTries
                  THEN at' = "register" /\ tries' = tries + 1
                  ELSE Goes("power")
         /\ UNCHANGED <<ccid, conf, missed>>

\* strstr finds an empty text in every other.
Compare == /\ Inside("compare")
           /\ Goes(IF ccid \in {conf.ccid, ""} THEN "cmux" ELSE "apn")
           /\ UNCHANGED <<late, ccid, conf, missed>>

\* get_apn counts nothing: it knows the first entry of a network only.
GetApn(i) == i = 0

\* AT+CGDCONT with the next APN, or reinit when there is none.
Apn == /\ Inside("apn")
       /\ IF tries < ApnCount[card] /\ GetApn(tries)
          THEN /\ \E b \in Buffers("plain") : late' = b.late
               /\ at' = "atd" /\ UNCHANGED tries
          ELSE Goes("power") /\ UNCHANGED late
       /\ UNCHANGED <<ccid, conf, missed>>

NoConnect == /\ Inside("atd")
             /\ tries \notin Dials[card] \/ ~calm
             /\ at' = "apn" /\ tries' = tries + 1
             /\ UNCHANGED <<late, ccid, conf, missed>>

\* Faulty variant: the APN is used but not saved.
ConnectUnsaved ==
    /\ sys = "INITMODEM" /\ step = "loop" /\ at = "atd"
    /\ tries \in Dials[card]
    /\ sys' = "NORMAL" /\ ppp' = "NONE" /\ branch' = "INITPPP"
    /\ mark' = 0 /\ csq' = 0 /\ xmpp' = FALSE /\ link' = "closed"
    /\ Goes("power")
    /\ late' = "none" /\ ccid' = "" /\ missed' = FALSE
    /\ UNCHANGED <<step, silence, early, conf, card, calm>>

\* CONNECT: the card and the APN are saved, unless makeJson finds no memory,
\* and the device restarts.
Connect ==
    /\ sys = "INITMODEM" /\ step = "loop" /\ at = "atd"
    /\ tries \in Dials[card]
    /\ conf' \in {[ccid |-> ccid, of |-> card]} \union
                 (IF calm THEN {} ELSE {conf})
    /\ sys' = "NORMAL" /\ ppp' = "NONE" /\ branch' = "INITPPP"
    /\ mark' = 0 /\ csq' = 0 /\ xmpp' = FALSE /\ link' = "closed"
    /\ Goes("power")
    /\ late' = "none" /\ ccid' = "" /\ missed' = FALSE
    /\ UNCHANGED <<step, silence, early, card, calm>>

\* __restart_cmux fails, and mainloop begins anew.
NoCmux == /\ Inside("cmux") /\ ~calm
          /\ Goes("power")
          /\ UNCHANGED <<late, ccid, conf, missed>>

Ready == /\ at = "cmux" /\ InitModem
         /\ Goes("power") /\ late' = "none"
         /\ UNCHANGED <<ccid, conf, missed, card, calm>>

-----------------------------------------------------------------------------
Asks == Power \/ Probe \/ Setup \/ Gsn \/ Ccid \/ Register \/ Query

Chooses == Compare \/ Apn \/ NoConnect \/ Connect \/ NoCmux \/ Ready

\* The rest of the supervisor, as in PppService.
Supervise == /\ Begin \/ PppError \/ Routing
             /\ UNCHANGED <<port, card, calm>>

Around == /\ Promote \/ Report \/ LateReport \/ Data \/ XmppChanges \/ Second
          /\ UNCHANGED <<port, card, calm>>

Behave == /\ sys = "INITMODEM"
          /\ calm' = ~calm
          /\ UNCHANGED <<vars, port, card>>

ModemNext == Asks \/ Chooses \/ Supervise \/ Around \/ Behave

\* The fairness of PppService; init_modem is a part of mainloop.
ModemSpec == /\ PortInit /\ [][ModemNext]_mvars
             /\ WF_mvars(Asks \/ Chooses \/ Supervise)
             /\ WF_mvars(link = "opening" /\ Report /\ UNCHANGED <<port, card,
                                                                   calm>>)
             /\ WF_mvars(Second /\ UNCHANGED <<port, card, calm>>)

-----------------------------------------------------------------------------
(* Properties *)

\* sim900.c:250-289, at_cmd.c:553-558,588-597: the link is dialled with an APN
\* that the network of this card has accepted, or that of a card with the same
\* first 15 digits, whatever card the device had before and however late the
\* answers were, unless the CCID was read from the answer to another command
\* alone, which the check for a second OK cannot see.
CardKnown == sys \in {"INITPPP", "PPPSUCCESS"} /\ ~missed =>
                 conf.of \in {c \in Card : Number[c] = Number[card]}

\* sim900.c:183-291, ppp_service.c:379-453: once the modem answers in time, and
\* the network accepts the first APN of the table, the device gets to its
\* sessions and keeps dialling, whatever card was misread and saved before.
DeviceKeepsTrying ==
    <>[]calm /\ ApnCount[card] > 0 /\ 0 \in Dials[card] => KeepsTrying
=============================================================================
