---------------------------- MODULE ConfigWriters ----------------------------
(***************************************************************************)
(* Two writers of the configuration: AT+CONFSRV of the serial line in the  *)
(* isp thread (serial_at.c) and AT+OTA of the XMPP server in tcpip         *)
(* (isp_process_xmpp.c).  __write_uconfig has no lock and tcpip has the    *)
(* higher priority: a whole write of tcpip may run inside one of isp.      *)
(*                                                                         *)
(* The nested write leaves the flash locked (FLASH_ProgramDone), so what   *)
(* isp still programs or erases, up to its next FLASH_Unlock, has no       *)
(* effect: the address it had in buffer_addr is lost, and so is its text.  *)
(***************************************************************************)
EXTENDS ConfigStore

VARIABLES thread,  \* whose write is going on, "isp" when there is none
          outer,   \* the write of isp under the one of tcpip
          saved    \* history: the last configuration a command saved

wvars == <<vars, thread, outer, saved>>

NoOuter == [step |-> "none", json |-> Default]
Suspended == [step : {"eraseA", "progA", "eraseB", "progB"}, json : Config]

\* No save since the reset, or one that a suspended write of isp undoes.
NoSave == [step |-> "none"]

WritersTypeOK == /\ TypeOK
                 /\ thread \in {"isp", "tcpip"}
                 /\ outer \in Suspended \cup {NoOuter}
                 /\ saved \in Config \cup {NoSave}

WritersInit == Init /\ thread = "isp" /\ outer = NoOuter /\ saved = NoSave

Saves == IF step' = "idle" THEN UNCHANGED saved ELSE saved' = json'

\* at_confsrv: the server and the credentials are assigned and saved.
Confsrv == /\ outer = NoOuter
           /\ \E c \in Config : c.app = uconfig.app /\ Update(c)
           /\ Saves
           /\ UNCHANGED <<thread, outer>>

\* resp_ota: ota_flag is set and saved, in tcpip, while isp is not writing.
Ota == /\ outer = NoOuter
       /\ \E a \in App : Update([uconfig EXCEPT !.app = a])
       /\ thread' = IF step' = "idle" THEN "isp" ELSE "tcpip"
       /\ Saves
       /\ UNCHANGED outer

\* Where isp goes on: what it had begun has no effect any more.  The erase of
\* a copy has begun once FLASH_ProgramStart has unlocked the flash.
Interrupted(s) ==
    CASE s = "eraseA" -> {"eraseA", "progA"}
      [] s = "eraseB" -> {"eraseB", "progB"}
      [] OTHER -> {s}

\* resp_ota in the middle of a write of isp.  A makeJson without memory writes
\* nothing.  The request is undone by isp when the first copy is still to be
\* erased.
OtaNested ==
    /\ phase = "run" /\ step # "idle" /\ thread = "isp"
    /\ \E a \in App : uconfig' = [uconfig EXCEPT !.app = a]
    /\ \/ /\ \E s \in Interrupted(step) :
                /\ outer' = [step |-> s, json |-> json]
                /\ saved' = IF s = "eraseA" THEN NoSave ELSE uconfig'
          /\ json' = uconfig' /\ step' = "eraseA" /\ thread' = "tcpip"
       \/ UNCHANGED <<json, step, thread, outer, saved>>
    /\ UNCHANGED <<pageA, pageB, phase>>

\* Faulty variant: a write that was interrupted begins anew.
ResumeFromStart ==
    /\ thread = "tcpip" /\ step = "idle"
    /\ step' = "eraseA"
    /\ json' = outer.json /\ thread' = "isp" /\ outer' = NoOuter
    /\ UNCHANGED <<pageA, pageB, uconfig, phase, saved>>

\* The nested write has returned: isp goes on, without effect on the copy it
\* had begun; the next FLASH_ProgramStart unlocks the flash.
Resume ==
    /\ thread = "tcpip" /\ step = "idle"
    /\ step' = CASE outer.step = "progA" -> "eraseB"
                 [] outer.step = "progB" -> "idle"
                 [] OTHER -> outer.step
    /\ json' = outer.json /\ thread' = "isp" /\ outer' = NoOuter
    /\ UNCHANGED <<pageA, pageB, uconfig, phase, saved>>

\* A write that ends without another under it is the last one.
Program == /\ Write
           /\ thread' = IF step' = "idle" /\ outer = NoOuter THEN "isp"
                                                             ELSE thread
           /\ UNCHANGED <<outer, saved>>

Restart == /\ PowerLoss
           /\ thread' = "isp" /\ outer' = NoOuter /\ saved' = NoSave

Booting == Boot /\ UNCHANGED <<thread, outer, saved>>

WritersNext == Booting \/ Program \/ Confsrv \/ Ota \/ OtaNested \/ Resume
               \/ Restart

WritersSpec == WritersInit /\ [][WritersNext]_wvars

-----------------------------------------------------------------------------
(* Properties *)

Quiet == phase = "run" /\ step = "idle" /\ thread = "isp"

\* flash_config.c:12-78, flash_opt.c:141-175: however the two writes are
\* nested, when they have returned the second copy is complete, so that the
\* next boot finds a text that ends; and what the last command saved (isp_process_xmpp.c:206, serial_at.c:158) is
\* what the next boot loads, although the copies may differ.  The one exception
\* is a request that comes between makeJson and the first erase of isp's write.
LastSaveWins == Quiet => /\ pageB.state = "closed"
                         /\ saved # NoSave => pageA = Text("closed", saved)

\* flash_config.c:18: the last complete copy disappears in one case only: the
\* nested write erases the first copy while isp has the second one open.
CopiesKeptUnlessOpen ==
    [][ACopySurvives => ACopySurvives' \/ outer.step = "progB"]_wvars
=============================================================================
