----------------------------- MODULE IspProgram -----------------------------
(***************************************************************************)
(* Programming of another processor over the serial port: the loop of the  *)
(* thread isp in isp_http_tcp.c, a switch over isp_step.  The XMPP command *)
(* AT+ISP writes isp_step from the thread tcpip, which preempts isp        *)
(* anywhere, and the timer of the serial load (appev) masks the receive    *)
(* interrupt.                                                              *)
(*                                                                         *)
(* Lengths are in units of data.  The processor that is programmed is      *)
(* external: it answers a command within the time the code waits or never, *)
(* and acknowledges a block only if it took it.                            *)
(***************************************************************************)
EXTENDS Integers

CONSTANTS HandshakeCount,  \* STM32_ISP_HANDSHAKE_COUNT, 20 in the code
          ErrorMax,        \* errors that are too many, 10
          ErrorWidth,      \* values of error_cnt, 256
          AvrTries,        \* 10
          AskTries,        \* 5
          Block,           \* WRITE_LEN, 248 bytes
          Page,            \* 128 bytes
          CountWidth,      \* values of fw_size and write_count, 65536
          ZoneLimit,       \* DOWNLOAD_ZONE_SIZE - 4
          Lengths,         \* that the first word of the zone may be
          MaxRequests,     \* bound on the commands AT+ISP
          MaxDownloads     \* bound on the changes of the zone

ASSUME IspAssumption ==
    /\ HandshakeCount \in Nat /\ ErrorMax \in Nat
    /\ ErrorWidth \in Nat \ {0}
    /\ AvrTries \in Nat \ {0} /\ AskTries \in Nat \ {0}
    /\ Block \in Nat \ {0} /\ Page \in Nat \ {0}
    /\ CountWidth \in Nat \ {0} /\ ZoneLimit \in Nat
    /\ Lengths \subseteq Nat /\ Lengths # {}
    /\ MaxRequests \in Nat /\ MaxDownloads \in Nat

VARIABLES isp_step,
          at,             \* the case isp executes, or where in it
          handshake_cnt, ack_cnt, error_cnt,
          tries,          \* i of the loops over tries
          sent,           \* sendnum of STM32, write_count of AVR
          len,            \* FileLen
          mode,           \* parity of the serial port
          boot,           \* whether the BOOT pin is high
          rx,             \* the receive interrupt
          listen,         \* isp_usart_recv_timer
          gap,            \* max_uart_idle_time against 700 ms
          zone,           \* first word of the download zone: the length
          filling,        \* a download is writing the zone
          fresh,          \* the zone is as it was when len was read
          held,           \* units the processor took since len was read
          mood,           \* how the processor behaves
          told,           \* the last report, +ISP=1 or +ISP=2
          asked, downloads,
          due             \* a request made while nothing ran, until begun

counters == <<handshake_cnt, ack_cnt, error_cnt, tries>>
wire == <<mode, boot, rx, listen, gap>>
image == <<sent, len, fresh, held>>
outside == <<zone, filling, mood, asked, downloads>>
vars == <<isp_step, at, counters, wire, image, outside, told, due>>

Handshakes == {"HANDSHAKE_STM32", "HANDSHAKE_AVR"}
Steps == Handshakes \union
         {"NULL", "HANDSHAKE_STM32_2", "ERASE_FLASH_FLAG", "ERASE_FLASH_ALL",
          "PROGRAM", "PROGRAM_ERROR", "PROGRAM_DONE", "PROG_AVR",
          "PROG_AVR_A", "PROG_AVR_DONE", "PROG_AVR_ERR"}
Stm32Cases == {"hello", "erase", "eraseAll", "cmd31", "address", "data"}
AvrCases == {"avrHello", "avrAddress", "avrBlock", "avrEnd", "avrAsk"}
Cases == Stm32Cases \union AvrCases
         \union {"switch", "idle", "reset", "release", "finish", "restore"}

TypeOK == /\ isp_step \in Steps /\ at \in Cases
          /\ handshake_cnt \in 0..(HandshakeCount + 2)
          /\ ack_cnt \in 0..(HandshakeCount + 1)
          /\ error_cnt \in 0..(ErrorWidth - 1)
          /\ tries \in 0..(AvrTries + AskTries)
          /\ sent \in Nat /\ len \in Nat
          /\ mode \in {"default", "even"}
          /\ boot \in BOOLEAN
          /\ rx \in {"on", "off", "raced"}
          /\ listen \in {"none", "off"} /\ gap \in {"short", "long"}
          /\ zone \in Lengths /\ filling \in BOOLEAN
          /\ fresh \in BOOLEAN /\ held \subseteq Nat
          /\ mood \in {"ready", "faulty", "mute"}
          /\ told \in {"none", "done", "failed"}
          /\ asked \in 0..MaxRequests /\ downloads \in 0..MaxDownloads
          /\ due \in Handshakes \union {"none"}

Init == /\ isp_step = "NULL" /\ at = "switch"
        /\ handshake_cnt = 0 /\ ack_cnt = 0 /\ error_cnt = 0 /\ tries = 0
        /\ sent = 0 /\ len = 0 /\ fresh = FALSE /\ held = {}
        /\ mode = "default" /\ boot = FALSE
        /\ rx = "on" /\ listen = "none" /\ gap = "short"
        /\ zone \in Lengths /\ filling = FALSE
        /\ mood \in {"ready", "faulty", "mute"}
        /\ told = "none"
        /\ asked = 0 /\ downloads = 0
        /\ due = "none"

\* The answers write_isp_buffer_ack may return: whether it is the one awaited.
Acks == IF rx # "on" \/ mood = "mute" THEN {FALSE}
        ELSE IF mood = "ready" THEN {TRUE} ELSE BOOLEAN

\* What the processor has after a block of n units: without an answer it may
\* have taken the block all the same.
Took(acked, n) == LET piece == sent..(sent + n - 1)
                  IN IF acked THEN {held \union piece}
                     ELSE {held, held \union piece}

-----------------------------------------------------------------------------
(* The command AT+ISP, the download zone and the load of the serial port *)

\* Faulty variant: a second command cancels the run of the first.
RequestCancels(step) ==
    /\ asked < MaxRequests
    /\ asked' = asked + 1
    /\ isp_step' = IF isp_step = "NULL" THEN step ELSE "NULL"
    /\ handshake_cnt' = 0
    /\ due' = IF isp_step = "NULL" \/ due # "none" THEN step ELSE due
    /\ UNCHANGED <<at, ack_cnt, error_cnt, tries, wire, image, zone,
                   filling, mood, downloads, told>>

RequestAs(step) ==
    /\ asked < MaxRequests
    /\ asked' = asked + 1
    /\ isp_step' = step
    /\ handshake_cnt' = 0
    /\ due' = IF isp_step = "NULL" \/ due # "none" THEN step ELSE due
    /\ UNCHANGED <<at, ack_cnt, error_cnt, tries, wire, image, zone,
                   filling, mood, downloads, told>>

\* resp_isp and set_isp_step: nothing is asked about a run in progress.
Request == \E step \in Handshakes : RequestAs(step)

\* A download that AT+DOWN began rewrites the first sector, also while the
\* file is programmed.  The length of an erased zone, or of the one that is
\* left when the server refused the file, is a word of ones.
Download == /\ downloads < MaxDownloads
            /\ downloads' = downloads + 1
            /\ zone' \in Lengths /\ filling' = TRUE
            /\ fresh' = FALSE
            /\ UNCHANGED <<isp_step, at, counters, wire, sent, len, held,
                           mood, asked, told, due>>

\* The connection ended and the last sector is written; after a connection
\* error the zone stays as it is.
Downloaded == /\ filling
              /\ filling' = FALSE
              /\ fresh' = FALSE
              /\ UNCHANGED <<isp_step, at, counters, wire, sent, len, held,
                             zone, mood, asked, downloads, told, due>>

Behave == /\ mood' \in {"ready", "faulty", "mute"} \ {mood}
          /\ UNCHANGED <<isp_step, at, counters, wire, image, zone, filling,
                         asked, downloads, told, due>>

\* isp_usart_recv_timer: the test of isp_step and what follows are two steps.
ListenTest == /\ listen = "none" /\ isp_step = "NULL"
              /\ IF gap = "long" THEN gap' = "short" /\ rx' = "on"
                                      /\ listen' = "none"
                 ELSE listen' = "off" /\ UNCHANGED <<gap, rx>>
              /\ UNCHANGED <<isp_step, at, counters, mode, boot, image,
                             outside, told, due>>

ListenOff == /\ listen = "off"
             /\ listen' = "none" /\ gap' = "long"
             /\ rx' = IF isp_step = "NULL" THEN "off" ELSE "raced"
             /\ UNCHANGED <<isp_step, at, counters, mode, boot, image,
                            outside, told, due>>

-----------------------------------------------------------------------------
(* Thread isp: waiting, beginning and ending *)

EnterIdle == /\ at = "switch" /\ isp_step = "NULL"
             /\ at' = "idle"
             /\ UNCHANGED <<isp_step, counters, wire, image, outside,
                            told, due>>

\* Faulty variant: isp_step is set back with the line buffer.
LeaveIdleForgets ==
    /\ at = "idle"
    /\ at' = "switch" /\ isp_step' = "NULL"
    /\ gap' \in {gap, "long"}
    /\ UNCHANGED <<counters, mode, boot, rx, listen, image, outside, told,
                   due>>

\* A line was handled, or none came for as long as max_uart_idle_time.
LeaveIdle == /\ at = "idle"
             /\ at' = "switch"
             /\ gap' \in {gap, "long"}
             /\ UNCHANGED <<isp_step, counters, mode, boot, rx, listen,
                            image, outside, told, due>>

Goes(step, next) == /\ at = "switch" /\ isp_step = step
                    /\ at' = next

Sets(step) == isp_step' = step /\ at' = "switch"

Reports(what) == told' = what

\* program_done and program_err are one place; isp_step first.
Finish == /\ at = "finish"
          /\ isp_step' = "NULL" /\ at' = "restore"
          /\ UNCHANGED <<counters, wire, image, outside, told, due>>

\* __config_to_default_serial_mod also unmasks the receive interrupt.
Restore == /\ at = "restore"
           /\ at' = "switch"
           /\ mode' = "default" /\ rx' = "on"
           /\ UNCHANGED <<isp_step, counters, boot, listen, gap, image,
                          outside, told, due>>

-----------------------------------------------------------------------------
(* Thread isp: STM32 *)

\* Faulty variant: the receive interrupt is left as the timer set it.
ResetMasked == /\ Goes("HANDSHAKE_STM32", "reset")
               /\ mode' = "even" /\ boot' = TRUE
               /\ due' = IF due = "HANDSHAKE_STM32" THEN "none" ELSE due
               /\ UNCHANGED <<isp_step, counters, rx, listen, gap, image,
                              outside, told>>

\* The serial port to even parity, the BOOT pin up, the processor reset; isp
\* sleeps for a second and a half.
Reset == /\ Goes("HANDSHAKE_STM32", "reset")
         /\ mode' = "even" /\ rx' = "on" /\ boot' = TRUE
         /\ due' = IF due = "HANDSHAKE_STM32" THEN "none" ELSE due
         /\ UNCHANGED <<isp_step, counters, listen, gap, image, outside,
                        told>>

AfterReset == /\ at = "reset"
              /\ ack_cnt' = 0
              /\ Sets("HANDSHAKE_STM32_2")
              /\ UNCHANGED <<handshake_cnt, error_cnt, tries, wire, image,
                             outside, told, due>>

Hello == /\ Goes("HANDSHAKE_STM32_2", "hello")
         /\ handshake_cnt' = handshake_cnt + 1
         /\ ack_cnt' = ack_cnt + 1
         /\ UNCHANGED <<isp_step, error_cnt, tries, wire, image, outside,
                        told, due>>

HelloAcked == /\ at = "hello" /\ TRUE \in Acks
              /\ handshake_cnt' = 0
              /\ Sets("ERASE_FLASH_FLAG")
              /\ UNCHANGED <<ack_cnt, error_cnt, tries, wire, image, outside,
                             told, due>>

HelloAgain == /\ at = "hello" /\ FALSE \in Acks
              /\ ack_cnt <= HandshakeCount
              /\ at' = "switch"
              /\ UNCHANGED <<isp_step, counters, wire, image, outside,
                             told, due>>

\* Faulty variant: the tries since the reset only are looked at.
HelloGivesUpNever ==
    /\ at = "hello" /\ FALSE \in Acks
    /\ ack_cnt > HandshakeCount
    /\ handshake_cnt' = 0 /\ Sets("HANDSHAKE_STM32")
    /\ UNCHANGED <<ack_cnt, error_cnt, tries, wire, image, outside, told,
                   due>>

HelloGivesUp ==
    /\ at = "hello" /\ FALSE \in Acks
    /\ ack_cnt > HandshakeCount
    /\ IF handshake_cnt + 1 > HandshakeCount
       THEN /\ handshake_cnt' = 0
            /\ Reports("failed")
            /\ at' = "finish" /\ UNCHANGED isp_step
       ELSE /\ handshake_cnt' = handshake_cnt + 1
            /\ Sets("HANDSHAKE_STM32")
            /\ UNCHANGED told
    /\ UNCHANGED <<ack_cnt, error_cnt, tries, wire, image, outside, due>>

Asks(step, next) == /\ Goes(step, next)
                    /\ UNCHANGED <<isp_step, counters, wire, image, outside,
                                   told, due>>

Erase == Asks("ERASE_FLASH_FLAG", "erase")
EraseAll == Asks("ERASE_FLASH_ALL", "eraseAll")

Erased(case, next) == /\ at = case
                      /\ \E acked \in Acks :
                            Sets(IF acked THEN next ELSE "HANDSHAKE_STM32")
                      /\ UNCHANGED <<counters, wire, image, outside, told,
                                     due>>

EraseAnswered == Erased("erase", "ERASE_FLASH_ALL")
EraseAllAnswered == Erased("eraseAll", "PROGRAM")

\* start_get_down_zone_spiflash: what is too long for the zone has length 0.
ReadsZone == /\ len' = IF zone >= ZoneLimit THEN 0 ELSE zone
             /\ fresh' = ~filling
             /\ sent' = 0 /\ held' = {}

Program == /\ Goes("PROGRAM", "cmd31")
           /\ ReadsZone
           /\ error_cnt' = 0
           /\ UNCHANGED <<isp_step, handshake_cnt, ack_cnt, tries, wire,
                          outside, told, due>>

\* Faulty variant: the counter of errors has no width.
AroundForEver(errors) ==
    /\ at' = "cmd31"
    /\ error_cnt' = IF error_cnt > ErrorMax THEN error_cnt
                    ELSE error_cnt + errors * ErrorWidth
    /\ isp_step' = IF error_cnt' >= ErrorMax THEN "PROGRAM_ERROR" ELSE isp_step

\* Back to the head of the for loop of ISP_PROGRAM, after an error or none.
\* Too many errors set isp_step and leave the loop where it is; its end sets
\* another step, so that the case of ISP_PROGRAM_ERROR is never executed.
Around(errors) == /\ at' = "cmd31"
                  /\ error_cnt' = (error_cnt + errors) % ErrorWidth
                  /\ isp_step' = IF error_cnt' >= ErrorMax
                                 THEN "PROGRAM_ERROR" ELSE isp_step

Command == /\ at = "cmd31"
           /\ \E acked \in Acks :
                 \/ ~acked /\ Around(1)
                 \/ /\ acked /\ sent = len
                    /\ Sets("PROGRAM_DONE") /\ UNCHANGED error_cnt
                 \/ /\ acked /\ sent # len
                    /\ at' = "address" /\ UNCHANGED <<isp_step, error_cnt>>
           /\ UNCHANGED <<handshake_cnt, ack_cnt, tries, wire, image,
                          outside, told, due>>

Address == /\ at = "address"
           /\ \E acked \in Acks :
                 IF acked THEN at' = "data" /\ UNCHANGED <<isp_step, error_cnt>>
                 ELSE Around(1)
           /\ UNCHANGED <<handshake_cnt, ack_cnt, tries, wire, image,
                          outside, told, due>>

\* Faulty variant: the last block is counted one unit longer.
PiecePast == IF len - sent >= Block THEN Block ELSE len - sent + 1

Piece == IF len - sent >= Block THEN Block ELSE len - sent

\* Faulty variant: sendnum stays where it is when the checksum is refused.
DataSkips ==
    /\ at = "data"
    /\ \E acked \in Acks :
          /\ held' \in Took(acked, Piece)
          /\ Around(IF acked THEN 0 ELSE 1)
    /\ sent' = sent + Piece
    /\ UNCHANGED <<handshake_cnt, ack_cnt, tries, wire, len, fresh, outside,
                   told, due>>

Data == /\ at = "data"
        /\ \E acked \in Acks :
              /\ held' \in Took(acked, Piece)
              /\ sent' = IF acked THEN sent + Piece ELSE sent
              /\ Around(IF acked THEN 0 ELSE 1)
        /\ UNCHANGED <<handshake_cnt, ack_cnt, tries, wire, len, fresh,
                       outside, told, due>>

Release == /\ Goes("PROGRAM_DONE", "release")
           /\ boot' = FALSE
           /\ UNCHANGED <<isp_step, counters, mode, rx, listen, gap, image,
                          outside, told, due>>

ReportStm32 == /\ at = "release"
               /\ Reports("done") /\ at' = "finish"
               /\ UNCHANGED <<isp_step, counters, wire, image, outside, due>>

-----------------------------------------------------------------------------
(* Thread isp: AVR *)

\* Faulty variant: the parity is left as it is.
AvrHelloAsIs ==
    /\ Goes("HANDSHAKE_AVR", "avrHello")
    /\ tries' = 0 /\ rx' = "on"
    /\ due' = IF due = "HANDSHAKE_AVR" THEN "none" ELSE due
    /\ UNCHANGED <<isp_step, handshake_cnt, ack_cnt, error_cnt, mode, boot,
                   listen, gap, image, outside, told>>

AvrHello == /\ Goes("HANDSHAKE_AVR", "avrHello")
            /\ mode' = "default" /\ rx' = "on"
            /\ tries' = 0
            /\ due' = IF due = "HANDSHAKE_AVR" THEN "none" ELSE due
            /\ UNCHANGED <<isp_step, handshake_cnt, ack_cnt, error_cnt, boot,
                           listen, gap, image, outside, told>>

AvrHelloAcked == /\ at = "avrHello" /\ TRUE \in Acks
                 /\ Sets("PROG_AVR")
                 /\ UNCHANGED <<counters, wire, image, outside, told, due>>

\* Another try, and after the last one a report, unless AT+ISP has meanwhile
\* set another step.
AvrHelloFails == /\ at = "avrHello" /\ FALSE \in Acks
                 /\ tries' = tries + 1
                 /\ IF tries' < AvrTries THEN UNCHANGED <<at, told>>
                    ELSE IF isp_step = "HANDSHAKE_AVR"
                    THEN Reports("failed") /\ at' = "finish"
                    ELSE at' = "switch" /\ UNCHANGED told
                 /\ UNCHANGED <<isp_step, handshake_cnt, ack_cnt, error_cnt,
                                wire, image, outside, due>>

AvrProgram == /\ Goes("PROG_AVR", "avrAddress")
              /\ ReadsZone
              /\ UNCHANGED <<isp_step, counters, wire, outside, told, due>>

FwSize == len % CountWidth
AvrPiece == IF FwSize - sent >= Page THEN Page ELSE FwSize - sent

\* An address or a page that is not acknowledged is sent again, for ever.
AvrAddress == /\ at = "avrAddress"
              /\ at' \in {IF acked THEN "avrBlock" ELSE at : acked \in Acks}
              /\ UNCHANGED <<isp_step, counters, wire, image, outside,
                             told, due>>

\* No memory for the page: isp_step is set, and the loop goes on.
AvrNoMemory == /\ at = "avrBlock"
               /\ isp_step' = "PROG_AVR_ERR" /\ at' = "avrAddress"
               /\ UNCHANGED <<counters, wire, image, outside, told, due>>

AvrBlock == /\ at = "avrBlock"
            /\ \E acked \in Acks :
                  /\ held' \in Took(acked, AvrPiece)
                  /\ sent' = IF acked THEN (sent + Page) % CountWidth ELSE sent
                  /\ at' = IF acked /\ sent' >= FwSize THEN "avrEnd"
                           ELSE "avrAddress"
            /\ UNCHANGED <<isp_step, counters, wire, len, fresh, outside,
                           told, due>>

AvrEnd == /\ at = "avrEnd"
          /\ \E acked \in Acks :
                Sets(IF acked THEN "PROG_AVR_A" ELSE "PROG_AVR_ERR")
          /\ UNCHANGED <<counters, wire, image, outside, told, due>>

AvrAsk == /\ Goes("PROG_AVR_A", "avrAsk")
          /\ tries' = 0
          /\ UNCHANGED <<isp_step, handshake_cnt, ack_cnt, error_cnt, wire,
                         image, outside, told, due>>

AvrFinished == /\ at = "avrAsk" /\ TRUE \in Acks
               /\ Sets("PROG_AVR_DONE")
               /\ UNCHANGED <<counters, wire, image, outside, told, due>>

AvrRefused == /\ at = "avrAsk" /\ Acks = BOOLEAN
              /\ Sets("PROG_AVR_ERR")
              /\ UNCHANGED <<counters, wire, image, outside, told, due>>

\* An answer that the work goes on starts the tries anew (i = 0, then i++); no
\* answer in five tries ends the case, which begins again.
AvrUnfinished == /\ at = "avrAsk" /\ FALSE \in Acks
                 /\ tries' \in {tries + 1} \union
                               (IF Acks = BOOLEAN THEN {1} ELSE {})
                 /\ at' = IF tries' < AskTries THEN at ELSE "switch"
                 /\ UNCHANGED <<isp_step, handshake_cnt, ack_cnt, error_cnt,
                                wire, image, outside, told, due>>

ReportAvr(step, what) == /\ Goes(step, "finish")
                         /\ Reports(what)
                         /\ UNCHANGED <<isp_step, counters, wire, image,
                                        outside, due>>

ReportAvrDone == ReportAvr("PROG_AVR_DONE", "done")
ReportAvrError == ReportAvr("PROG_AVR_ERR", "failed")

-----------------------------------------------------------------------------
Ends == EnterIdle \/ LeaveIdle \/ Finish \/ Restore

Stm32 == \/ Reset \/ AfterReset \/ Hello
         \/ HelloAcked \/ HelloAgain \/ HelloGivesUp
         \/ Erase \/ EraseAnswered \/ EraseAll \/ EraseAllAnswered
         \/ Program \/ Command \/ Address \/ Data
         \/ Release \/ ReportStm32

Avr == \/ AvrHello \/ AvrHelloAcked \/ AvrHelloFails
       \/ AvrProgram \/ AvrAddress \/ AvrNoMemory \/ AvrBlock \/ AvrEnd
       \/ AvrAsk \/ AvrFinished \/ AvrRefused \/ AvrUnfinished
       \/ ReportAvrDone \/ ReportAvrError

Isp == Ends \/ Stm32 \/ Avr

Next == \/ Isp
        \/ Request \/ Download \/ Downloaded \/ Behave
        \/ ListenTest \/ ListenOff

Spec == Init /\ [][Next]_vars

\* isp shares the lowest priority in use with threads that sleep: it runs on.
FairSpec == Spec /\ WF_vars(Isp)

-----------------------------------------------------------------------------
\* The whole file can be programmed: its length is below the limit of the
\* zone and, for an AVR, below the width of fw_size.
Fits == zone < ZoneLimit /\ (mode = "default" => zone < CountWidth)

\* +ISP=1 is reported only when the processor has taken every unit of the file
\* that is in the zone, whatever was refused, lost, sent again or asked
\* meanwhile, if no download touched the zone since its length was read; an
\* STM32 was then let out of its boot loader.  A file that does not fit is
\* left out: the code reports success for it too.
ReportTruthful ==
    at = "finish" /\ told = "done" =>
       /\ fresh /\ Fits => 0..(zone - 1) \subseteq held
       /\ mode = "even" => ~boot

\* While a processor is programmed the port is isp's: isp_step is not ISP_NULL,
\* so put2ispuart and write_to_isp_serial refuse the other threads, and the
\* parity is the one of the protocol that is spoken, although AT+ISP changes
\* isp_step in the middle of both.  Whenever the others may write the parity is
\* the default one, but for the moment between the two statements that end a
\* run.  (No run begins between the test and the write of put2ispuart: tcpip
\* alone calls it, and tcpip alone sets isp_step.)
PortHeld == /\ at \in Stm32Cases \union AvrCases => isp_step # "NULL"
            /\ at \in Stm32Cases => mode = "even"
            /\ at \in AvrCases => mode = "default"
            /\ isp_step = "NULL" => mode = "default" \/ at = "restore"

\* The answers of the processor can be heard, unless the timer masked the
\* interrupt between its test of isp_step and its action.
TargetHeard == at \in Stm32Cases \union AvrCases => rx # "off"

\* Too many errors end the programming with ISP_PROGRAM_ERROR.
TooManyErrorsFail ==
    at = "finish" /\ told = "done" /\ mode = "even" => error_cnt < ErrorMax

\* A command given while nothing was programmed is begun, although isp may be
\* anywhere in its idle work, or the next command replaces it.
RequestServed == (due # "none") ~> (due = "none")

Stuck == /\ at \in AvrCases \ {"avrHello"}
         /\ FwSize > CountWidth - Page

\* Once the processor answers and there is memory, every run comes to its end,
\* from wherever the errors before have left it; a file of an AVR whose count
\* of bytes passes the width of write_count has none.  And a processor that
\* does not answer the handshake does not hold up isp.
RunsEnd ==
    /\ \/ ~<>[](mood = "ready" /\ rx # "raced" /\ ~Stuck)
       \/ ~<>[][~AvrNoMemory]_vars
       \/ []<>(isp_step = "NULL")
    /\ <>[](mood = "mute") => <>[](at \notin {"reset", "hello", "avrHello"})
=============================================================================
