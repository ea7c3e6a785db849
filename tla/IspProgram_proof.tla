-------------------------- MODULE IspProgram_proof --------------------------
(***************************************************************************)
(* Proofs about IspProgram: the safety of the programming loop for every   *)
(* limit, block size and counter width, with AT+ISP, downloads and the     *)
(* serial timer coming between any two steps.                              *)
(***************************************************************************)
EXTENDS IspProgram, TLAPS

StmSteps == {"HANDSHAKE_STM32_2", "ERASE_FLASH_FLAG", "ERASE_FLASH_ALL",
             "PROGRAM", "PROGRAM_ERROR", "PROGRAM_DONE"}
AvrSteps == {"PROG_AVR", "PROG_AVR_A", "PROG_AVR_DONE", "PROG_AVR_ERR"}

\* The step names the protocol, but for a handshake that AT+ISP put there; the
\* cases that speak the protocol are reached through its steps only.
PortInv ==
    /\ at \in Stm32Cases \union {"reset"} => mode = "even"
    /\ at \in AvrCases => mode = "default"
    /\ at \in Stm32Cases \union AvrCases \union {"reset"} => rx # "off"
    /\ at \in Stm32Cases \union AvrCases \union {"reset", "release", "finish"}
          => isp_step # "NULL"
    /\ at \in {"idle", "restore"} => isp_step \in Handshakes \union {"NULL"}
    /\ isp_step \in StmSteps => mode = "even" /\ rx # "off"
    /\ isp_step \in AvrSteps => mode = "default" /\ rx # "off"
    /\ isp_step = "NULL" => mode = "default" \/ at = "restore"

\* The handshake counts since the reset and since the command run together,
\* unless a command has set the second one back; the loops over tries end.
CountInv ==
    /\ isp_step = "HANDSHAKE_STM32_2" /\ at = "switch" =>
          ack_cnt <= HandshakeCount
    /\ isp_step = "HANDSHAKE_STM32_2" /\ at \in {"switch", "hello"} =>
          ack_cnt <= handshake_cnt /\ handshake_cnt <= ack_cnt + 1
    /\ isp_step # "HANDSHAKE_STM32_2" /\ at = "hello" => handshake_cnt = 0
    /\ isp_step = "HANDSHAKE_STM32" \/ at = "reset" => handshake_cnt <= 1
    /\ isp_step \in {"ERASE_FLASH_FLAG", "ERASE_FLASH_ALL"}
       \/ at \in {"erase", "eraseAll"} => handshake_cnt = 0
    /\ at = "avrHello" => tries < AvrTries
    /\ at = "avrAsk" => tries < AskTries

\* The first n units of the file are in the processor.
Prefix(n) == 0..(n - 1) \subseteq held

\* The units the code means to write: for an AVR, len modulo the width.
Written == IF mode = "even" THEN 0..(len - 1) ELSE 0..(FwSize - 1)

\* What was acknowledged is in the processor, also when write_count wrapped;
\* what says that all was written says so of this file.
DataInv ==
    /\ at \in {"cmd31", "address", "data"} => sent <= len /\ Prefix(sent)
    /\ at \in {"avrAddress", "avrBlock"} => sent <= FwSize /\ Prefix(sent)
    /\ isp_step = "PROGRAM_DONE" \/ at = "release" => Prefix(len)
    /\ isp_step \in {"PROG_AVR_A", "PROG_AVR_DONE"}
       \/ at \in {"avrEnd", "avrAsk"} => Prefix(FwSize)
    /\ at = "release" => mode = "even" /\ ~boot
    /\ at = "finish" /\ told = "done" =>
          Written \subseteq held /\ (mode = "even" => ~boot)

\* Without a download in between, len is the length that is in the zone.
ZoneInv == fresh => len = IF zone >= ZoneLimit THEN 0 ELSE zone
-----------------------------------------------------------------------------
(* The port *)

\* No step takes the port from a run, or speaks a protocol with the other's
\* parity.
LEMMA PortStep == ASSUME PortInv, [Next]_vars PROVE PortInv'
<1> USE DEF PortInv, Stm32Cases, AvrCases, Handshakes, StmSteps, AvrSteps,
            counters, wire, image, outside
<1>1. CASE EnterIdle
  BY <1>1 DEF EnterIdle, Goes
<1>2. CASE LeaveIdle
  BY <1>2 DEF LeaveIdle
<1>3. CASE Finish
  BY <1>3 DEF Finish
<1>4. CASE Restore
  BY <1>4 DEF Restore
<1>5. CASE Reset
  BY <1>5 DEF Reset, Goes
<1>6. CASE AfterReset
  BY <1>6 DEF AfterReset, Sets
<1>7. CASE Hello
  BY <1>7 DEF Hello, Goes
<1>8. CASE HelloAcked
  BY <1>8 DEF HelloAcked, Sets
<1>9. CASE HelloAgain
  BY <1>9 DEF HelloAgain
<1>10. CASE HelloGivesUp
  BY <1>10 DEF HelloGivesUp, Sets, Reports
<1>11. CASE Erase \/ EraseAll
  BY <1>11 DEF Erase, Asks, Goes, EraseAll
<1>12. CASE EraseAnswered \/ EraseAllAnswered
  BY <1>12 DEF EraseAnswered, Erased, Sets, EraseAllAnswered
<1>13. CASE Program
  BY <1>13 DEF Program, Goes, ReadsZone
<1>14. CASE Command
  BY <1>14 DEF Command, Around, Sets
<1>15. CASE Address
  BY <1>15 DEF Address, Around
<1>16. CASE Data
  BY <1>16 DEF Data, Around
<1>17. CASE Release
  BY <1>17 DEF Release, Goes
<1>18. CASE ReportStm32
  BY <1>18 DEF ReportStm32, Reports
<1>19. CASE AvrHello
  BY <1>19 DEF AvrHello, Goes
<1>20. CASE AvrHelloAcked
  BY <1>20 DEF AvrHelloAcked, Sets
<1>21. CASE AvrHelloFails
  BY <1>21 DEF AvrHelloFails, Reports
<1>22. CASE AvrProgram
  BY <1>22 DEF AvrProgram, Goes, ReadsZone
<1>23. CASE AvrAddress
  BY <1>23 DEF AvrAddress
<1>24. CASE AvrNoMemory
  BY <1>24 DEF AvrNoMemory
<1>25. CASE AvrBlock
  BY <1>25 DEF AvrBlock
<1>26. CASE AvrEnd
  BY <1>26 DEF AvrEnd, Sets
<1>27. CASE AvrAsk
  BY <1>27 DEF AvrAsk, Goes
<1>28. CASE AvrFinished
  BY <1>28 DEF AvrFinished, Sets
<1>29. CASE AvrRefused
  BY <1>29 DEF AvrRefused, Sets
<1>30. CASE AvrUnfinished
  BY <1>30 DEF AvrUnfinished
<1>31. CASE ReportAvrDone \/ ReportAvrError
  BY <1>31 DEF ReportAvrDone, ReportAvr, Goes, Reports, ReportAvrError
<1>32. CASE Request
  BY <1>32 DEF Request, RequestAs
<1>33. CASE Download
  BY <1>33 DEF Download
<1>38. CASE Downloaded
  BY <1>38 DEF Downloaded
<1>34. CASE Behave
  BY <1>34 DEF Behave
<1>35. CASE ListenTest
  BY <1>35 DEF ListenTest
<1>36. CASE ListenOff
  BY <1>36 DEF ListenOff
<1>37. CASE UNCHANGED vars
  BY <1>37 DEF vars
<1> QED
  BY <1>1, <1>2, <1>3, <1>4, <1>5, <1>6, <1>7, <1>8, <1>9, <1>10, <1>11,
     <1>12, <1>13, <1>14, <1>15, <1>16, <1>17, <1>18, <1>19, <1>20, <1>21,
     <1>22, <1>23, <1>24, <1>25, <1>26, <1>27, <1>28, <1>29, <1>30, <1>31,
     <1>32, <1>33, <1>34, <1>35, <1>36, <1>37, <1>38 DEF Next, Isp, Ends, Stm32,
     Avr

LEMMA PortInvariant == Spec => []PortInv
<1>1. Init => PortInv
  BY DEF Init, PortInv, Stm32Cases, AvrCases, StmSteps, AvrSteps
<1> QED
  BY <1>1, PortStep, PTL DEF Spec

\* While a processor is programmed the port and its parity are isp's, although
\* AT+ISP changes isp_step in the middle (isp_http_tcp.c, isp_process_xmpp.c).
THEOREM PortIsHeld == Spec => []PortHeld
<1>1. PortInv => PortHeld
  BY DEF PortInv, PortHeld
<1> QED
  BY <1>1, PortInvariant, PTL

\* The receive interrupt is on while an answer is awaited, unless the timer
\* masked it between its test of isp_step and its action.
THEOREM TargetIsHeard == Spec => []TargetHeard
<1>1. PortInv => TargetHeard
  BY DEF PortInv, TargetHeard
<1> QED
  BY <1>1, PortInvariant, PTL
-----------------------------------------------------------------------------
(* Types and counts *)

\* The counters stay within what the code's limits allow, and no other variable
\* leaves its type.
LEMMA TypeStep ==
    ASSUME TypeOK, CountInv, DataInv, [Next]_vars PROVE TypeOK'
<1> USE IspAssumption
    DEF TypeOK, Steps, Cases, Stm32Cases, AvrCases, Handshakes,
        counters, wire, image, outside
<1>1. CASE EnterIdle
  BY <1>1 DEF EnterIdle, Goes
<1>2. CASE LeaveIdle
  BY <1>2 DEF LeaveIdle
<1>3. CASE Finish
  BY <1>3 DEF Finish
<1>4. CASE Restore
  BY <1>4 DEF Restore
<1>5. CASE Reset
  BY <1>5 DEF Reset, Goes
<1>6. CASE AfterReset
  BY <1>6 DEF AfterReset, Sets
<1>7. CASE Hello
  <2>1. /\ ack_cnt <= HandshakeCount
        /\ ack_cnt <= handshake_cnt /\ handshake_cnt <= ack_cnt + 1
    BY <1>7 DEF Hello, Goes, CountInv
  <2> QED
    BY <1>7, <2>1 DEF Hello, Goes
<1>8. CASE HelloAcked
  BY <1>8 DEF HelloAcked, Sets
<1>9. CASE HelloAgain
  BY <1>9 DEF HelloAgain
<1>10. CASE HelloGivesUp
  BY <1>10 DEF HelloGivesUp, Sets, Reports
<1>11. CASE Erase \/ EraseAll
  <2>1. CASE Erase
    BY <2>1 DEF Erase, Asks, Goes
  <2>2. CASE EraseAll
    BY <2>2 DEF EraseAll, Asks, Goes
  <2> QED
    BY <1>11, <2>1, <2>2
<1>12. CASE EraseAnswered \/ EraseAllAnswered
  <2>1. CASE EraseAnswered
    BY <2>1 DEF EraseAnswered, Erased, Sets
  <2>2. CASE EraseAllAnswered
    BY <2>2 DEF EraseAllAnswered, Erased, Sets
  <2> QED
    BY <1>12, <2>1, <2>2
<1>13. CASE Program
  BY <1>13 DEF Program, Goes, ReadsZone
<1>14. CASE Command
  <2>1. /\ error_cnt' \in 0..(ErrorWidth - 1)
        /\ isp_step' \in Steps /\ at' \in Cases
    BY <1>14 DEF Command, Around, Sets
  <2> QED
    BY <1>14, <2>1 DEF Command
<1>15. CASE Address
  <2>1. /\ error_cnt' \in 0..(ErrorWidth - 1)
        /\ isp_step' \in Steps /\ at' \in Cases
    BY <1>15 DEF Address, Around
  <2> QED
    BY <1>15, <2>1 DEF Address
<1>16. CASE Data
  <2>1. PICK acked \in Acks :
            /\ held' \in Took(acked, Piece)
            /\ sent' = IF acked THEN sent + Piece ELSE sent
            /\ Around(IF acked THEN 0 ELSE 1)
    BY <1>16 DEF Data
  <2>2. Piece \in Nat
    BY <1>16 DEF Data, Piece, DataInv
  <2>3. held' \subseteq Nat /\ sent' \in Nat
    BY <2>1, <2>2 DEF Took
  <2>4. /\ error_cnt' \in 0..(ErrorWidth - 1)
        /\ isp_step' \in Steps /\ at' \in Cases
    BY <2>1 DEF Around
  <2> QED
    BY <1>16, <2>3, <2>4 DEF Data
<1>17. CASE Release
  BY <1>17 DEF Release, Goes
<1>18. CASE ReportStm32
  BY <1>18 DEF ReportStm32, Reports
<1>19. CASE AvrHello
  BY <1>19 DEF AvrHello, Goes
<1>20. CASE AvrHelloAcked
  BY <1>20 DEF AvrHelloAcked, Sets
<1>21. CASE AvrHelloFails
  BY <1>21 DEF AvrHelloFails, Reports, CountInv
<1>22. CASE AvrProgram
  BY <1>22 DEF AvrProgram, Goes, ReadsZone
<1>23. CASE AvrAddress
  BY <1>23 DEF AvrAddress
<1>24. CASE AvrNoMemory
  BY <1>24 DEF AvrNoMemory
<1>25. CASE AvrBlock
  <2>1. PICK acked \in Acks :
            /\ held' \in Took(acked, AvrPiece)
            /\ sent' = IF acked THEN (sent + Page) % CountWidth ELSE sent
    BY <1>25 DEF AvrBlock
  <2>2. FwSize \in Nat
    BY DEF FwSize
  <2>3. AvrPiece \in Nat
    BY <1>25, <2>2 DEF AvrBlock, AvrPiece, DataInv
  <2>4. held' \subseteq Nat /\ sent' \in Nat
    BY <2>1, <2>3 DEF Took
  <2> QED
    BY <1>25, <2>4 DEF AvrBlock
<1>26. CASE AvrEnd
  BY <1>26 DEF AvrEnd, Sets
<1>27. CASE AvrAsk
  BY <1>27 DEF AvrAsk, Goes
<1>28. CASE AvrFinished
  BY <1>28 DEF AvrFinished, Sets
<1>29. CASE AvrRefused
  BY <1>29 DEF AvrRefused, Sets
<1>30. CASE AvrUnfinished
  BY <1>30 DEF AvrUnfinished, CountInv
<1>31. CASE ReportAvrDone \/ ReportAvrError
  <2>1. CASE ReportAvrDone
    BY <2>1 DEF ReportAvrDone, ReportAvr, Goes, Reports
  <2>2. CASE ReportAvrError
    BY <2>2 DEF ReportAvrError, ReportAvr, Goes, Reports
  <2> QED
    BY <1>31, <2>1, <2>2
<1>32. CASE Request
  BY <1>32 DEF Request, RequestAs
<1>33. CASE Download
  <2>1. fresh' \in BOOLEAN /\ filling' \in BOOLEAN
    BY <1>33, Zenon DEF Download
  <2>2. /\ downloads' \in 0..MaxDownloads /\ zone' \in Lengths
        /\ UNCHANGED <<isp_step, at, counters, wire, sent, len, held,
                       mood, asked, told, due>>
    BY <1>33 DEF Download
  <2> QED
    BY <2>1, <2>2
<1>38. CASE Downloaded
  <2>1. fresh' \in BOOLEAN /\ filling' \in BOOLEAN
    BY <1>38, Zenon DEF Downloaded
  <2>2. UNCHANGED <<isp_step, at, counters, wire, sent, len, held, zone,
                    mood, asked, downloads, told, due>>
    BY <1>38 DEF Downloaded
  <2> QED
    BY <2>1, <2>2
<1>34. CASE Behave
  BY <1>34 DEF Behave
<1>35. CASE ListenTest
  BY <1>35 DEF ListenTest
<1>36. CASE ListenOff
  BY <1>36 DEF ListenOff
<1>37. CASE UNCHANGED vars
  BY <1>37 DEF vars
<1> QED
  BY <1>1, <1>2, <1>3, <1>4, <1>5, <1>6, <1>7, <1>8, <1>9, <1>10, <1>11,
     <1>12, <1>13, <1>14, <1>15, <1>16, <1>17, <1>18, <1>19, <1>20, <1>21,
     <1>22, <1>23, <1>24, <1>25, <1>26, <1>27, <1>28, <1>29, <1>30, <1>31,
     <1>32, <1>33, <1>34, <1>35, <1>36, <1>37, <1>38 DEF Next, Isp, Ends, Stm32,
     Avr

LEMMA CountStep ==
    ASSUME TypeOK, PortInv, CountInv, [Next]_vars PROVE CountInv'
<1> USE IspAssumption
    DEF TypeOK, CountInv, counters, wire, image, outside
<1>1. CASE EnterIdle
  BY <1>1 DEF EnterIdle, Goes
<1>2. CASE LeaveIdle
  BY <1>2 DEF LeaveIdle, PortInv, Handshakes
<1>3. CASE Finish
  BY <1>3 DEF Finish
<1>4. CASE Restore
  BY <1>4 DEF Restore, PortInv, Handshakes
<1>5. CASE Reset
  BY <1>5 DEF Reset, Goes
<1>6. CASE AfterReset
  BY <1>6 DEF AfterReset, Sets
<1>7. CASE Hello
  BY <1>7 DEF Hello, Goes
<1>8. CASE HelloAcked
  BY <1>8 DEF HelloAcked, Sets
<1>9. CASE HelloAgain
  BY <1>9 DEF HelloAgain
<1>10. CASE HelloGivesUp
  BY <1>10 DEF HelloGivesUp, Sets, Reports
<1>11. CASE Erase \/ EraseAll
  BY <1>11 DEF Erase, Asks, Goes, EraseAll
<1>12. CASE EraseAnswered \/ EraseAllAnswered
  BY <1>12 DEF EraseAnswered, Erased, Sets, EraseAllAnswered
<1>13. CASE Program
  BY <1>13 DEF Program, Goes, ReadsZone
<1>14. CASE Command
  BY <1>14 DEF Command, Around, Sets
<1>15. CASE Address
  BY <1>15 DEF Address, Around
<1>16. CASE Data
  BY <1>16 DEF Data, Around
<1>17. CASE Release
  BY <1>17 DEF Release, Goes
<1>18. CASE ReportStm32
  BY <1>18 DEF ReportStm32, Reports
<1>19. CASE AvrHello
  BY <1>19 DEF AvrHello, Goes
<1>20. CASE AvrHelloAcked
  BY <1>20 DEF AvrHelloAcked, Sets
<1>21. CASE AvrHelloFails
  BY <1>21 DEF AvrHelloFails, Reports, PortInv, AvrCases, StmSteps
<1>22. CASE AvrProgram
  BY <1>22 DEF AvrProgram, Goes, ReadsZone
<1>23. CASE AvrAddress
  BY <1>23 DEF AvrAddress
<1>24. CASE AvrNoMemory
  BY <1>24 DEF AvrNoMemory
<1>25. CASE AvrBlock
  BY <1>25 DEF AvrBlock
<1>26. CASE AvrEnd
  BY <1>26 DEF AvrEnd, Sets
<1>27. CASE AvrAsk
  BY <1>27 DEF AvrAsk, Goes
<1>28. CASE AvrFinished
  BY <1>28 DEF AvrFinished, Sets
<1>29. CASE AvrRefused
  BY <1>29 DEF AvrRefused, Sets
<1>30. CASE AvrUnfinished
  BY <1>30 DEF AvrUnfinished, PortInv, AvrCases, StmSteps
<1>31. CASE ReportAvrDone \/ ReportAvrError
  BY <1>31 DEF ReportAvrDone, ReportAvr, Goes, Reports, ReportAvrError
<1>32. CASE Request
  BY <1>32 DEF Request, RequestAs, Handshakes
<1>33. CASE Download
  BY <1>33 DEF Download
<1>38. CASE Downloaded
  BY <1>38 DEF Downloaded
<1>34. CASE Behave
  BY <1>34 DEF Behave
<1>35. CASE ListenTest
  BY <1>35 DEF ListenTest
<1>36. CASE ListenOff
  BY <1>36 DEF ListenOff
<1>37. CASE UNCHANGED vars
  BY <1>37 DEF vars
<1> QED
  BY <1>1, <1>2, <1>3, <1>4, <1>5, <1>6, <1>7, <1>8, <1>9, <1>10, <1>11,
     <1>12, <1>13, <1>14, <1>15, <1>16, <1>17, <1>18, <1>19, <1>20, <1>21,
     <1>22, <1>23, <1>24, <1>25, <1>26, <1>27, <1>28, <1>29, <1>30, <1>31,
     <1>32, <1>33, <1>34, <1>35, <1>36, <1>37, <1>38 DEF Next, Isp, Ends, Stm32,
     Avr
-----------------------------------------------------------------------------
(* What the processor holds *)

LEMMA ModIsCount ==
    ASSUME NEW a \in Nat PROVE a % CountWidth \in 0..(CountWidth - 1)
BY IspAssumption

LEMMA ShorterPrefix ==
    ASSUME NEW a \in Nat, NEW b \in Nat, a < b
    PROVE  \A i \in 0..(a - 1) : i \in 0..(b - 1)
OBVIOUS

LEMMA SmallMod ==
    ASSUME NEW a \in Nat, NEW n \in Nat, a < n PROVE a % n = a
OBVIOUS

\* Blocks that are refused, sent again or counted past the width of write_count
\* leave no hole, and no new file is begun under a report of an old one.
LEMMA DataStep ==
    ASSUME TypeOK, PortInv, DataInv, [Next]_vars PROVE DataInv'
<1> USE IspAssumption
    DEF TypeOK, DataInv, counters, wire, image, outside
<1>1. CASE EnterIdle
  BY <1>1 DEF EnterIdle, Goes, Prefix, FwSize
<1>2. CASE LeaveIdle
  BY <1>2 DEF LeaveIdle, Prefix, FwSize
<1>3. CASE Finish
  BY <1>3 DEF Finish, Prefix, FwSize, Written
<1>4. CASE Restore
  BY <1>4 DEF Restore, Prefix, FwSize, Written
<1>5. CASE Reset
  BY <1>5 DEF Reset, Goes, Prefix, FwSize, Written
<1>6. CASE AfterReset
  BY <1>6 DEF AfterReset, Sets, Prefix, FwSize
<1>7. CASE Hello
  BY <1>7 DEF Hello, Goes, Prefix, FwSize
<1>8. CASE HelloAcked
  BY <1>8 DEF HelloAcked, Sets, Prefix, FwSize
<1>9. CASE HelloAgain
  BY <1>9 DEF HelloAgain, Prefix, FwSize
<1>10. CASE HelloGivesUp
  BY <1>10 DEF HelloGivesUp, Sets, Reports, Prefix, FwSize
<1>11. CASE Erase \/ EraseAll
  BY <1>11 DEF Erase, EraseAll, Asks, Goes, Prefix, FwSize
<1>12. CASE EraseAnswered \/ EraseAllAnswered
  BY <1>12 DEF EraseAnswered, EraseAllAnswered, Erased, Sets, Prefix, FwSize
<1>13. CASE Program
  <2>1. /\ at' = "cmd31" /\ sent' = 0 /\ len' \in Nat
        /\ isp_step' = "PROGRAM"
    BY <1>13 DEF Program, Goes, ReadsZone
  <2> QED
    BY <2>1 DEF Prefix
<1>14. CASE Command
  BY <1>14 DEF Command, Around, Sets, Prefix, FwSize
<1>15. CASE Address
  BY <1>15 DEF Address, Around, Prefix, FwSize
<1>16. CASE Data
  <2>1. PICK acked \in Acks :
            /\ held' \in Took(acked, Piece)
            /\ sent' = IF acked THEN sent + Piece ELSE sent
            /\ Around(IF acked THEN 0 ELSE 1)
    BY <1>16 DEF Data
  <2>2. /\ at = "data" /\ at' = "cmd31" /\ sent <= len /\ Prefix(sent)
        /\ isp_step' \in {isp_step, "PROGRAM_ERROR"}
        /\ UNCHANGED <<len, mode, boot, told>>
    BY <1>16, <2>1 DEF Data, Around
  <2>3. Piece \in Nat /\ sent + Piece <= len
    BY <2>2 DEF Piece
  <2>4. held \subseteq held'
    BY <2>1 DEF Took
  <2>5. sent' <= len /\ Prefix(sent)'
    <3>1. CASE acked
      <4>1. sent' = sent + Piece /\ held' = held \union sent..(sent + Piece - 1)
        BY <2>1, <3>1 DEF Took
      <4>2. \A i \in 0..(sent' - 1) : i \in held'
        BY <2>2, <2>3, <4>1 DEF Prefix
      <4> QED
        BY <2>3, <4>1, <4>2 DEF Prefix
    <3>2. CASE ~acked
      BY <2>1, <2>2, <2>4, <3>2 DEF Prefix
    <3> QED
      BY <3>1, <3>2
  <2> QED
    BY <2>2, <2>4, <2>5 DEF Prefix, FwSize
<1>17. CASE Release
  BY <1>17 DEF Release, Goes, PortInv, StmSteps, Prefix, FwSize
<1>18. CASE ReportStm32
  BY <1>18 DEF ReportStm32, Reports, Prefix, FwSize, Written
<1>19. CASE AvrHello
  BY <1>19 DEF AvrHello, Goes, Prefix, FwSize, Written
<1>20. CASE AvrHelloAcked
  BY <1>20 DEF AvrHelloAcked, Sets, Prefix, FwSize
<1>21. CASE AvrHelloFails
  BY <1>21 DEF AvrHelloFails, Reports, Prefix, FwSize
<1>22. CASE AvrProgram
  <2>1. /\ at' = "avrAddress" /\ sent' = 0 /\ len' \in Nat
        /\ isp_step' = "PROG_AVR"
    BY <1>22 DEF AvrProgram, Goes, ReadsZone
  <2>2. FwSize' \in Nat
    <3>1. len' % CountWidth \in 0..(CountWidth - 1)
      BY <2>1, ModIsCount
    <3>2. len' % CountWidth \in Nat
      BY <3>1
    <3> QED
      BY <3>2 DEF FwSize
  <2> QED
    BY <2>1, <2>2 DEF Prefix
<1>23. CASE AvrAddress
  BY <1>23 DEF AvrAddress, Prefix, FwSize
<1>24. CASE AvrNoMemory
  BY <1>24 DEF AvrNoMemory, Prefix, FwSize
<1>25. CASE AvrBlock
  <2>1. PICK acked \in Acks :
            /\ held' \in Took(acked, AvrPiece)
            /\ sent' = IF acked THEN (sent + Page) % CountWidth ELSE sent
            /\ at' = IF acked /\ sent' >= FwSize THEN "avrEnd"
                     ELSE "avrAddress"
    BY <1>25 DEF AvrBlock
  <2>2. /\ at = "avrBlock" /\ sent <= FwSize /\ Prefix(sent)
        /\ UNCHANGED <<isp_step, len, mode, boot, told>>
    BY <1>25 DEF AvrBlock, wire
  <2>3. FwSize \in 0..(CountWidth - 1) /\ FwSize' = FwSize
    BY <2>2 DEF FwSize
  <2>4. AvrPiece \in Nat /\ sent + AvrPiece <= FwSize
    BY <2>2, <2>3 DEF AvrPiece
  <2>5. held \subseteq held'
    BY <2>1 DEF Took
  <2>6. CASE acked
    <3>1. /\ sent' = (sent + Page) % CountWidth
          /\ held' = held \union sent..(sent + AvrPiece - 1)
      BY <2>1, <2>6 DEF Took
    <3>2. \A i \in 0..(sent + AvrPiece - 1) : i \in held'
      BY <2>2, <2>4, <3>1 DEF Prefix
    <3>3. CASE FwSize - sent >= Page
      <4>1. AvrPiece = Page /\ sent + Page < CountWidth
        BY <2>3, <3>3 DEF AvrPiece
      <4>2. sent' = sent + Page
        BY <3>1, <4>1, SmallMod
      <4>3. sent' <= FwSize /\ Prefix(sent)'
        BY <2>4, <3>2, <4>1, <4>2 DEF Prefix
      <4> QED
        BY <2>1, <2>2, <2>3, <2>5, <2>6, <4>3 DEF Prefix
    <3>4. CASE ~(FwSize - sent >= Page)
      \* The last page: what is sent again after a wrap was taken before.
      <4>1. \A i \in 0..(FwSize - 1) : i \in held'
        BY <2>2, <2>3, <3>2, <3>4 DEF AvrPiece
      <4>2. sent' \in Nat
        BY <3>1
      <4>3. Prefix(FwSize)'
        BY <2>3, <4>1 DEF Prefix
      <4>4. ASSUME sent' < FwSize PROVE Prefix(sent)'
        <5>1. \A i \in 0..(sent' - 1) : i \in 0..(FwSize - 1)
          <6>1. FwSize \in Nat
            BY <2>3
          <6> QED
            BY <4>2, <4>4, <6>1, ShorterPrefix
        <5> QED
          BY <4>1, <5>1 DEF Prefix
      <4> QED
        BY <2>1, <2>2, <2>3, <2>5, <2>6, <4>2, <4>3, <4>4 DEF Prefix
    <3> QED
      BY <3>3, <3>4
  <2>7. CASE ~acked
    BY <2>1, <2>2, <2>3, <2>5, <2>7 DEF Prefix
  <2> QED
    BY <2>6, <2>7
<1>26. CASE AvrEnd
  BY <1>26 DEF AvrEnd, Sets, Prefix, FwSize
<1>27. CASE AvrAsk
  BY <1>27 DEF AvrAsk, Goes, Prefix, FwSize
<1>28. CASE AvrFinished
  BY <1>28 DEF AvrFinished, Sets, Prefix, FwSize
<1>29. CASE AvrRefused
  BY <1>29 DEF AvrRefused, Sets, Prefix, FwSize
<1>30. CASE AvrUnfinished
  BY <1>30 DEF AvrUnfinished, Prefix, FwSize
<1>31. CASE ReportAvrDone \/ ReportAvrError
  BY <1>31 DEF ReportAvrDone, ReportAvrError, ReportAvr, Goes, Reports,
     Prefix, FwSize, Written, PortInv, AvrSteps
<1>32. CASE Request
  BY <1>32 DEF Request, RequestAs, Handshakes, Prefix, FwSize, Written
<1>33. CASE Download
  BY <1>33 DEF Download, Prefix, FwSize, Written
<1>38. CASE Downloaded
  BY <1>38 DEF Downloaded, Prefix, FwSize, Written
<1>34. CASE Behave
  BY <1>34 DEF Behave, Prefix, FwSize, Written
<1>35. CASE ListenTest
  BY <1>35 DEF ListenTest, Prefix, FwSize, Written
<1>36. CASE ListenOff
  BY <1>36 DEF ListenOff, Prefix, FwSize, Written
<1>37. CASE UNCHANGED vars
  BY <1>37 DEF vars, Prefix, FwSize, Written
<1> QED
  BY <1>1, <1>2, <1>3, <1>4, <1>5, <1>6, <1>7, <1>8, <1>9, <1>10, <1>11,
     <1>12, <1>13, <1>14, <1>15, <1>16, <1>17, <1>18, <1>19, <1>20, <1>21,
     <1>22, <1>23, <1>24, <1>25, <1>26, <1>27, <1>28, <1>29, <1>30, <1>31,
     <1>32, <1>33, <1>34, <1>35, <1>36, <1>37, <1>38 DEF Next, Isp, Ends, Stm32,
     Avr

\* Only the two protocols read the length, and only a download changes it.
LEMMA ZoneStep == ASSUME TypeOK, ZoneInv, [Next]_vars PROVE ZoneInv'
<1> USE DEF ZoneInv, counters, wire, image, outside
<1>1. CASE Program \/ AvrProgram
  BY <1>1 DEF Program, AvrProgram, ReadsZone, outside
<1>2. CASE Download \/ Downloaded
  <2>1. ~fresh'
    BY <1>2, Zenon DEF Download, Downloaded
  <2> QED
    BY <2>1
<1>3. CASE UNCHANGED <<fresh, len, zone>>
  BY <1>3
<1>4. CASE Ends \/ Request \/ Behave \/ ListenTest \/ ListenOff
  BY <1>3, <1>4 DEF Ends, EnterIdle, LeaveIdle, Finish, Restore, Request,
     RequestAs, Behave, ListenTest, ListenOff
<1>5. CASE Stm32 /\ ~Program
  BY <1>3, <1>5 DEF Stm32, Reset, AfterReset, Hello, HelloAcked, HelloAgain,
     HelloGivesUp, Erase, EraseAll, Asks, EraseAnswered, EraseAllAnswered,
     Erased, Command, Address, Data, Release, ReportStm32
<1>6. CASE Avr /\ ~AvrProgram
  BY <1>3, <1>6 DEF Avr, AvrHello, AvrHelloAcked, AvrHelloFails, AvrAddress,
     AvrNoMemory, AvrBlock, AvrEnd, AvrAsk, AvrFinished, AvrRefused,
     AvrUnfinished, ReportAvrDone, ReportAvrError, ReportAvr
<1>7. CASE UNCHANGED vars
  BY <1>3, <1>7 DEF vars
<1> QED
  BY <1>1, <1>2, <1>4, <1>5, <1>6, <1>7 DEF Next, Isp

LEMMA IspInvariant ==
    Spec => [](TypeOK /\ PortInv /\ CountInv /\ DataInv /\ ZoneInv)
<1>1. Init => TypeOK
  <2>1. Init => fresh \in BOOLEAN /\ boot \in BOOLEAN /\ filling \in BOOLEAN
    BY Zenon DEF Init
  <2> QED
    BY <2>1, IspAssumption DEF Init, TypeOK, Steps, Cases, Handshakes
<1>2. Init => CountInv /\ DataInv /\ ZoneInv
  BY IspAssumption DEF Init, CountInv, DataInv, ZoneInv
<1> QED
  BY <1>1, <1>2, PortInvariant, TypeStep, CountStep, DataStep, ZoneStep, PTL
     DEF Spec

\* Every variable keeps its type: the counters of the handshake, of the errors
\* and of the tries stay within what the limits of isp_http_tcp.c allow.
THEOREM TypeCorrect == Spec => []TypeOK
BY IspInvariant, PTL

\* +ISP=1 is reported only when the processor has taken every unit of the file
\* in the zone, its length as the download left it and not as the code cut it,
\* whatever was refused, lost, sent again or asked meanwhile, and an STM32 only
\* after it was let out of its boot loader (isp_http_tcp.c).  The files that
\* do not fit the zone or fw_size are left out.
THEOREM ReportsAreTruthful == Spec => []ReportTruthful
<1>1. TypeOK /\ DataInv /\ ZoneInv => ReportTruthful
  <2> SUFFICES ASSUME TypeOK, DataInv, ZoneInv, at = "finish", told = "done"
               PROVE  /\ fresh /\ Fits => 0..(zone - 1) \subseteq held
                      /\ mode = "even" => ~boot
    BY DEF ReportTruthful
  <2>1. Written \subseteq held /\ (mode = "even" => ~boot)
    BY DEF DataInv
  <2>2. ASSUME fresh, Fits PROVE 0..(zone - 1) \subseteq held
    <3>1. zone \in Nat /\ len = zone /\ mode \in {"default", "even"}
      BY <2>2, IspAssumption DEF TypeOK, ZoneInv, Fits
    <3>2. mode = "default" => FwSize = zone
      BY <2>2, <3>1, SmallMod, IspAssumption DEF Fits, FwSize
    <3> QED
      BY <2>1, <3>1, <3>2 DEF Written
  <2> QED
    BY <2>1, <2>2
<1> QED
  BY <1>1, IspInvariant, PTL
=============================================================================
