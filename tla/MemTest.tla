------------------------------- MODULE MemTest -------------------------------
(***************************************************************************)
(* The memory test of mem_test_flash.cpp, MTF, between the MMIO registers  *)
(* that command it and the memory port Mp0 of the SHELL, an AXI DataMover. *)
(*                                                                         *)
(* A test writes a ramp over the whole memory, reads it back, and then     *)
(* stresses every chunk with a pattern and its complement.  One invocation *)
(* of mem_test_flash_main is one step.  An address counts memory words of  *)
(* 64 bytes, a chunk has TRANSFERS_PER_CHUNK of them.                      *)
(***************************************************************************)
EXTENDS Streams

CONSTANTS
  NumChunks,               \* the chunks of the memory
  TRANSFERS_PER_CHUNK,
  CYCLES_UNTIL_TIMEOUT,
  CtrlValues,              \* the commands the host gives
  MemStatuses,             \* the status words of the DataMover, as sets of flags
  Garbage,                 \* what a status word holds that was never read
  Memories,                \* the memories, sound and faulty (see Load)
  MaxDelay,                \* the status comes after at most MaxDelay invocations
  cDepth_Mem               \* depth of the streams to and from the DataMover

CHECK_CHUNK_SIZE == TRANSFERS_PER_CHUNK
MEM_START_ADDR == 0
MEM_END_ADDR == (NumChunks - 1) * CHECK_CHUNK_SIZE    \* the address of the last chunk
AddrMod == NumChunks * CHECK_CHUNK_SIZE  \* ap_uint<33>: 8 GB, the size of the memory
Addrs == 0..(AddrMod - 1)

ASSUME MemSizeAssumption == NumChunks \in Nat \ {0} /\ TRANSFERS_PER_CHUNK \in Nat \ {0, 1}
ASSUME MemTimeAssumption == {CYCLES_UNTIL_TIMEOUT, MaxDelay, cDepth_Mem} \subseteq Nat \ {0}
ASSUME MemCtrlAssumption == CtrlValues \subseteq 0..3

VARIABLES
  DIAG_CTRL_IN, DIAG_STAT_OUT,                          \* MMIO
  fsmState, testPhase, runContiniously, wasError, timeoutCnt,
  lastCheckedAddress, currentPatternAdderss, currentMemPattern, patternWriteNum,
  debugVec,
  soMemWrCmdP0, soMemWriteP0, siMemWrStsP0,             \* write path
  soMemRdCmdP0, siMemReadP0, siMemRdStsP0,              \* read path
  memory, mem,                                          \* the memory
  dmWr, dmWrSts, dmRd, dmRdSts                          \* the DataMover

ctrlVars == << runContiniously, lastCheckedAddress, currentPatternAdderss, testPhase >>
wrVars == << soMemWrCmdP0, soMemWriteP0, siMemWrStsP0 >>
rdVars == << soMemRdCmdP0, siMemReadP0, siMemRdStsP0 >>
dmVars == << mem, dmWr, dmWrSts, dmRd, dmRdSts >>
testVars == << DIAG_STAT_OUT, fsmState, ctrlVars, wasError, timeoutCnt, currentMemPattern,
               patternWriteNum, debugVec >>
vars == << DIAG_CTRL_IN, testVars, wrVars, rdVars, memory, dmVars >>

-----------------------------------------------------------------------------
\* A state FSM_WR_PAT_CMD of the code is << "WR", "PAT", "CMD" >>.
FSM_IDLE == << "IDLE" >>
FsmState == {FSM_IDLE} \cup ({"WR", "RD"} \X {"PAT", "ANTI"} \X {"CMD", "DATA", "STS"})

\* The word made of a counter, or of its complement.
Word(n, pat) == [n |-> n, anti |-> pat = "ANTI"]
NoWord == Word(0, "PAT")                 \* what the memory holds at power-up

Words == [n : Nat, anti : BOOLEAN]

\* The fault model: words that keep one value, and addresses on one cell.
ASSUME MemoriesAssumption ==
  \A m \in Memories :
    /\ m.cellOf \in [Addrs -> Addrs] /\ DOMAIN m.stuck \subseteq Addrs
    /\ \A a \in DOMAIN m.stuck : m.stuck[a] \in Words

\* A fault-free memory has no stuck words and a cell for every address.
Load(a) == IF a \in DOMAIN memory.stuck THEN memory.stuck[a] ELSE mem[memory.cellOf[a]]
Faulty ==
  \/ DOMAIN memory.stuck # {}
  \/ \E a, b \in Addrs : a # b /\ memory.cellOf[a] = memory.cellOf[b]

\* The registers hold the values of "sys_reset": the test is over.
Init ==
  /\ DIAG_CTRL_IN \in CtrlValues /\ DIAG_STAT_OUT = [run |-> 0, err |-> 0]
  /\ fsmState = FSM_IDLE /\ runContiniously = FALSE /\ wasError = 0
  /\ lastCheckedAddress = MEM_END_ADDR + 1            \* "to stop the test"
  /\ currentPatternAdderss = 0 /\ currentMemPattern = 0 /\ patternWriteNum = 0
  /\ debugVec = [wr |-> {}, rd |-> {}]
  /\ testPhase = "PHASE_IDLE" /\ timeoutCnt = 0
  /\ soMemWrCmdP0 = << >> /\ soMemWriteP0 = << >> /\ siMemWrStsP0 = << >>
  /\ soMemRdCmdP0 = << >> /\ siMemReadP0 = << >> /\ siMemRdStsP0 = << >>
  /\ dmWr = 0 /\ dmWrSts = FALSE /\ dmRd = 0 /\ dmRdSts = FALSE
  /\ memory \in Memories /\ mem = [a \in Addrs |-> NoWord]

-----------------------------------------------------------------------------
(* The environment.                                                         *)

\* The host writes its command into the MMIO register.
MmioCtrl(c) == DIAG_CTRL_IN' = c /\ UNCHANGED << testVars, wrVars, rdVars, memory, dmVars >>

\* The reset of the SHELL resets the test and its paths to the memory.
Reset ==
  /\ fsmState' = FSM_IDLE /\ runContiniously' = FALSE /\ wasError' = 0
  /\ lastCheckedAddress' = MEM_END_ADDR + 1
  /\ currentPatternAdderss' = 0 /\ currentMemPattern' = 0 /\ patternWriteNum' = 0
  /\ debugVec' = [wr |-> {}, rd |-> {}]
  /\ testPhase' = "PHASE_IDLE" /\ timeoutCnt' = 0
  /\ soMemWrCmdP0' = << >> /\ soMemWriteP0' = << >> /\ siMemWrStsP0' = << >>
  /\ soMemRdCmdP0' = << >> /\ siMemReadP0' = << >> /\ siMemRdStsP0' = << >>
  /\ dmWr' = 0 /\ dmWrSts' = FALSE /\ dmRd' = 0 /\ dmRdSts' = FALSE
  /\ UNCHANGED << DIAG_CTRL_IN, DIAG_STAT_OUT, memory, mem >>

\* The DataMover stores the words of a command up to TLAST, loads those of a
\* command, and each time sends its status afterwards.
DmWrite ==
  /\ soMemWrCmdP0 # << >> /\ soMemWriteP0 # << >> /\ ~dmWrSts
  /\ LET addr == Head(soMemWrCmdP0) + dmWr
         chunk == Head(soMemWriteP0)
     IN /\ mem' = [mem EXCEPT ![memory.cellOf[addr]] = chunk.tdata]
        /\ dmWr' = IF chunk.tlast THEN 0 ELSE dmWr + 1
        /\ dmWrSts' = chunk.tlast
        /\ soMemWrCmdP0' = IF chunk.tlast THEN Dequeue(soMemWrCmdP0) ELSE soMemWrCmdP0
  /\ soMemWriteP0' = Dequeue(soMemWriteP0)
  /\ UNCHANGED << DIAG_CTRL_IN, testVars, siMemWrStsP0, rdVars, memory, dmRd, dmRdSts >>

DmWrStatus(sts) ==
  /\ dmWrSts /\ dmWrSts' = FALSE
  /\ HasRoom(siMemWrStsP0, cDepth_Mem)
  /\ siMemWrStsP0' = Append(siMemWrStsP0, sts)
  /\ UNCHANGED << DIAG_CTRL_IN, testVars, soMemWrCmdP0, soMemWriteP0, rdVars, memory, mem,
                  dmWr, dmRd, dmRdSts >>

DmRead ==
  /\ soMemRdCmdP0 # << >> /\ HasRoom(siMemReadP0, cDepth_Mem) /\ ~dmRdSts
  /\ LET last == dmRd = TRANSFERS_PER_CHUNK - 1
     IN /\ siMemReadP0' = Append(siMemReadP0, [tdata |-> Load(Head(soMemRdCmdP0) + dmRd),
                                               tlast |-> last])
        /\ dmRd' = IF last THEN 0 ELSE dmRd + 1
        /\ dmRdSts' = last
        /\ soMemRdCmdP0' = IF last THEN Dequeue(soMemRdCmdP0) ELSE soMemRdCmdP0
  /\ UNCHANGED << DIAG_CTRL_IN, testVars, wrVars, siMemRdStsP0, memory, mem, dmWr, dmWrSts >>

DmRdStatus(sts) ==
  /\ dmRdSts /\ dmRdSts' = FALSE
  /\ HasRoom(siMemRdStsP0, cDepth_Mem)
  /\ siMemRdStsP0' = Append(siMemRdStsP0, sts)
  /\ UNCHANGED << DIAG_CTRL_IN, testVars, wrVars, soMemRdCmdP0, siMemReadP0, memory, mem,
                  dmWr, dmWrSts, dmRd >>

DataMover ==
  \/ DmWrite \/ DmRead
  \/ \E sts \in MemStatuses : DmWrStatus(sts) \/ DmRdStatus(sts)

-----------------------------------------------------------------------------
(* FSM_IDLE: the command of the host and the progress of the test decide.   *)

Status(run) == [run |-> run, err |-> wasError']

\* What ends every invocation in FSM_IDLE: "stop on error", then "set current
\* address".
IdleEnds(next, stat) ==
  /\ fsmState' = IF wasError' = 1 THEN FSM_IDLE ELSE next
  /\ DIAG_STAT_OUT' = IF wasError' = 1 THEN Status(0) ELSE stat
  /\ currentPatternAdderss' = IF lastCheckedAddress' = MEM_START_ADDR THEN MEM_START_ADDR
                              ELSE (lastCheckedAddress' + 1) % AddrMod
  /\ UNCHANGED << DIAG_CTRL_IN, timeoutCnt, patternWriteNum, wrVars, rdVars, memory, dmVars >>

IdleStop ==
  /\ fsmState = FSM_IDLE /\ DIAG_CTRL_IN \in {0, 3}
  /\ runContiniously' = FALSE
  /\ lastCheckedAddress' = MEM_START_ADDR
  /\ UNCHANGED << wasError, testPhase, currentMemPattern, debugVec >>
  /\ IdleEnds(FSM_IDLE, Status(0))

\* Command 2 runs continuously, command 1 "once"; 1 does not clear the flag.
IdleRuns ==
  /\ fsmState = FSM_IDLE /\ DIAG_CTRL_IN \in {1, 2}
  /\ runContiniously' = (runContiniously \/ DIAG_CTRL_IN = 2)

IdleNewTest ==
  /\ IdleRuns
  /\ lastCheckedAddress = MEM_START_ADDR
  /\ wasError' = 0
  /\ testPhase' = "PHASE_RAMP_WRITE" /\ currentMemPattern' = 0
  /\ debugVec' = [wr |-> {}, rd |-> {}]
  /\ UNCHANGED lastCheckedAddress
  /\ IdleEnds(<< "WR", "PAT", "CMD" >>, [run |-> 1, err |-> 0])

\* Seeded fault: the end of the memory is taken for one chunk further.
Complete_Late == lastCheckedAddress > MEM_END_ADDR + CHECK_CHUNK_SIZE

\* "checked space completely once"
Complete == lastCheckedAddress # MEM_START_ADDR /\ lastCheckedAddress >= MEM_END_ADDR

IdleNextPhase ==
  /\ IdleRuns
  /\ Complete
  /\ lastCheckedAddress' = MEM_START_ADDR
  /\ currentMemPattern' = 0
  /\ UNCHANGED << wasError, debugVec >>
  /\ \/ /\ testPhase = "PHASE_RAMP_WRITE" /\ testPhase' = "PHASE_RAMP_READ"
        /\ IdleEnds(<< "RD", "PAT", "CMD" >>, DIAG_STAT_OUT)
     \/ /\ testPhase = "PHASE_RAMP_READ" /\ testPhase' = "PHASE_STRESS"
        /\ IdleEnds(<< "WR", "PAT", "CMD" >>, DIAG_STAT_OUT)
     \/ /\ testPhase \in {"PHASE_IDLE", "PHASE_STRESS"} /\ testPhase' = "PHASE_RAMP_WRITE"
        /\ runContiniously'
        /\ IdleEnds(<< "WR", "PAT", "CMD" >>, Status(1))

IdleDone ==
  /\ IdleRuns
  /\ Complete
  /\ testPhase \in {"PHASE_IDLE", "PHASE_STRESS"} /\ ~runContiniously'
  /\ UNCHANGED << wasError, testPhase, lastCheckedAddress, currentMemPattern, debugVec >>
  /\ IdleEnds(FSM_IDLE, Status(0))

\* Seeded fault: every chunk starts the pattern anew, in the ramp too.
PatternOfNextChunk_Anew == 0

\* The ramp goes on from chunk to chunk, the stress test starts it anew.
PatternOfNextChunk == IF testPhase = "PHASE_STRESS" THEN 0 ELSE currentMemPattern

IdleContinue ==
  /\ IdleRuns
  /\ lastCheckedAddress # MEM_START_ADDR /\ ~Complete
  /\ currentMemPattern' = PatternOfNextChunk
  /\ UNCHANGED << wasError, testPhase, lastCheckedAddress, debugVec >>
  /\ IdleEnds(IF testPhase = "PHASE_RAMP_READ" THEN << "RD", "PAT", "CMD" >>
              ELSE << "WR", "PAT", "CMD" >>, Status(1))

Idle == IdleStop \/ IdleNewTest \/ IdleNextPhase \/ IdleDone \/ IdleContinue

-----------------------------------------------------------------------------
(* The other states; pat is "PAT" or "ANTI".                                *)

BusyUnchanged == UNCHANGED << DIAG_CTRL_IN, DIAG_STAT_OUT, runContiniously,
                              currentPatternAdderss, testPhase, memory, dmVars >>

\* Seeded fault: the count of transfers goes on from the last chunk.
TransfersAtCmd_Kept == patternWriteNum

TransfersAtCmd == 0

WrCmd(pat) ==
  /\ fsmState = << "WR", pat, "CMD" >>
  /\ HasRoom(soMemWrCmdP0, cDepth_Mem)
  /\ soMemWrCmdP0' = Append(soMemWrCmdP0, currentPatternAdderss)
  /\ patternWriteNum' = TransfersAtCmd
  /\ currentMemPattern' = IF pat = "ANTI" THEN 0 ELSE currentMemPattern
  /\ fsmState' = << "WR", pat, "DATA" >>
  /\ UNCHANGED << wasError, timeoutCnt, lastCheckedAddress, debugVec, soMemWriteP0,
                  siMemWrStsP0, rdVars >>
  /\ BusyUnchanged

WrData(pat) ==
  /\ fsmState = << "WR", pat, "DATA" >>
  /\ HasRoom(soMemWriteP0, cDepth_Mem)
  /\ currentMemPattern' = currentMemPattern + 1
  /\ LET last == patternWriteNum = TRANSFERS_PER_CHUNK - 1
     IN /\ soMemWriteP0' = Append(soMemWriteP0, [tdata |-> Word(currentMemPattern', pat),
                                                 tlast |-> last])
        /\ fsmState' = IF last THEN << "WR", pat, "STS" >> ELSE fsmState
        /\ timeoutCnt' = IF last THEN 0 ELSE timeoutCnt
  /\ patternWriteNum' = patternWriteNum + 1
  /\ UNCHANGED << wasError, lastCheckedAddress, debugVec, soMemWrCmdP0, siMemWrStsP0, rdVars >>
  /\ BusyUnchanged

\* Seeded fault: the next chunk is taken to start a word further.
ChunkEnd_Late == (currentPatternAdderss + CHECK_CHUNK_SIZE) % AddrMod

\* The last address of the chunk under test.
ChunkEnd == currentPatternAdderss + CHECK_CHUNK_SIZE - 1

\* Seeded fault: the words read are compared with the rest of the ramp.
PatternAfterWrite_Kept == currentMemPattern

\* The pattern a written chunk is compared with starts anew.
PatternAfterWrite == 0

\* In PHASE_RAMP_WRITE the upper byte of debugVec gets a memRdStsP0 that this
\* invocation has not read: garbage.
WrPatSts ==
  /\ fsmState = << "WR", "PAT", "STS" >>
  /\ siMemWrStsP0 # << >>
  /\ \/ /\ testPhase = "PHASE_RAMP_WRITE"
        /\ \E junk \in Garbage : debugVec' = [wr |-> debugVec.wr \cup Head(siMemWrStsP0),
                                              rd |-> debugVec.rd \cup junk]
        /\ lastCheckedAddress' = ChunkEnd
        /\ fsmState' = FSM_IDLE
        /\ UNCHANGED currentMemPattern
     \/ /\ testPhase # "PHASE_RAMP_WRITE"
        /\ debugVec' = [debugVec EXCEPT !.wr = @ \cup Head(siMemWrStsP0)]
        /\ currentMemPattern' = PatternAfterWrite
        /\ fsmState' = << "RD", "PAT", "CMD" >>
        /\ UNCHANGED lastCheckedAddress
  /\ siMemWrStsP0' = Dequeue(siMemWrStsP0)
  /\ UNCHANGED << wasError, timeoutCnt, patternWriteNum, soMemWrCmdP0, soMemWriteP0, rdVars >>
  /\ BusyUnchanged

WrAntiSts ==
  /\ fsmState = << "WR", "ANTI", "STS" >>
  /\ siMemWrStsP0 # << >>
  /\ debugVec' = [debugVec EXCEPT !.wr = @ \cup Head(siMemWrStsP0)]
  /\ fsmState' = << "RD", "ANTI", "CMD" >>
  /\ siMemWrStsP0' = Dequeue(siMemWrStsP0)
  /\ UNCHANGED << wasError, timeoutCnt, lastCheckedAddress, currentMemPattern, patternWriteNum,
                  soMemWrCmdP0, soMemWriteP0, rdVars >>
  /\ BusyUnchanged

RdCmd(pat) ==
  /\ fsmState = << "RD", pat, "CMD" >>
  /\ HasRoom(soMemRdCmdP0, cDepth_Mem)
  /\ soMemRdCmdP0' = Append(soMemRdCmdP0, currentPatternAdderss)
  /\ currentMemPattern' = IF pat = "ANTI" THEN 0 ELSE currentMemPattern
  /\ fsmState' = << "RD", pat, "DATA" >>
  /\ UNCHANGED << wasError, timeoutCnt, lastCheckedAddress, patternWriteNum, debugVec, wrVars,
                  siMemReadP0, siMemRdStsP0 >>
  /\ BusyUnchanged

RdData(pat) ==
  /\ fsmState = << "RD", pat, "DATA" >>
  /\ siMemReadP0 # << >>
  /\ currentMemPattern' = currentMemPattern + 1
  /\ LET memP0 == Head(siMemReadP0)
     IN /\ wasError' = IF memP0.tdata # Word(currentMemPattern', pat) THEN 1 ELSE wasError
        /\ fsmState' = IF memP0.tlast THEN << "RD", pat, "STS" >> ELSE fsmState
        /\ timeoutCnt' = IF memP0.tlast THEN 0 ELSE timeoutCnt
  /\ siMemReadP0' = Dequeue(siMemReadP0)
  /\ UNCHANGED << lastCheckedAddress, patternWriteNum, debugVec, wrVars, soMemRdCmdP0,
                  siMemRdStsP0 >>
  /\ BusyUnchanged

\* Seeded fault: the complement of the pattern is never tried.
ChunkDone_NoAnti(pat) == TRUE

\* Whether the chunk is done with: in PHASE_RAMP_READ its pattern ends it.
ChunkDone(pat) == pat = "ANTI" \/ testPhase = "PHASE_RAMP_READ"

RdSts(pat) ==
  /\ fsmState = << "RD", pat, "STS" >>
  /\ siMemRdStsP0 # << >>
  /\ debugVec' = [debugVec EXCEPT !.rd = @ \cup Head(siMemRdStsP0)]
  /\ \/ /\ ChunkDone(pat)
        /\ fsmState' = FSM_IDLE
        /\ lastCheckedAddress' = ChunkEnd
        /\ UNCHANGED currentMemPattern
     \/ /\ ~ChunkDone(pat)
        /\ fsmState' = << "WR", "ANTI", "CMD" >>
        /\ currentMemPattern' = 0
        /\ UNCHANGED lastCheckedAddress
  /\ siMemRdStsP0' = Dequeue(siMemRdStsP0)
  /\ UNCHANGED << wasError, timeoutCnt, patternWriteNum, wrVars, soMemRdCmdP0, siMemReadP0 >>
  /\ BusyUnchanged

\* Seeded fault: the timeout comes a cycle early.
TimedOut_Early == timeoutCnt' + 1 >= CYCLES_UNTIL_TIMEOUT

TimedOut == timeoutCnt' >= CYCLES_UNTIL_TIMEOUT

\* An invocation that waits for a status in vain; the timeout is an error.
WaitSts(dir, pat, sts) ==
  /\ fsmState = << dir, pat, "STS" >>
  /\ sts = << >>
  /\ timeoutCnt < MaxDelay
  /\ timeoutCnt' = timeoutCnt + 1
  /\ IF TimedOut
     THEN wasError' = 1 /\ fsmState' = FSM_IDLE
     ELSE UNCHANGED << wasError, fsmState >>
  /\ UNCHANGED << lastCheckedAddress, currentMemPattern, patternWriteNum, debugVec, wrVars,
                  rdVars >>
  /\ BusyUnchanged

Test ==
  \/ Idle \/ WrPatSts \/ WrAntiSts
  \/ \E pat \in {"PAT", "ANTI"} :
       \/ WrCmd(pat) \/ WrData(pat) \/ RdCmd(pat) \/ RdData(pat) \/ RdSts(pat)
       \/ WaitSts("WR", pat, siMemWrStsP0) \/ WaitSts("RD", pat, siMemRdStsP0)

Next == (\E c \in CtrlValues : MmioCtrl(c)) \/ Reset \/ DataMover \/ Test

Spec == Init /\ [][Next]_vars

\* The test is invoked at every cycle of its clock, and the DataMover serves
\* the commands it gets.
FairSpec == Spec /\ WF_vars(Test) /\ WF_vars(DataMover)

-----------------------------------------------------------------------------
(* Properties.                                                              *)

\* Every variable keeps its type; the addresses fit their register of 33 bits
\* at the top of the memory, and no chunk has a word too many.
TypeOK ==
  /\ DIAG_CTRL_IN \in 0..3 /\ DIAG_STAT_OUT \in [run : {0, 1}, err : {0, 1}]
  /\ fsmState \in FsmState
  /\ testPhase \in {"PHASE_IDLE", "PHASE_RAMP_WRITE", "PHASE_RAMP_READ", "PHASE_STRESS"}
  /\ runContiniously \in BOOLEAN /\ wasError \in {0, 1}
  /\ timeoutCnt \in 0..CYCLES_UNTIL_TIMEOUT
  /\ lastCheckedAddress \in Addrs /\ currentPatternAdderss \in Addrs
  /\ currentMemPattern \in 0..AddrMod /\ patternWriteNum \in 0..TRANSFERS_PER_CHUNK

\* The test has gone over the memory and reports no error.
TestPassed ==
  fsmState = FSM_IDLE /\ testPhase = "PHASE_STRESS" /\ Complete /\ wasError = 0

\* A test that passes has tried enough to find every word that keeps its value
\* and every two addresses that share a cell.
PassMeansGood == TestPassed => ~Faulty

\* With a memory that answers in time an error is an error of the memory: what
\* is written and what is expected are counted the same way in every phase.
NoFalseAlarm == wasError = 1 => Faulty

\* In the stress test a chunk is read back only once its words are stored: the
\* status that was read was that of its own write, not of one that timed out.
WrittenBeforeRead ==
  testPhase = "PHASE_STRESS" /\ fsmState[1] = "RD"
    => soMemWrCmdP0 = << >> /\ soMemWriteP0 = << >>

\* A command names the start of a chunk of the memory.
CommandsInBounds ==
  \A i \in DOMAIN (soMemWrCmdP0 \o soMemRdCmdP0) :
    LET addr == (soMemWrCmdP0 \o soMemRdCmdP0)[i]
    IN addr % CHECK_CHUNK_SIZE = 0 /\ addr <= MEM_END_ADDR

\* mem_test_flash.cpp:205, "stop on error": from an error on the test stays in
\* FSM_IDLE until the host stops it (or resets the role).
StopsOnError ==
  [][wasError = 1 /\ fsmState = FSM_IDLE /\ DIAG_CTRL_IN \in {1, 2}
       => fsmState' = FSM_IDLE]_vars

\* While the host leaves a command to run in the register, the machine comes
\* to a verdict again and again, on any memory: an error, or an invocation that
\* finds the whole memory gone over in the last phase.
VerdictReached ==
  <>[](DIAG_CTRL_IN \in {1, 2}) =>
    []<>(fsmState = FSM_IDLE
           /\ (wasError = 1 \/ (testPhase \in {"PHASE_IDLE", "PHASE_STRESS"} /\ Complete)))
=============================================================================
