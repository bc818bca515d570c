---------------------------- MODULE MemTest_proofs ----------------------------
(***************************************************************************)
(* Proofs about the memory test, for every size of memory and chunk, every *)
(* command of the host and every memory: every command names the start of  *)
(* a chunk, the registers keep their widths, a chunk is read after it is   *)
(* written, a sound memory raises no alarm and one that passes is sound.   *)
(* The last three are about statuses that come before the timeout, the     *)
(* others also about those that come late.                                 *)
(***************************************************************************)
EXTENDS MemTest, TLAPS

ChunkStarts == {k * CHECK_CHUNK_SIZE : k \in 0..(NumChunks - 1)}

\* What lastCheckedAddress can be: the start, the value that stops the test,
\* and the last address of a chunk.
LastAddrs ==
  {MEM_START_ADDR, MEM_END_ADDR + 1} \cup {s + CHECK_CHUNK_SIZE - 1 : s \in ChunkStarts}

\* The inductive invariant: a state that is not idle has a chunk under test.
InvLast == lastCheckedAddress \in LastAddrs
InvCurrent == fsmState # FSM_IDLE => currentPatternAdderss \in ChunkStarts
InvCmds == soMemWrCmdP0 \in Seq(ChunkStarts) /\ soMemRdCmdP0 \in Seq(ChunkStarts)
AddrInv == InvLast /\ InvCurrent /\ InvCmds

-----------------------------------------------------------------------------
LEMMA Sizes ==
  /\ NumChunks \in Nat /\ NumChunks > 0
  /\ CHECK_CHUNK_SIZE \in Nat /\ CHECK_CHUNK_SIZE > 1
  BY MemSizeAssumption DEF CHECK_CHUNK_SIZE

LEMMA TimesMonotone ==
  ASSUME NEW a \in Nat, NEW b \in Nat, NEW c \in Nat, a <= b
  PROVE  a * c <= b * c
  BY SMT

LEMMA TimesNext ==
  ASSUME NEW k \in Nat, NEW c \in Nat
  PROVE  k * c \in Nat /\ (k + 1) * c = k * c + c
  BY SMT

LEMMA SmallMod ==
  ASSUME NEW a \in Nat, NEW m \in Nat, a < m
  PROVE  a % m = a
  BY SMT

LEMMA ModRange ==
  ASSUME NEW a \in Nat, NEW m \in Nat \ {0}
  PROVE  a % m \in 0..(m - 1)
  BY SMT

\* A chunk starts in the memory, at a multiple of its size.
LEMMA StartInBounds ==
  ASSUME NEW s \in ChunkStarts
  PROVE  s \in Nat /\ s % CHECK_CHUNK_SIZE = 0 /\ s <= MEM_END_ADDR
<1>1. PICK k \in 0..(NumChunks - 1) : s = k * CHECK_CHUNK_SIZE
  BY DEF ChunkStarts
<1>2. s \in Nat /\ s <= MEM_END_ADDR
  BY <1>1, Sizes, TimesNext, TimesMonotone DEF MEM_END_ADDR
<1>3. s % CHECK_CHUNK_SIZE = 0
  BY <1>1, Sizes
<1> QED BY <1>2, <1>3

LEMMA FirstIsStart == MEM_START_ADDR \in ChunkStarts
  BY Sizes DEF MEM_START_ADDR, ChunkStarts

\* After the last address of a chunk that is not the last comes a chunk.
LEMMA NextIsStart ==
  ASSUME NEW a \in LastAddrs, a # MEM_START_ADDR, a < MEM_END_ADDR
  PROVE  (a + 1) % AddrMod \in ChunkStarts /\ (a + 1) % AddrMod = a + 1
<1>1. a # MEM_END_ADDR + 1 /\ MEM_END_ADDR \in Nat
  BY Sizes, TimesNext DEF MEM_END_ADDR
<1>2. PICK k \in 0..(NumChunks - 1) : a = k * CHECK_CHUNK_SIZE + CHECK_CHUNK_SIZE - 1
  BY <1>1 DEF LastAddrs, ChunkStarts
<1>3. a + 1 = (k + 1) * CHECK_CHUNK_SIZE
  BY <1>2, Sizes, TimesNext
<1>4. k + 1 \in 0..(NumChunks - 1)
  <2>1. ~(NumChunks - 1 <= k)
    <3> SUFFICES ASSUME NumChunks - 1 <= k PROVE FALSE OBVIOUS
    <3>1. MEM_END_ADDR <= k * CHECK_CHUNK_SIZE
      BY Sizes, TimesMonotone DEF MEM_END_ADDR
    <3> QED BY <3>1, <1>1, <1>2, Sizes, TimesNext
  <2> QED BY <2>1, Sizes
<1>5. a + 1 \in Nat /\ a + 1 < AddrMod
  <2>1. AddrMod = MEM_END_ADDR + CHECK_CHUNK_SIZE
    BY Sizes, TimesNext DEF AddrMod, MEM_END_ADDR
  <2>2. a + 1 \in Nat
    <3>1. k + 1 \in Nat OBVIOUS
    <3> QED BY <3>1, <1>3, Sizes, TimesNext
  <2>3. a \in Int
    BY <1>2, Sizes, TimesNext
  <2> QED BY <2>1, <2>2, <2>3, <1>1, Sizes
<1>6. (a + 1) % AddrMod = a + 1
  <2> DEFINE b == a + 1
  <2>1. b \in Nat /\ AddrMod \in Nat /\ b < AddrMod
    BY <1>5, Sizes, TimesNext DEF AddrMod
  <2> HIDE DEF b
  <2>2. b % AddrMod = b
    BY <2>1, SmallMod
  <2> QED BY <2>2 DEF b
<1> QED BY <1>3, <1>4, <1>6 DEF ChunkStarts

\* What writes and reads do to the type of a stream of commands.
LEMMA CmdQueues ==
  ASSUME NEW q \in Seq(ChunkStarts)
  PROVE  /\ \A s \in ChunkStarts : Append(q, s) \in Seq(ChunkStarts)
         /\ q # << >> => Tail(q) \in Seq(ChunkStarts)
  OBVIOUS

\* The value that stops the test is one of LastAddrs, the last address of the
\* chunk under test another one.
LEMMA ChunkEndIsLast ==
  ASSUME currentPatternAdderss \in ChunkStarts
  PROVE  ChunkEnd \in LastAddrs
  BY DEF ChunkEnd, LastAddrs

-----------------------------------------------------------------------------
LEMMA AddrInit == ASSUME Init PROVE AddrInv
  BY DEF Init, AddrInv, InvLast, InvCurrent, InvCmds, LastAddrs

\* A step that leaves the registers of the addresses and the two streams of
\* commands alone, and starts no chunk.
LEMMA AddrKept ==
  ASSUME AddrInv, fsmState' = FSM_IDLE \/ fsmState # FSM_IDLE \/ fsmState' = fsmState,
         UNCHANGED << lastCheckedAddress, currentPatternAdderss, soMemWrCmdP0, soMemRdCmdP0 >>
  PROVE  AddrInv'
  BY DEF AddrInv, InvLast, InvCurrent, InvCmds

\* What ends an invocation in FSM_IDLE starts a chunk only where there is one.
LEMMA IdleEndsInv ==
  ASSUME AddrInv, NEW next, NEW stat, IdleEnds(next, stat), InvLast',
         next = FSM_IDLE \/ lastCheckedAddress' = MEM_START_ADDR
           \/ lastCheckedAddress' < MEM_END_ADDR
  PROVE  AddrInv'
<1>1. InvCmds'
  BY DEF AddrInv, InvCmds, IdleEnds, wrVars, rdVars
<1>2. fsmState' \in {FSM_IDLE, next}
  BY DEF IdleEnds
<1>3. CASE fsmState' = FSM_IDLE
  BY <1>1, <1>3 DEF AddrInv, InvCurrent
<1>4. CASE fsmState' # FSM_IDLE
  <2>1. CASE lastCheckedAddress' = MEM_START_ADDR
    <3>1. currentPatternAdderss' = MEM_START_ADDR
      BY <2>1 DEF IdleEnds
    <3> QED BY <3>1, <1>1, FirstIsStart DEF AddrInv, InvCurrent
  <2>2. CASE lastCheckedAddress' # MEM_START_ADDR
    <3>1. currentPatternAdderss' = (lastCheckedAddress' + 1) % AddrMod
      BY <2>2 DEF IdleEnds
    <3>2. lastCheckedAddress' < MEM_END_ADDR
      BY <1>2, <1>4, <2>2
    <3>3. lastCheckedAddress' \in LastAddrs
      BY DEF InvLast
    <3>4. currentPatternAdderss' \in ChunkStarts
      BY <3>1, <3>2, <3>3, <2>2, NextIsStart
    <3> QED BY <3>4, <1>1 DEF AddrInv, InvCurrent
  <2> QED BY <2>1, <2>2
<1> QED BY <1>3, <1>4

LEMMA IdleInv == ASSUME AddrInv, Idle PROVE AddrInv'
<1>0. InvLast /\ LastAddrs \subseteq Int /\ MEM_END_ADDR \in Nat
  <2>1. LastAddrs \subseteq Int /\ MEM_END_ADDR \in Nat
    BY Sizes, TimesNext, StartInBounds DEF LastAddrs, MEM_START_ADDR, MEM_END_ADDR
  <2> QED BY <2>1 DEF AddrInv
<1>a. ASSUME lastCheckedAddress' = MEM_START_ADDR \/ UNCHANGED lastCheckedAddress
      PROVE  InvLast'
  BY <1>0, <1>a DEF InvLast, LastAddrs
<1>1. CASE IdleStop
  <2>1. InvLast' /\ IdleEnds(FSM_IDLE, Status(0))
    BY <1>1, <1>a DEF IdleStop
  <2> QED BY <2>1, IdleEndsInv
<1>2. CASE IdleNewTest
  <2>1. /\ InvLast' /\ lastCheckedAddress' = MEM_START_ADDR
        /\ IdleEnds(<< "WR", "PAT", "CMD" >>, [run |-> 1, err |-> 0])
    BY <1>2, <1>a DEF IdleNewTest
  <2> QED BY <2>1, IdleEndsInv
<1>3. CASE IdleNextPhase
  <2>1. /\ InvLast' /\ lastCheckedAddress' = MEM_START_ADDR
        /\ \E next, stat : IdleEnds(next, stat)
    <3>1. InvLast' /\ lastCheckedAddress' = MEM_START_ADDR
      BY <1>3, <1>a DEF IdleNextPhase
    <3>2. \/ IdleEnds(<< "RD", "PAT", "CMD" >>, DIAG_STAT_OUT)
          \/ IdleEnds(<< "WR", "PAT", "CMD" >>, DIAG_STAT_OUT)
          \/ IdleEnds(<< "WR", "PAT", "CMD" >>, Status(1))
      BY <1>3 DEF IdleNextPhase
    <3> QED BY <3>1, <3>2
  <2>2. PICK next, stat : IdleEnds(next, stat)
    BY <2>1
  <2> QED BY <2>1, <2>2, IdleEndsInv
<1>4. CASE IdleDone
  <2>1. InvLast' /\ IdleEnds(FSM_IDLE, Status(0))
    BY <1>4, <1>a DEF IdleDone
  <2> QED BY <2>1, IdleEndsInv
<1>5. CASE IdleContinue
  <2>1. /\ InvLast' /\ lastCheckedAddress' = lastCheckedAddress
        /\ \E next, stat : IdleEnds(next, stat)
    BY <1>5, <1>a DEF IdleContinue
  <2>2. lastCheckedAddress < MEM_END_ADDR
    BY <1>0, <1>5 DEF IdleContinue, Complete, InvLast
  <2>3. PICK next, stat : IdleEnds(next, stat)
    BY <2>1
  <2> QED BY <2>1, <2>2, <2>3, IdleEndsInv
<1> QED BY <1>1, <1>2, <1>3, <1>4, <1>5 DEF Idle

\* A state of the machine that has three parts is not FSM_IDLE.
LEMMA NotIdle ==
  ASSUME NEW dir, NEW pat, NEW part
  PROVE  << dir, pat, part >> # FSM_IDLE
  BY DEF FSM_IDLE

\* A status that is read ends a chunk, or goes on with it.
LEMMA StatusInv == ASSUME AddrInv, WrPatSts \/ WrAntiSts \/ RdSts("PAT") \/ RdSts("ANTI")
                   PROVE  AddrInv'
<1>1. fsmState # FSM_IDLE
  BY NotIdle DEF WrPatSts, WrAntiSts, RdSts
<1>2. UNCHANGED << currentPatternAdderss, soMemWrCmdP0, soMemRdCmdP0 >>
  BY DEF WrPatSts, WrAntiSts, RdSts, BusyUnchanged, rdVars, wrVars
<1>3. lastCheckedAddress' \in {lastCheckedAddress, ChunkEnd}
  BY DEF WrPatSts, WrAntiSts, RdSts
<1> QED BY <1>1, <1>2, <1>3, ChunkEndIsLast DEF AddrInv, InvLast, InvCurrent, InvCmds

\* A command names the chunk under test.
LEMMA CommandInv ==
  ASSUME AddrInv, NEW pat, WrCmd(pat) \/ RdCmd(pat)
  PROVE  AddrInv'
<1>1. fsmState # FSM_IDLE /\ currentPatternAdderss \in ChunkStarts
  BY NotIdle DEF WrCmd, RdCmd, AddrInv, InvCurrent
<1>2. UNCHANGED << currentPatternAdderss, lastCheckedAddress >>
  BY DEF WrCmd, RdCmd, BusyUnchanged
<1>3. /\ soMemWrCmdP0' \in {soMemWrCmdP0, Append(soMemWrCmdP0, currentPatternAdderss)}
      /\ soMemRdCmdP0' \in {soMemRdCmdP0, Append(soMemRdCmdP0, currentPatternAdderss)}
  BY DEF WrCmd, RdCmd, wrVars, rdVars
<1>4. InvCmds'
  BY <1>1, <1>3, CmdQueues DEF AddrInv, InvCmds
<1> QED BY <1>1, <1>2, <1>4 DEF AddrInv, InvLast, InvCurrent

\* The data of a chunk, and the wait for its status, touch no address.
LEMMA DataInv ==
  ASSUME AddrInv, NEW pat, WrData(pat) \/ RdData(pat) \/ WaitSts("WR", pat, siMemWrStsP0)
                             \/ WaitSts("RD", pat, siMemRdStsP0)
  PROVE  AddrInv'
<1>1. fsmState # FSM_IDLE
  BY NotIdle DEF WrData, RdData, WaitSts
<1>2. UNCHANGED << lastCheckedAddress, currentPatternAdderss, soMemWrCmdP0, soMemRdCmdP0 >>
  BY DEF WrData, RdData, WaitSts, BusyUnchanged, wrVars, rdVars
<1> QED BY <1>1, <1>2, AddrKept

\* The DataMover takes commands and adds none.
LEMMA MoverInv == ASSUME AddrInv, DataMover PROVE AddrInv'
<1>1. UNCHANGED << fsmState, lastCheckedAddress, currentPatternAdderss >>
  BY DEF DataMover, DmWrite, DmRead, DmWrStatus, DmRdStatus, testVars, ctrlVars
<1>2. /\ \/ soMemWrCmdP0' = soMemWrCmdP0
         \/ soMemWrCmdP0 # << >> /\ soMemWrCmdP0' = Tail(soMemWrCmdP0)
      /\ \/ soMemRdCmdP0' = soMemRdCmdP0
         \/ soMemRdCmdP0 # << >> /\ soMemRdCmdP0' = Tail(soMemRdCmdP0)
  BY DEF DataMover, DmWrite, DmRead, DmWrStatus, DmRdStatus, wrVars, rdVars, Dequeue
<1>3. InvCmds'
  BY <1>2, CmdQueues DEF AddrInv, InvCmds
<1> QED BY <1>1, <1>3 DEF AddrInv, InvLast, InvCurrent

LEMMA AddrStep == ASSUME AddrInv, [Next]_vars PROVE AddrInv'
<1>1. ASSUME NEW c \in CtrlValues, MmioCtrl(c) PROVE AddrInv'
  BY <1>1, AddrKept DEF MmioCtrl, testVars, ctrlVars, wrVars, rdVars
<1>2. CASE Reset
  BY <1>2 DEF Reset, AddrInv, InvLast, InvCurrent, InvCmds, LastAddrs
<1>3. CASE DataMover
  BY <1>3, MoverInv
<1>4. CASE Idle
  BY <1>4, IdleInv
<1>5. CASE WrPatSts \/ WrAntiSts
  BY <1>5, StatusInv
<1>6. ASSUME NEW pat \in {"PAT", "ANTI"}, WrCmd(pat) \/ RdCmd(pat) PROVE AddrInv'
  BY <1>6, CommandInv
<1>7. ASSUME NEW pat \in {"PAT", "ANTI"}, RdSts(pat) PROVE AddrInv'
  BY <1>7, StatusInv
<1>8. ASSUME NEW pat \in {"PAT", "ANTI"},
             WrData(pat) \/ RdData(pat) \/ WaitSts("WR", pat, siMemWrStsP0)
               \/ WaitSts("RD", pat, siMemRdStsP0)
      PROVE  AddrInv'
  BY <1>8, DataInv
<1>9. CASE UNCHANGED vars
  BY <1>9, AddrKept DEF vars, testVars, ctrlVars, wrVars, rdVars
<1> QED BY <1>1, <1>2, <1>3, <1>4, <1>5, <1>6, <1>7, <1>8, <1>9 DEF Next, Test

LEMMA AddrInvBounds == ASSUME AddrInv PROVE CommandsInBounds
<1> DEFINE cmds == soMemWrCmdP0 \o soMemRdCmdP0
<1>1. cmds \in Seq(ChunkStarts)
  BY DEF AddrInv, InvCmds
<1>2. ASSUME NEW i \in DOMAIN cmds PROVE cmds[i] \in ChunkStarts
  BY <1>1
<1>3. ASSUME NEW i \in DOMAIN cmds
      PROVE  cmds[i] % CHECK_CHUNK_SIZE = 0 /\ cmds[i] <= MEM_END_ADDR
  BY <1>2, <1>3, StartInBounds
<1> QED BY <1>3 DEF CommandsInBounds

\* mem_test_flash.cpp:165-218 and 221-228: whatever the host commands, however
\* late the DataMover answers and whatever it reads, every command names the
\* start of a chunk of the memory.
THEOREM AddressesInMemory == Spec => []CommandsInBounds
<1>1. Init => AddrInv
  BY AddrInit
<1>2. AddrInv /\ [Next]_vars => AddrInv'
  BY AddrStep
<1>3. AddrInv => CommandsInBounds
  BY AddrInvBounds
<1> QED BY <1>1, <1>2, <1>3, PTL DEF Spec

-----------------------------------------------------------------------------
(* The types, for any delay: where the machine is in its chunk, what the    *)
(* pattern then counts, and what is under way on the read path.             *)

T == TRANSFERS_PER_CHUNK
Chunk == [tdata : Words, tlast : BOOLEAN]
Phases == {"PHASE_IDLE", "PHASE_RAMP_WRITE", "PHASE_RAMP_READ", "PHASE_STRESS"}

\* The parts of a state of the machine; FSM_IDLE only has the first.
Dir == fsmState[1]
Pat == fsmState[2]
Part == fsmState[3]
In(d, p) == Dir = d /\ Part = p

\* The address under test, and what its first word is counted from.
Cur == currentPatternAdderss
Base == IF testPhase = "PHASE_STRESS" THEN 0 ELSE Cur

\* The words of the chunk that RdData has read.
Taken == (IF soMemRdCmdP0 = << >> THEN T ELSE dmRd) - Len(siMemReadP0)

InvRegs ==
  /\ DIAG_CTRL_IN \in 0..3 /\ DIAG_STAT_OUT \in [run : {0, 1}, err : {0, 1}]
  /\ fsmState \in FsmState /\ testPhase \in Phases
  /\ runContiniously \in BOOLEAN /\ wasError \in {0, 1}
  /\ timeoutCnt \in 0..CYCLES_UNTIL_TIMEOUT
  /\ currentPatternAdderss \in Addrs
  /\ currentMemPattern \in 0..AddrMod /\ patternWriteNum \in 0..T

InvMem ==
  /\ memory \in Memories /\ mem \in [Addrs -> Words]
  /\ soMemWriteP0 \in Seq(Chunk) /\ siMemReadP0 \in Seq(Chunk)
  /\ dmRd \in Nat /\ dmWr \in Nat /\ dmRdSts \in BOOLEAN /\ dmWrSts \in BOOLEAN

\* The phase says what the machine does, and how far it has come.
InvPhase ==
  /\ testPhase = "PHASE_IDLE" =>
       Dir = "IDLE" /\ lastCheckedAddress \in {MEM_START_ADDR, MEM_END_ADDR + 1}
  /\ testPhase # "PHASE_IDLE" =>
       lastCheckedAddress \in {MEM_START_ADDR} \cup {s + T - 1 : s \in ChunkStarts}
  /\ testPhase = "PHASE_RAMP_WRITE" /\ Dir # "IDLE" => Dir = "WR" /\ Pat = "PAT"
  /\ testPhase = "PHASE_RAMP_READ" /\ Dir # "IDLE" => Dir = "RD" /\ Pat = "PAT"

\* Words are on the read path only while they are read, and TLAST is on the
\* last one of the chunk.
InvRead ==
  IF In("RD", "DATA")
  THEN /\ \/ soMemRdCmdP0 = << Cur >> /\ dmRd \in 0..(T - 1)
          \/ soMemRdCmdP0 = << >> /\ dmRd = 0
       /\ Taken \in 0..(T - 1)
       /\ \A i \in 1..Len(siMemReadP0) : siMemReadP0[i].tlast <=> Taken + i = T
  ELSE soMemRdCmdP0 = << >> /\ siMemReadP0 = << >> /\ dmRd = 0

\* The pattern counts the words of the chunk from Base, in the ramp on from
\* the last address that was checked.
InvPattern ==
  /\ /\ Dir = "IDLE" /\ wasError = 0
     /\ testPhase \in {"PHASE_RAMP_WRITE", "PHASE_RAMP_READ"}
     /\ lastCheckedAddress # MEM_START_ADDR /\ ~Complete
     => currentMemPattern = lastCheckedAddress + 1
  /\ Dir # "IDLE" /\ Part = "CMD" /\ Pat = "PAT" => currentMemPattern = Base
  /\ In("WR", "DATA") => currentMemPattern = Base + patternWriteNum /\ patternWriteNum < T
  /\ In("RD", "DATA") => currentMemPattern = Base + Taken
  /\ Dir # "IDLE" /\ Part = "STS" =>
       /\ currentMemPattern = Base + T /\ timeoutCnt < CYCLES_UNTIL_TIMEOUT
       /\ Dir = "WR" => patternWriteNum = T

MachineInv == AddrInv /\ InvRegs /\ InvMem /\ InvPhase /\ InvRead /\ InvPattern

LEMMA Bounds ==
  /\ T \in Nat /\ T > 1 /\ T = TRANSFERS_PER_CHUNK /\ T = CHECK_CHUNK_SIZE
  /\ AddrMod \in Nat /\ MEM_END_ADDR \in Nat /\ AddrMod = MEM_END_ADDR + T
  /\ MEM_START_ADDR = 0 /\ MEM_START_ADDR \in ChunkStarts
  /\ \A s \in ChunkStarts : s \in Nat /\ s + T <= AddrMod
  /\ Addrs = 0..(AddrMod - 1)
  /\ CYCLES_UNTIL_TIMEOUT \in Nat /\ CYCLES_UNTIL_TIMEOUT > 0
<1>1. T \in Nat /\ T > 1 /\ T = TRANSFERS_PER_CHUNK /\ T = CHECK_CHUNK_SIZE
  BY Sizes DEF T, CHECK_CHUNK_SIZE
<1>2. AddrMod \in Nat /\ MEM_END_ADDR \in Nat /\ AddrMod = MEM_END_ADDR + T
  <2>1. NumChunks = (NumChunks - 1) + 1 /\ NumChunks - 1 \in Nat
    BY Sizes
  <2>2. AddrMod = (NumChunks - 1) * CHECK_CHUNK_SIZE + CHECK_CHUNK_SIZE
    BY <2>1, Sizes, TimesNext DEF AddrMod
  <2>3. (NumChunks - 1) * CHECK_CHUNK_SIZE \in Nat
    BY <2>1, Sizes, TimesNext
  <2> QED BY <2>2, <2>3, <1>1 DEF MEM_END_ADDR
<1>3. ASSUME NEW s \in ChunkStarts PROVE s \in Nat /\ s + T <= AddrMod
  BY <1>1, <1>2, StartInBounds
<1>4. CYCLES_UNTIL_TIMEOUT \in Nat /\ CYCLES_UNTIL_TIMEOUT > 0
  BY MemTimeAssumption
<1> QED BY <1>1, <1>2, <1>3, <1>4, FirstIsStart DEF Addrs, MEM_START_ADDR

\* The parts of a state, before and after a step.
LEMMA Parts ==
  /\ \A d, p, s : fsmState = << d, p, s >> => Dir = d /\ Pat = p /\ Part = s
  /\ \A d, p, s : fsmState' = << d, p, s >> => Dir' = d /\ Pat' = p /\ Part' = s
  /\ fsmState = FSM_IDLE => Dir = "IDLE"
  /\ fsmState' = FSM_IDLE => Dir' = "IDLE"
  /\ fsmState' = fsmState => Dir' = Dir /\ Pat' = Pat /\ Part' = Part
  BY DEF Dir, Pat, Part, FSM_IDLE

LEMMA States ==
  ASSUME fsmState \in FsmState
  PROVE  \/ fsmState = FSM_IDLE /\ Dir = "IDLE"
         \/ /\ Dir \in {"WR", "RD"} /\ Pat \in {"PAT", "ANTI"} /\ Part \in {"CMD", "DATA", "STS"}
            /\ fsmState = << Dir, Pat, Part >>
  BY DEF FsmState, Dir, Pat, Part, FSM_IDLE

LEMMA StateTypes ==
  /\ FSM_IDLE \in FsmState
  /\ \A d \in {"WR", "RD"}, p \in {"PAT", "ANTI"}, s \in {"CMD", "DATA", "STS"} :
       << d, p, s >> \in FsmState
  BY DEF FsmState

LEMMA WordType == ASSUME NEW n \in Nat, NEW pat PROVE Word(n, pat) \in Words
<1>1. (pat = "ANTI") \in BOOLEAN
  OBVIOUS
<1> QED BY <1>1 DEF Word, Words

LEMMA MachineInit == ASSUME Init PROVE MachineInv
<1> USE Bounds
<1>1. AddrInv
  BY AddrInit
<1>2. Dir = "IDLE"
  BY Parts DEF Init
<1>3. DIAG_CTRL_IN \in 0..3
  BY MemCtrlAssumption DEF Init
<1>4. InvRegs
  <2>1. DIAG_STAT_OUT \in [run : {0, 1}, err : {0, 1}]
    BY DEF Init
  <2>2. fsmState \in FsmState /\ testPhase \in Phases /\ wasError \in {0, 1}
    BY StateTypes DEF Init, Phases
  <2>3. runContiniously \in BOOLEAN
    BY DEF Init
  <2>4. /\ timeoutCnt \in 0..CYCLES_UNTIL_TIMEOUT /\ currentPatternAdderss \in Addrs
        /\ currentMemPattern \in 0..AddrMod /\ patternWriteNum \in 0..T
    BY DEF Init
  <2> QED BY <1>3, <2>1, <2>2, <2>3, <2>4 DEF InvRegs
<1>5. InvMem
  <2>1. NoWord \in Words
    BY WordType DEF NoWord
  <2>2. memory \in Memories /\ mem \in [Addrs -> Words]
    BY <2>1 DEF Init
  <2>3. dmRdSts \in BOOLEAN /\ dmWrSts \in BOOLEAN
    BY DEF Init
  <2>4. /\ soMemWriteP0 \in Seq(Chunk) /\ siMemReadP0 \in Seq(Chunk)
        /\ dmRd \in Nat /\ dmWr \in Nat
    BY DEF Init
  <2> QED BY <2>2, <2>3, <2>4 DEF InvMem
<1>6. InvPhase /\ InvRead /\ InvPattern
  BY <1>2 DEF Init, InvPhase, InvRead, InvPattern, In
<1> QED BY <1>1, <1>4, <1>5, <1>6 DEF MachineInv

-----------------------------------------------------------------------------
\* What the invocations in FSM_IDLE do, in the terms of the invariants.
Goes(dir) == Dir' = dir /\ Pat' = "PAT" /\ Part' = "CMD"

\* The test is stopped, starts anew, or comes to its next phase.
IdleResets ==
  /\ Dir' = "IDLE" /\ lastCheckedAddress' = MEM_START_ADDR
  /\ UNCHANGED << wasError, testPhase, currentMemPattern >>
IdleStarts ==
  /\ Goes("WR") /\ wasError' = 0 /\ testPhase' = "PHASE_RAMP_WRITE"
  /\ currentMemPattern' = 0 /\ Cur' = 0
  /\ lastCheckedAddress = MEM_START_ADDR /\ lastCheckedAddress' = MEM_START_ADDR
IdleAdvances ==
  /\ lastCheckedAddress # MEM_START_ADDR /\ Complete
  /\ lastCheckedAddress' = MEM_START_ADDR /\ currentMemPattern' = 0 /\ UNCHANGED wasError
  /\ \/ testPhase = "PHASE_RAMP_WRITE" /\ testPhase' = "PHASE_RAMP_READ"
     \/ testPhase = "PHASE_RAMP_READ" /\ testPhase' = "PHASE_STRESS"
     \/ testPhase \in {"PHASE_IDLE", "PHASE_STRESS"} /\ testPhase' = "PHASE_RAMP_WRITE"
  /\ IF wasError = 1 THEN Dir' = "IDLE"
     ELSE Cur' = 0 /\ Goes(IF testPhase' = "PHASE_RAMP_READ" THEN "RD" ELSE "WR")

\* The test stays where it is, or goes on to the next chunk.
IdleStays ==
  /\ Dir' = "IDLE" /\ UNCHANGED << wasError, testPhase, lastCheckedAddress >>
  /\ currentMemPattern' \in {0, currentMemPattern}
  /\ wasError = 0 => Complete
IdleGoesOn ==
  /\ wasError = 0 /\ UNCHANGED << wasError, testPhase, lastCheckedAddress >>
  /\ lastCheckedAddress # MEM_START_ADDR /\ lastCheckedAddress < MEM_END_ADDR
  /\ testPhase # "PHASE_IDLE"
  /\ Cur' = lastCheckedAddress + 1 /\ Cur' \in ChunkStarts
  /\ currentMemPattern' = IF testPhase = "PHASE_STRESS" THEN 0 ELSE currentMemPattern
  /\ Goes(IF testPhase = "PHASE_RAMP_READ" THEN "RD" ELSE "WR")

paths == << memory, dmVars, wrVars, rdVars >>

LEMMA LastChecked ==
  ASSUME MachineInv
  PROVE  lastCheckedAddress \in LastAddrs /\ lastCheckedAddress \in 0..(AddrMod - 1)
<1> USE Bounds
<1>1. lastCheckedAddress \in LastAddrs
  BY DEF MachineInv, AddrInv, InvLast
<1>2. lastCheckedAddress \in {0, MEM_END_ADDR + 1} \cup {s + T - 1 : s \in ChunkStarts}
  BY <1>1 DEF LastAddrs
<1> QED BY <1>1, <1>2

LEMMA IdleEffects ==
  ASSUME MachineInv, Idle
  PROVE  /\ Dir = "IDLE" /\ UNCHANGED << paths, patternWriteNum, timeoutCnt >>
         /\ IdleResets \/ IdleStarts \/ IdleAdvances \/ IdleStays \/ IdleGoesOn
<1> USE Bounds, Parts
<1>0. fsmState = FSM_IDLE
  BY DEF Idle, IdleStop, IdleNewTest, IdleNextPhase, IdleDone, IdleContinue, IdleRuns
<1>1. Dir = "IDLE"
  BY <1>0
<1>a. ASSUME NEW next, NEW stat, IdleEnds(next, stat)
      PROVE  /\ UNCHANGED << paths, patternWriteNum, timeoutCnt >>
             /\ wasError' = 1 => Dir' = "IDLE"
             /\ wasError' # 1 => fsmState' = next
             /\ lastCheckedAddress' = 0 => Cur' = 0
             /\ lastCheckedAddress' # 0 => Cur' = (lastCheckedAddress' + 1) % AddrMod
  BY <1>a DEF IdleEnds, paths, Cur
<1>2. CASE IdleStop
  <2>1. IdleEnds(FSM_IDLE, Status(0))
    BY <1>2 DEF IdleStop
  <2>2. Dir' = "IDLE"
    BY <2>1, <1>a
  <2> QED BY <1>1, <1>2, <2>1, <2>2, <1>a DEF IdleStop, IdleResets
<1>3. CASE IdleNewTest
  <2>1. IdleEnds(<< "WR", "PAT", "CMD" >>, [run |-> 1, err |-> 0]) /\ wasError' = 0
    BY <1>3 DEF IdleNewTest
  <2>2. Goes("WR")
    BY <2>1, <1>a DEF Goes
  <2> QED BY <1>1, <1>3, <2>1, <2>2, <1>a DEF IdleNewTest, IdleStarts
<1>4. CASE IdleNextPhase
  <2>0. /\ lastCheckedAddress # MEM_START_ADDR /\ Complete
        /\ lastCheckedAddress' = MEM_START_ADDR /\ currentMemPattern' = 0 /\ UNCHANGED wasError
    BY <1>4 DEF IdleNextPhase, Complete
  <2>1. PICK next, stat :
          /\ IdleEnds(next, stat)
          /\ \/ /\ testPhase = "PHASE_RAMP_WRITE" /\ testPhase' = "PHASE_RAMP_READ"
                /\ next = << "RD", "PAT", "CMD" >>
             \/ /\ testPhase = "PHASE_RAMP_READ" /\ testPhase' = "PHASE_STRESS"
                /\ next = << "WR", "PAT", "CMD" >>
             \/ /\ testPhase \in {"PHASE_IDLE", "PHASE_STRESS"} /\ testPhase' = "PHASE_RAMP_WRITE"
                /\ next = << "WR", "PAT", "CMD" >>
    BY <1>4 DEF IdleNextPhase
  <2>2. wasError' = 1 => Dir' = "IDLE"
    BY <2>1, <1>a
  <2>3. wasError' # 1 => Cur' = 0 /\ fsmState' = next
    BY <2>0, <2>1, <1>a
  <2>4. wasError' # 1 => Goes(IF testPhase' = "PHASE_RAMP_READ" THEN "RD" ELSE "WR")
    BY <2>1, <2>3 DEF Goes
  <2>5. IdleAdvances
    BY <2>0, <2>1, <2>2, <2>3, <2>4 DEF IdleAdvances
  <2> QED BY <1>1, <2>1, <2>5, <1>a
<1>5. CASE IdleDone
  <2>1. IdleEnds(FSM_IDLE, Status(0))
    BY <1>5 DEF IdleDone
  <2>2. Dir' = "IDLE"
    BY <2>1, <1>a
  <2> QED BY <1>1, <1>5, <2>1, <2>2, <1>a DEF IdleDone, IdleStays
<1>6. CASE IdleContinue
  <2>1. PICK stat : IdleEnds(IF testPhase = "PHASE_RAMP_READ" THEN << "RD", "PAT", "CMD" >>
                             ELSE << "WR", "PAT", "CMD" >>, stat)
    BY <1>6 DEF IdleContinue
  <2>2. /\ UNCHANGED << wasError, testPhase, lastCheckedAddress >>
        /\ lastCheckedAddress # MEM_START_ADDR /\ ~Complete
        /\ currentMemPattern' = IF testPhase = "PHASE_STRESS" THEN 0 ELSE currentMemPattern
    BY <1>6 DEF IdleContinue, PatternOfNextChunk
  <2>3. CASE wasError = 1
    <3>1. Dir' = "IDLE"
      BY <2>1, <2>2, <2>3, <1>a
    <3> QED BY <1>1, <2>1, <2>2, <2>3, <3>1, <1>a DEF IdleStays
  <2>4. CASE wasError = 0
    <3>1. lastCheckedAddress < MEM_END_ADDR
      BY <2>2, LastChecked DEF Complete
    <3>2. Cur' = lastCheckedAddress + 1 /\ Cur' \in ChunkStarts
      BY <2>1, <2>2, <3>1, <1>a, LastChecked, NextIsStart
    <3>3. fsmState' = IF testPhase = "PHASE_RAMP_READ" THEN << "RD", "PAT", "CMD" >>
                      ELSE << "WR", "PAT", "CMD" >>
      BY <2>1, <2>2, <2>4, <1>a
    <3>4. Goes(IF testPhase = "PHASE_RAMP_READ" THEN "RD" ELSE "WR")
      BY <3>3 DEF Goes
    <3>5. testPhase # "PHASE_IDLE"
      BY <2>2, <3>1 DEF MachineInv, InvPhase
    <3> QED BY <1>1, <2>1, <2>2, <2>4, <3>1, <3>2, <3>4, <3>5, <1>a DEF IdleGoesOn
  <2> QED BY <2>3, <2>4 DEF MachineInv, InvRegs
<1> QED BY <1>2, <1>3, <1>4, <1>5, <1>6 DEF Idle

LEMMA IdleRegs == ASSUME MachineInv, Idle PROVE InvRegs'
<1> USE Bounds
<1>1. PICK next, stat : /\ IdleEnds(next, stat) /\ next \in FsmState
                        /\ stat \in [run : {0, 1}, err : {0, 1}]
  <2>0. /\ FSM_IDLE \in FsmState /\ << "WR", "PAT", "CMD" >> \in FsmState
        /\ << "RD", "PAT", "CMD" >> \in FsmState
    BY StateTypes
  <2>1. /\ DIAG_STAT_OUT \in [run : {0, 1}, err : {0, 1}] /\ wasError \in {0, 1}
        /\ [run |-> 1, err |-> 0] \in [run : {0, 1}, err : {0, 1}]
    BY DEF MachineInv, InvRegs
  <2>2. wasError' \in {0, 1}
    BY <2>1 DEF Idle, IdleStop, IdleNewTest, IdleNextPhase, IdleDone, IdleContinue
  <2>3. Status(0) \in [run : {0, 1}, err : {0, 1}] /\ Status(1) \in [run : {0, 1}, err : {0, 1}]
    BY <2>2 DEF Status
  <2>4. \/ IdleEnds(FSM_IDLE, Status(0))
        \/ IdleEnds(<< "WR", "PAT", "CMD" >>, [run |-> 1, err |-> 0])
        \/ IdleEnds(<< "RD", "PAT", "CMD" >>, DIAG_STAT_OUT)
        \/ IdleEnds(<< "WR", "PAT", "CMD" >>, DIAG_STAT_OUT)
        \/ IdleEnds(<< "WR", "PAT", "CMD" >>, Status(1))
        \/ IdleEnds(<< "RD", "PAT", "CMD" >>, Status(1))
    BY DEF Idle, IdleStop, IdleNewTest, IdleNextPhase, IdleDone, IdleContinue
  <2> QED BY <2>0, <2>1, <2>3, <2>4
<1>2. wasError' \in {0, 1} /\ testPhase' \in Phases /\ currentMemPattern' \in 0..AddrMod
  <2>1. /\ wasError \in {0, 1} /\ testPhase \in Phases /\ currentMemPattern \in 0..AddrMod
    BY DEF MachineInv, InvRegs
  <2> QED BY <2>1, IdleEffects
          DEF IdleResets, IdleStarts, IdleAdvances, IdleStays, IdleGoesOn, Phases
<1>3. lastCheckedAddress' \in 0..(AddrMod - 1)
  BY LastChecked, IdleEffects DEF IdleResets, IdleStarts, IdleAdvances, IdleStays, IdleGoesOn
<1>4. currentPatternAdderss' \in Addrs
  <2>1. CASE lastCheckedAddress' = MEM_START_ADDR
    BY <1>1, <2>1 DEF IdleEnds
  <2>2. CASE lastCheckedAddress' # MEM_START_ADDR
    <3>1. currentPatternAdderss' = (lastCheckedAddress' + 1) % AddrMod
      BY <1>1, <2>2 DEF IdleEnds
    <3>2. lastCheckedAddress' + 1 \in Nat /\ AddrMod \in Nat \ {0}
      <4>1. AddrMod \in Nat \ {0}
        OBVIOUS
      <4>2. ASSUME NEW a \in 0..(AddrMod - 1) PROVE a + 1 \in Nat
        BY <4>1, <4>2
      <4> QED BY <4>1, <4>2, <1>3
    <3>3. (lastCheckedAddress' + 1) % AddrMod \in 0..(AddrMod - 1)
      BY <3>2, ModRange
    <3> QED BY <3>1, <3>3
  <2> QED BY <2>1, <2>2
<1>5. fsmState' \in FsmState /\ DIAG_STAT_OUT' \in [run : {0, 1}, err : {0, 1}]
  <2>1. Status(0) \in [run : {0, 1}, err : {0, 1}]
    BY <1>2 DEF Status
  <2> QED BY <1>1, <2>1, StateTypes DEF IdleEnds
<1>6. runContiniously' \in BOOLEAN
  <2>1. runContiniously \in BOOLEAN
    BY DEF MachineInv, InvRegs
  <2> QED BY <2>1 DEF Idle, IdleStop, IdleNewTest, IdleNextPhase, IdleDone, IdleContinue, IdleRuns
<1>7. /\ DIAG_CTRL_IN' \in 0..3 /\ timeoutCnt' \in 0..CYCLES_UNTIL_TIMEOUT
      /\ patternWriteNum' \in 0..T
  BY <1>1 DEF IdleEnds, MachineInv, InvRegs
<1> QED BY <1>2, <1>4, <1>5, <1>6, <1>7 DEF InvRegs

LEMMA IdleMachine == ASSUME MachineInv, Idle PROVE MachineInv'
<1> USE Bounds
<1>1. AddrInv' /\ InvRegs'
  BY IdleInv, IdleRegs DEF MachineInv
<1>2. InvMem'
  BY IdleEffects DEF paths, dmVars, wrVars, rdVars, MachineInv, InvMem
<1>3. InvRead'
  <2>1. Dir = "IDLE" /\ soMemRdCmdP0 = << >> /\ siMemReadP0 = << >> /\ dmRd = 0
    BY IdleEffects DEF MachineInv, InvRead, In
  <2>2. soMemRdCmdP0' = << >> /\ siMemReadP0' = << >> /\ dmRd' = 0
    BY <2>1, IdleEffects DEF paths, dmVars, rdVars
  <2>3. ~In("RD", "DATA")'
    BY IdleEffects
       DEF In, IdleResets, IdleStarts, IdleAdvances, IdleStays, IdleGoesOn, Goes
  <2> QED BY <2>2, <2>3 DEF InvRead
<1>4. InvPhase'
  <2>1. InvPhase /\ Dir = "IDLE" /\ testPhase \in Phases
    BY IdleEffects DEF MachineInv, InvRegs
  <2>2. testPhase' = "PHASE_IDLE" => Dir' = "IDLE" /\ testPhase = "PHASE_IDLE"
    BY <2>1, IdleEffects
       DEF IdleResets, IdleStarts, IdleAdvances, IdleStays, IdleGoesOn, Phases
  <2>3. lastCheckedAddress' = MEM_START_ADDR \/ UNCHANGED << lastCheckedAddress, testPhase >>
    BY IdleEffects DEF IdleResets, IdleStarts, IdleAdvances, IdleStays, IdleGoesOn
  <2>4. /\ testPhase' = "PHASE_RAMP_WRITE" /\ Dir' # "IDLE" => Dir' = "WR" /\ Pat' = "PAT"
        /\ testPhase' = "PHASE_RAMP_READ" /\ Dir' # "IDLE" => Dir' = "RD" /\ Pat' = "PAT"
    BY IdleEffects
       DEF IdleResets, IdleStarts, IdleAdvances, IdleStays, IdleGoesOn, Goes
  <2> QED BY <2>1, <2>2, <2>3, <2>4 DEF InvPhase
<1>5. InvPattern'
  <2>1. InvPattern /\ Dir = "IDLE" /\ testPhase \in Phases /\ wasError \in {0, 1}
    BY IdleEffects DEF MachineInv, InvRegs
  <2>2. CASE IdleResets
    BY <2>2 DEF IdleResets, InvPattern, In, Complete
  <2>3. CASE IdleStarts
    BY <2>3 DEF IdleStarts, InvPattern, In, Goes, Base
  <2>4. CASE IdleAdvances
    BY <2>1, <2>4 DEF IdleAdvances, InvPattern, In, Goes, Base
  <2>5. CASE IdleStays
    BY <2>1, <2>5 DEF IdleStays, InvPattern, In, Complete
  <2>6. CASE IdleGoesOn
    <3>1. /\ Dir' \in {"RD", "WR"} /\ Pat' = "PAT" /\ Part' = "CMD"
          /\ Cur' = lastCheckedAddress + 1 /\ testPhase' = testPhase
          /\ currentMemPattern' = IF testPhase = "PHASE_STRESS" THEN 0 ELSE currentMemPattern
      BY <2>6 DEF IdleGoesOn, Goes
    <3>2. testPhase # "PHASE_STRESS" => currentMemPattern = lastCheckedAddress + 1
      BY <2>1, <2>6, LastChecked DEF IdleGoesOn, InvPattern, Complete, Phases
    <3> QED BY <3>1, <3>2 DEF InvPattern, In, Base
  <2> QED BY <2>2, <2>3, <2>4, <2>5, <2>6, IdleEffects
<1> QED BY <1>1, <1>2, <1>3, <1>4, <1>5 DEF MachineInv

-----------------------------------------------------------------------------
\* What is true of every chunk under test, and what a busy state leaves alone.
LEMMA Busy ==
  ASSUME MachineInv, Dir # "IDLE"
  PROVE  /\ Dir \in {"WR", "RD"} /\ Pat \in {"PAT", "ANTI"} /\ Part \in {"CMD", "DATA", "STS"}
         /\ testPhase \in {"PHASE_RAMP_WRITE", "PHASE_RAMP_READ", "PHASE_STRESS"}
         /\ testPhase = "PHASE_RAMP_WRITE" => Dir = "WR" /\ Pat = "PAT"
         /\ testPhase = "PHASE_RAMP_READ" => Dir = "RD" /\ Pat = "PAT"
         /\ Cur \in ChunkStarts /\ Cur \in Nat /\ Cur + T <= AddrMod
         /\ Base \in Nat /\ Base + T <= AddrMod
         /\ Base \in {0, Cur} /\ (testPhase = "PHASE_STRESS" => Base = 0)
         /\ testPhase # "PHASE_STRESS" => Base = Cur
<1> USE Bounds
<1>1. /\ Dir \in {"WR", "RD"} /\ Pat \in {"PAT", "ANTI"} /\ Part \in {"CMD", "DATA", "STS"}
      /\ fsmState # FSM_IDLE
  BY States, Parts DEF MachineInv, InvRegs
<1>2. /\ testPhase \in {"PHASE_RAMP_WRITE", "PHASE_RAMP_READ", "PHASE_STRESS"}
      /\ testPhase = "PHASE_RAMP_WRITE" => Dir = "WR" /\ Pat = "PAT"
      /\ testPhase = "PHASE_RAMP_READ" => Dir = "RD" /\ Pat = "PAT"
  BY DEF MachineInv, InvPhase, InvRegs, Phases
<1>3. Cur \in ChunkStarts
  BY <1>1 DEF MachineInv, AddrInv, InvCurrent, Cur
<1>4. Cur \in Nat /\ Cur + T <= AddrMod
  BY <1>3
<1> QED BY <1>1, <1>2, <1>3, <1>4 DEF Base

LEMMA BusySame ==
  ASSUME BusyUnchanged
  PROVE  /\ Cur' = Cur /\ Base' = Base
         /\ UNCHANGED << DIAG_CTRL_IN, DIAG_STAT_OUT, runContiniously, testPhase, memory, mem,
                         dmWr, dmWrSts, dmRd, dmRdSts >>
  BY DEF BusyUnchanged, Cur, Base, dmVars

LEMMA RegsKept ==
  ASSUME MachineInv, BusyUnchanged, fsmState' \in FsmState, wasError' \in {0, 1},
         timeoutCnt' \in 0..CYCLES_UNTIL_TIMEOUT, currentMemPattern' \in 0..AddrMod,
         patternWriteNum' \in 0..T
  PROVE  InvRegs'
  BY BusySame DEF MachineInv, InvRegs, Cur

LEMMA MemKept ==
  ASSUME MachineInv, BusyUnchanged, soMemWriteP0' \in Seq(Chunk), siMemReadP0' \in Seq(Chunk)
  PROVE  InvMem'
  BY BusySame DEF MachineInv, InvMem

LEMMA PhaseKept ==
  ASSUME MachineInv, BusyUnchanged, UNCHANGED lastCheckedAddress, Dir # "IDLE",
         Dir' = "IDLE" \/ (Dir' = Dir /\ Pat' = Pat) \/ testPhase = "PHASE_STRESS"
  PROVE  InvPhase'
  BY BusySame, Busy DEF MachineInv, InvPhase

\* A state that has nothing on the read path.
LEMMA ReadKept ==
  ASSUME MachineInv, BusyUnchanged, ~In("RD", "DATA"), ~In("RD", "DATA")', UNCHANGED rdVars
  PROVE  InvRead'
  BY BusySame DEF MachineInv, InvRead, rdVars

LEMMA WrCmdMachine ==
  ASSUME MachineInv, NEW pat \in {"PAT", "ANTI"}, WrCmd(pat)
  PROVE  InvRegs' /\ InvMem' /\ InvPhase' /\ InvRead' /\ InvPattern'
<1> USE Bounds
<1>1. Dir = "WR" /\ Pat = pat /\ Part = "CMD" /\ Dir' = "WR" /\ Pat' = pat /\ Part' = "DATA"
  BY Parts DEF WrCmd
<1>2. BusyUnchanged /\ UNCHANGED << wasError, timeoutCnt, lastCheckedAddress, rdVars, soMemWriteP0 >>
  BY DEF WrCmd
<1>3. patternWriteNum' = 0 /\ currentMemPattern' = Base
  BY <1>1, Busy DEF WrCmd, TransfersAtCmd, MachineInv, InvPattern
<1>4. InvRegs'
  <2>1. fsmState' \in FsmState
    BY StateTypes DEF WrCmd
  <2>2. currentMemPattern' \in 0..AddrMod /\ patternWriteNum' \in 0..T
    BY <1>1, <1>3, Busy
  <2>3. wasError' \in {0, 1} /\ timeoutCnt' \in 0..CYCLES_UNTIL_TIMEOUT
    BY <1>2 DEF MachineInv, InvRegs
  <2> QED BY <1>2, <2>1, <2>2, <2>3, RegsKept
<1>5. InvMem'
  BY <1>2, MemKept DEF MachineInv, InvMem, rdVars
<1>6. InvPhase' /\ InvRead'
  BY <1>1, <1>2, PhaseKept, ReadKept DEF In
<1>7. InvPattern'
  BY <1>1, <1>2, <1>3, BusySame, Busy DEF InvPattern, In
<1> QED BY <1>4, <1>5, <1>6, <1>7

LEMMA WrDataMachine ==
  ASSUME MachineInv, NEW pat \in {"PAT", "ANTI"}, WrData(pat)
  PROVE  InvRegs' /\ InvMem' /\ InvPhase' /\ InvRead' /\ InvPattern'
<1> USE Bounds
<1>0. fsmState' \in {fsmState, << "WR", pat, "STS" >>} /\ fsmState = << "WR", pat, "DATA" >>
  BY DEF WrData
<1>1. Dir = "WR" /\ Pat = pat /\ Part = "DATA" /\ Dir' = "WR" /\ Pat' = pat
  BY <1>0, Parts
<1>2. BusyUnchanged /\ UNCHANGED << wasError, lastCheckedAddress, rdVars >>
  BY DEF WrData
<1>3. /\ patternWriteNum \in 0..(T - 1) /\ patternWriteNum' = patternWriteNum + 1
      /\ currentMemPattern = Base + patternWriteNum
      /\ currentMemPattern' = Base + patternWriteNum'
  <2>1. currentMemPattern = Base + patternWriteNum /\ patternWriteNum < T
    BY <1>1 DEF MachineInv, InvPattern, In
  <2> QED BY <2>1, <1>1, Busy DEF WrData, MachineInv, InvRegs
<1>4. IF patternWriteNum' = T THEN Part' = "STS" /\ timeoutCnt' = 0
      ELSE Part' = "DATA" /\ timeoutCnt' = timeoutCnt
  <2>1. (patternWriteNum = T - 1) <=> (patternWriteNum' = T)
    BY <1>3
  <2> QED BY <2>1, <1>0, Parts DEF WrData
<1>5. InvRegs'
  <2>1. currentMemPattern' \in 0..AddrMod
    BY <1>1, <1>3, Busy
  <2>2. timeoutCnt' \in 0..CYCLES_UNTIL_TIMEOUT /\ wasError' \in {0, 1}
    BY <1>2, <1>4 DEF MachineInv, InvRegs
  <2>3. fsmState' \in FsmState /\ patternWriteNum' \in 0..T
    BY <1>0, <1>3, StateTypes
  <2> QED BY <1>2, <2>1, <2>2, <2>3, RegsKept
<1>6. InvMem'
  <2>1. currentMemPattern' \in Nat
    BY <1>1, <1>3, Busy
  <2>2. /\ Word(currentMemPattern', pat) \in Words
        /\ (patternWriteNum = TRANSFERS_PER_CHUNK - 1) \in BOOLEAN
    BY <2>1, WordType
  <2>3. [tdata |-> Word(currentMemPattern', pat),
         tlast |-> patternWriteNum = TRANSFERS_PER_CHUNK - 1] \in Chunk
    BY <2>2 DEF Chunk
  <2>4. soMemWriteP0' \in Seq(Chunk)
    BY <2>3 DEF WrData, MachineInv, InvMem
  <2> QED BY <1>2, <2>4, MemKept DEF MachineInv, InvMem, rdVars
<1>7. InvPhase' /\ InvRead'
  BY <1>1, <1>2, PhaseKept, ReadKept DEF In
<1>8. InvPattern'
  BY <1>1, <1>2, <1>3, <1>4, BusySame DEF InvPattern, In
<1> QED BY <1>5, <1>6, <1>7, <1>8

\* The chunk is done with, or its next part begins.
LEMMA StsEffects ==
  ASSUME MachineInv, WrPatSts \/ WrAntiSts \/ (\E pat \in {"PAT", "ANTI"} : RdSts(pat))
  PROVE  /\ BusyUnchanged /\ UNCHANGED << wasError, timeoutCnt, patternWriteNum, soMemRdCmdP0,
                                          siMemReadP0, soMemWrCmdP0, soMemWriteP0 >>
         /\ Part = "STS" /\ fsmState' \in FsmState
         /\ \/ /\ Dir' = "IDLE" /\ lastCheckedAddress' = Cur + T - 1
               /\ UNCHANGED currentMemPattern
               /\ \/ testPhase = "PHASE_RAMP_WRITE" /\ Dir = "WR" /\ Pat = "PAT"
                  \/ testPhase = "PHASE_RAMP_READ" /\ Dir = "RD" /\ Pat = "PAT"
                  \/ testPhase = "PHASE_STRESS" /\ Dir = "RD" /\ Pat = "ANTI"
            \/ /\ testPhase = "PHASE_STRESS" /\ Part' = "CMD" /\ UNCHANGED lastCheckedAddress
               /\ currentMemPattern' \in {0, currentMemPattern}
               /\ \/ Dir = "WR" /\ Pat = "PAT" /\ Dir' = "RD" /\ Pat' = "PAT"
                  \/ Dir = "RD" /\ Pat = "PAT" /\ Dir' = "WR" /\ Pat' = "ANTI"
                  \/ Dir = "WR" /\ Pat = "ANTI" /\ Dir' = "RD" /\ Pat' = "ANTI"
               /\ Pat' = "PAT" => currentMemPattern' = 0
<1> USE Bounds
<1>0. /\ BusyUnchanged /\ UNCHANGED << wasError, timeoutCnt, patternWriteNum, soMemRdCmdP0,
                                       siMemReadP0, soMemWrCmdP0, soMemWriteP0 >>
      /\ fsmState' \in FsmState
  BY StateTypes DEF WrPatSts, WrAntiSts, RdSts, rdVars, wrVars
<1>1. CASE WrPatSts
  <2>1. /\ Dir = "WR" /\ Pat = "PAT" /\ Part = "STS"
        /\ fsmState' = FSM_IDLE => Dir' = "IDLE"
        /\ fsmState' = << "RD", "PAT", "CMD" >> => Dir' = "RD" /\ Pat' = "PAT" /\ Part' = "CMD"
    BY <1>1, Parts DEF WrPatSts
  <2>2. testPhase \in {"PHASE_RAMP_WRITE", "PHASE_STRESS"}
    BY <2>1, Busy
  <2> QED BY <1>0, <1>1, <2>1, <2>2 DEF WrPatSts, ChunkEnd, PatternAfterWrite, Cur
<1>2. CASE WrAntiSts
  <2>1. /\ Dir = "WR" /\ Pat = "ANTI" /\ Part = "STS"
        /\ Dir' = "RD" /\ Pat' = "ANTI" /\ Part' = "CMD"
    BY <1>2, Parts DEF WrAntiSts
  <2>2. testPhase = "PHASE_STRESS"
    BY <2>1, Busy
  <2> QED BY <1>0, <1>2, <2>1, <2>2 DEF WrAntiSts
<1>3. CASE \E pat \in {"PAT", "ANTI"} : RdSts(pat)
  <2>0. PICK pat \in {"PAT", "ANTI"} : RdSts(pat)
    BY <1>3
  <2>1. /\ Dir = "RD" /\ Pat = pat /\ Part = "STS"
        /\ fsmState' = FSM_IDLE => Dir' = "IDLE"
        /\ fsmState' = << "WR", "ANTI", "CMD" >> => Dir' = "WR" /\ Pat' = "ANTI" /\ Part' = "CMD"
    BY <2>0, Parts DEF RdSts
  <2>2. testPhase \in {"PHASE_RAMP_READ", "PHASE_STRESS"} /\ (pat = "ANTI" => testPhase = "PHASE_STRESS")
    BY <2>1, Busy
  <2> QED BY <1>0, <2>0, <2>1, <2>2 DEF RdSts, ChunkDone, ChunkEnd, Cur
<1> QED BY <1>1, <1>2, <1>3

LEMMA StsMachine ==
  ASSUME MachineInv, WrPatSts \/ WrAntiSts \/ (\E pat \in {"PAT", "ANTI"} : RdSts(pat))
  PROVE  InvRegs' /\ InvMem' /\ InvPhase' /\ InvRead' /\ InvPattern'
<1> USE Bounds
<1>1. /\ BusyUnchanged /\ Part = "STS" /\ fsmState' \in FsmState /\ Dir # "IDLE"
      /\ UNCHANGED << wasError, timeoutCnt, patternWriteNum, soMemRdCmdP0, siMemReadP0,
                      soMemWrCmdP0, soMemWriteP0 >>
  BY StsEffects, Busy
<1>2. currentMemPattern = Base + T
  BY <1>1 DEF MachineInv, InvPattern
<1>3. currentMemPattern' \in 0..AddrMod /\ (Dir' = "IDLE" \/ Part' = "CMD")
  BY <1>1, <1>2, StsEffects, Busy
<1>4. InvRegs'
  <2>1. /\ wasError' \in {0, 1} /\ timeoutCnt' \in 0..CYCLES_UNTIL_TIMEOUT
        /\ patternWriteNum' \in 0..T
    BY <1>1 DEF MachineInv, InvRegs
  <2> QED BY <1>1, <1>3, <2>1, RegsKept
<1>5. InvMem'
  BY <1>1, MemKept DEF MachineInv, InvMem
<1>6. InvRead'
  BY <1>1, <1>3, BusySame DEF MachineInv, InvRead, In
<1>7. CASE /\ Dir' = "IDLE" /\ lastCheckedAddress' = Cur + T - 1
           /\ UNCHANGED currentMemPattern
  <2>1. InvPhase'
    BY <1>1, <1>7, BusySame, Busy DEF InvPhase
  <2>2. InvPattern'
    BY <1>1, <1>2, <1>7, BusySame, Busy DEF InvPattern, In
  <2> QED BY <1>4, <1>5, <1>6, <2>1, <2>2
<1>8. CASE /\ testPhase = "PHASE_STRESS" /\ Part' = "CMD" /\ UNCHANGED lastCheckedAddress
           /\ Pat' = "PAT" => currentMemPattern' = 0
  <2>1. InvPhase'
    BY <1>1, <1>8, PhaseKept
  <2>2. InvPattern'
    BY <1>1, <1>8, BusySame, Busy DEF InvPattern, In
  <2> QED BY <1>4, <1>5, <1>6, <2>1, <2>2
<1> QED BY <1>7, <1>8, StsEffects

LEMMA WaitMachine ==
  ASSUME MachineInv, NEW dir \in {"WR", "RD"}, NEW pat \in {"PAT", "ANTI"}, NEW sts,
         WaitSts(dir, pat, sts)
  PROVE  InvRegs' /\ InvMem' /\ InvPhase' /\ InvRead' /\ InvPattern'
<1> USE Bounds
<1>0. fsmState = << dir, pat, "STS" >> /\ fsmState' \in {fsmState, FSM_IDLE}
  BY DEF WaitSts
<1>1. /\ Dir = dir /\ Pat = pat /\ Part = "STS"
      /\ Dir' = "IDLE" \/ (Dir' = Dir /\ Pat' = Pat /\ Part' = Part)
  BY <1>0, Parts
<1>2. BusyUnchanged /\ UNCHANGED << lastCheckedAddress, currentMemPattern, patternWriteNum, rdVars,
                                    soMemWriteP0 >>
  BY DEF WaitSts, wrVars
<1>3. /\ timeoutCnt < CYCLES_UNTIL_TIMEOUT /\ timeoutCnt' = timeoutCnt + 1
      /\ timeoutCnt' \in 0..CYCLES_UNTIL_TIMEOUT
  <2>1. timeoutCnt < CYCLES_UNTIL_TIMEOUT /\ timeoutCnt \in Nat
    BY <1>1, Busy DEF MachineInv, InvPattern, InvRegs
  <2> QED BY <2>1 DEF WaitSts
<1>4. \/ wasError' = 1 /\ Dir' = "IDLE"
      \/ UNCHANGED << wasError, fsmState >> /\ timeoutCnt' < CYCLES_UNTIL_TIMEOUT
  <2>1. CASE TimedOut
    <3>1. wasError' = 1 /\ fsmState' = FSM_IDLE
      BY <2>1 DEF WaitSts, TimedOut
    <3> QED BY <3>1, Parts
  <2>2. CASE ~TimedOut
    BY <2>2, <1>3 DEF WaitSts, TimedOut
  <2> QED BY <2>1, <2>2
<1>5. InvRegs'
  <2>1. fsmState' \in FsmState /\ wasError' \in {0, 1}
    BY <1>0, <1>4, StateTypes DEF MachineInv, InvRegs
  <2>2. currentMemPattern' \in 0..AddrMod /\ patternWriteNum' \in 0..T
    BY <1>2 DEF MachineInv, InvRegs
  <2> QED BY <1>2, <1>3, <2>1, <2>2, RegsKept
<1>6. InvMem'
  BY <1>2, MemKept DEF MachineInv, InvMem, rdVars
<1>7. InvPhase' /\ InvRead'
  BY <1>1, <1>2, PhaseKept, ReadKept DEF In
<1>8. InvPattern'
  <2>1. CASE wasError' = 1 /\ Dir' = "IDLE"
    BY <2>1 DEF InvPattern, In
  <2>2. CASE UNCHANGED << wasError, fsmState >> /\ timeoutCnt' < CYCLES_UNTIL_TIMEOUT
    <3>1. currentMemPattern = Base + T /\ (Dir = "WR" => patternWriteNum = T)
      BY <1>1 DEF MachineInv, InvPattern
    <3>2. Dir' = Dir /\ Pat' = Pat /\ Part' = "STS"
      BY <2>2, <1>1, Parts
    <3> QED BY <1>1, <1>2, <2>2, <3>1, <3>2, BusySame DEF InvPattern, In
  <2> QED BY <1>4, <2>1, <2>2
<1> QED BY <1>5, <1>6, <1>7, <1>8

LEMMA RdCmdMachine ==
  ASSUME MachineInv, NEW pat \in {"PAT", "ANTI"}, RdCmd(pat)
  PROVE  InvRegs' /\ InvMem' /\ InvPhase' /\ InvRead' /\ InvPattern'
<1> USE Bounds
<1>1. Dir = "RD" /\ Pat = pat /\ Part = "CMD" /\ Dir' = "RD" /\ Pat' = pat /\ Part' = "DATA"
  BY Parts DEF RdCmd
<1>2. BusyUnchanged /\ UNCHANGED << wasError, timeoutCnt, lastCheckedAddress, patternWriteNum,
                                    soMemWriteP0, siMemReadP0 >>
  BY DEF RdCmd, wrVars
<1>3. currentMemPattern' = Base
  BY <1>1, Busy DEF RdCmd, MachineInv, InvPattern
<1>4. /\ soMemRdCmdP0' = << Cur >> /\ siMemReadP0' = << >> /\ dmRd' = 0
  <2>1. soMemRdCmdP0 = << >> /\ siMemReadP0 = << >> /\ dmRd = 0
    BY <1>1 DEF MachineInv, InvRead, In
  <2> QED BY <2>1, <1>2, BusySame DEF RdCmd, Cur
<1>5. InvRegs'
  <2>1. fsmState' \in FsmState
    BY StateTypes DEF RdCmd
  <2>2. currentMemPattern' \in 0..AddrMod
    BY <1>1, <1>3, Busy
  <2>3. /\ wasError' \in {0, 1} /\ timeoutCnt' \in 0..CYCLES_UNTIL_TIMEOUT
        /\ patternWriteNum' \in 0..T
    BY <1>2 DEF MachineInv, InvRegs
  <2> QED BY <1>2, <2>1, <2>2, <2>3, RegsKept
<1>6. InvMem'
  BY <1>2, MemKept DEF MachineInv, InvMem
<1>7. InvPhase'
  BY <1>1, <1>2, PhaseKept
<1>8. Taken' = 0
  <2>1. soMemRdCmdP0' # << >> /\ Len(siMemReadP0') = 0
    BY <1>4
  <2> QED BY <2>1, <1>4 DEF Taken
<1>9. InvRead'
  BY <1>1, <1>2, <1>4, <1>8, BusySame DEF InvRead, In
<1>10. InvPattern'
  BY <1>1, <1>2, <1>3, <1>8, BusySame, Busy DEF InvPattern, In
<1> QED BY <1>5, <1>6, <1>7, <1>9, <1>10

\* What RdData reads, and what it leaves.
LEMMA RdDataEffects ==
  ASSUME MachineInv, NEW pat \in {"PAT", "ANTI"}, RdData(pat)
  PROVE  /\ In("RD", "DATA") /\ Pat = pat /\ Dir' = "RD" /\ Pat' = pat
         /\ BusyUnchanged /\ UNCHANGED << lastCheckedAddress, patternWriteNum, wrVars, soMemRdCmdP0 >>
         /\ siMemReadP0 # << >> /\ siMemReadP0' = Tail(siMemReadP0)
         /\ Taken \in 0..(T - 1) /\ Taken' = Taken + 1 /\ currentMemPattern' = Base + Taken'
         /\ wasError' = IF siMemReadP0[1].tdata # Word(currentMemPattern', pat) THEN 1 ELSE wasError
         /\ IF Taken' = T
            THEN /\ Part' = "STS" /\ timeoutCnt' = 0
                 /\ soMemRdCmdP0 = << >> /\ siMemReadP0' = << >> /\ dmRd = 0
            ELSE Part' = "DATA" /\ UNCHANGED timeoutCnt
<1> USE Bounds
<1>0. fsmState = << "RD", pat, "DATA" >> /\ fsmState' \in {fsmState, << "RD", pat, "STS" >>}
  BY DEF RdData
<1>1. In("RD", "DATA") /\ Pat = pat /\ Dir' = "RD" /\ Pat' = pat
  BY <1>0, Parts DEF In
<1>2. /\ BusyUnchanged /\ UNCHANGED << lastCheckedAddress, patternWriteNum, wrVars, soMemRdCmdP0 >>
      /\ siMemReadP0 # << >> /\ siMemReadP0' = Tail(siMemReadP0)
      /\ currentMemPattern' = currentMemPattern + 1
  BY DEF RdData, Dequeue
<1>3. siMemReadP0 \in Seq(Chunk) /\ Len(siMemReadP0) \in Nat /\ Len(siMemReadP0) > 0
  BY <1>2 DEF MachineInv, InvMem
<1>4. Len(siMemReadP0') = Len(siMemReadP0) - 1 /\ Head(siMemReadP0) = siMemReadP0[1]
  BY <1>2, <1>3
<1>5. /\ \/ soMemRdCmdP0 = << Cur >> /\ dmRd \in 0..(T - 1)
         \/ soMemRdCmdP0 = << >> /\ dmRd = 0
      /\ Taken \in 0..(T - 1)
      /\ siMemReadP0[1].tlast <=> Taken + 1 = T
  BY <1>1, <1>3 DEF MachineInv, InvRead
<1>6. Taken' = Taken + 1
  BY <1>2, <1>3, <1>4, <1>5, BusySame DEF Taken
<1>7. currentMemPattern' = Base + Taken'
  BY <1>1, <1>2, <1>5, <1>6, Busy DEF MachineInv, InvPattern, In
<1>8. wasError' = IF siMemReadP0[1].tdata # Word(currentMemPattern', pat) THEN 1 ELSE wasError
  BY <1>4 DEF RdData
<1>9. IF Taken' = T THEN Part' = "STS" /\ timeoutCnt' = 0
      ELSE Part' = "DATA" /\ UNCHANGED timeoutCnt
  <2>1. siMemReadP0[1].tlast <=> Taken' = T
    BY <1>5, <1>6
  <2>2. CASE siMemReadP0[1].tlast
    BY <2>1, <2>2, <1>4, Parts DEF RdData
  <2>3. CASE ~siMemReadP0[1].tlast
    BY <2>1, <2>3, <1>0, <1>4, Parts DEF RdData
  <2> QED BY <2>2, <2>3
<1>10. ASSUME Taken' = T PROVE soMemRdCmdP0 = << >> /\ siMemReadP0' = << >> /\ dmRd = 0
  <2>1. soMemRdCmdP0 = << >> /\ dmRd = 0
    BY <1>10, <1>3, <1>5, <1>6 DEF Taken
  <2>2. Len(siMemReadP0) = 1
    <3>1. Taken = T - Len(siMemReadP0)
      BY <2>1 DEF Taken
    <3>2. (T - Len(siMemReadP0)) + 1 = T
      BY <3>1, <1>10, <1>6
    <3>3. \A n \in Nat : (T - n) + 1 = T => n = 1
      OBVIOUS
    <3> QED BY <3>2, <3>3, <1>3
  <2> QED BY <1>2, <1>3, <2>1, <2>2
<1> QED BY <1>1, <1>2, <1>5, <1>6, <1>7, <1>8, <1>9, <1>10

LEMMA RdDataMachine ==
  ASSUME MachineInv, NEW pat \in {"PAT", "ANTI"}, RdData(pat)
  PROVE  InvRegs' /\ InvMem' /\ InvPhase' /\ InvRead' /\ InvPattern'
<1> USE Bounds
<1>1. /\ Dir = "RD" /\ Part = "DATA" /\ Pat = pat /\ Dir' = "RD" /\ Pat' = pat
      /\ BusyUnchanged /\ UNCHANGED << lastCheckedAddress, patternWriteNum, wrVars, soMemRdCmdP0 >>
      /\ siMemReadP0 # << >> /\ siMemReadP0' = Tail(siMemReadP0)
      /\ Taken \in 0..(T - 1) /\ Taken' = Taken + 1 /\ currentMemPattern' = Base + Taken'
  BY RdDataEffects DEF In
<1>2. InvRegs'
  <2>1. fsmState' \in FsmState /\ wasError' \in {0, 1} /\ timeoutCnt' \in 0..CYCLES_UNTIL_TIMEOUT
    BY StateTypes DEF RdData, MachineInv, InvRegs
  <2>2. currentMemPattern' \in 0..AddrMod
    BY <1>1, Busy
  <2>3. patternWriteNum' \in 0..T
    BY <1>1 DEF MachineInv, InvRegs
  <2> QED BY <1>1, <2>1, <2>2, <2>3, RegsKept
<1>3. InvMem'
  <2>1. siMemReadP0' \in Seq(Chunk)
    BY <1>1 DEF MachineInv, InvMem
  <2> QED BY <1>1, <2>1, MemKept DEF MachineInv, InvMem, wrVars
<1>4. InvPhase'
  BY <1>1, PhaseKept
<1>5. InvRead'
  <2>1. CASE Taken' = T
    <3>1. ~In("RD", "DATA")' /\ soMemRdCmdP0' = << >> /\ siMemReadP0' = << >> /\ dmRd' = 0
      BY <2>1, <1>1, RdDataEffects, BusySame DEF In
    <3> QED BY <3>1 DEF InvRead
  <2>2. CASE Taken' # T
    <3>1. \/ soMemRdCmdP0' = << Cur' >> /\ dmRd' \in 0..(T - 1)
          \/ soMemRdCmdP0' = << >> /\ dmRd' = 0
      BY <1>1, BusySame DEF MachineInv, InvRead, In
    <3>2. Taken' \in 0..(T - 1)
      BY <1>1, <2>2
    <3>3. ASSUME NEW i \in 1..Len(siMemReadP0')
          PROVE  siMemReadP0'[i].tlast <=> Taken' + i = T
      <4>1. siMemReadP0 \in Seq(Chunk)
        BY DEF MachineInv, InvMem
      <4>2. /\ i + 1 \in 1..Len(siMemReadP0) /\ siMemReadP0'[i] = siMemReadP0[i + 1]
            /\ i \in Nat
        BY <1>1, <4>1
      <4>3. siMemReadP0[i + 1].tlast <=> Taken + (i + 1) = T
        BY <1>1, <4>2 DEF MachineInv, InvRead, In
      <4> QED BY <1>1, <4>2, <4>3
    <3>4. In("RD", "DATA")'
      BY <2>2, RdDataEffects DEF In
    <3> QED BY <3>1, <3>2, <3>3, <3>4 DEF InvRead
  <2> QED BY <2>1, <2>2
<1>6. InvPattern'
  <2>1. CASE Taken' = T
    BY <2>1, <1>1, RdDataEffects, BusySame DEF InvPattern, In
  <2>2. CASE Taken' # T
    BY <2>2, <1>1, RdDataEffects, BusySame DEF InvPattern, In
  <2> QED BY <2>1, <2>2
<1> QED BY <1>2, <1>3, <1>4, <1>5, <1>6

-----------------------------------------------------------------------------
\* The words of a chunk have an address, and what is loaded there is a word.
LEMMA LoadType ==
  ASSUME MachineInv, NEW a \in Addrs
  PROVE  Load(a) \in Words /\ memory.cellOf[a] \in Addrs
<1>1. /\ memory.cellOf \in [Addrs -> Addrs]
      /\ \A x \in DOMAIN memory.stuck : memory.stuck[x] \in Words
  BY MemoriesAssumption DEF MachineInv, InvMem
<1> QED BY <1>1 DEF Load, MachineInv, InvMem

\* What a load adds to the read path.
LEMMA DmReadEffects ==
  ASSUME MachineInv, DmRead
  PROVE  /\ UNCHANGED << DIAG_CTRL_IN, testVars, wrVars, memory, mem, dmWr, dmWrSts >>
         /\ In("RD", "DATA") /\ soMemRdCmdP0 = << Cur >> /\ dmRd \in 0..(T - 1)
         /\ Cur + dmRd \in Addrs
         /\ Taken + Len(siMemReadP0) = dmRd /\ Taken' = Taken
         /\ siMemReadP0' = Append(siMemReadP0, [tdata |-> Load(Cur + dmRd), tlast |-> dmRd + 1 = T])
         /\ IF dmRd + 1 = T THEN soMemRdCmdP0' = << >> /\ dmRd' = 0
            ELSE soMemRdCmdP0' = << Cur >> /\ dmRd' = dmRd + 1
<1> USE Bounds
<1>1. UNCHANGED << DIAG_CTRL_IN, testVars, wrVars, memory, mem, dmWr, dmWrSts >>
  BY DEF DmRead
<1>2. In("RD", "DATA")
  BY DEF DmRead, MachineInv, InvRead
<1>3. soMemRdCmdP0 = << Cur >> /\ dmRd \in 0..(T - 1)
  BY <1>2 DEF DmRead, MachineInv, InvRead
<1>4. Cur + dmRd \in Addrs
  BY <1>2, <1>3, Busy DEF In
<1>5. (dmRd = TRANSFERS_PER_CHUNK - 1) <=> dmRd + 1 = T
  BY <1>3
<1>6. Head(soMemRdCmdP0) = Cur /\ Tail(soMemRdCmdP0) = << >>
  BY <1>3
<1>7. siMemReadP0' = Append(siMemReadP0, [tdata |-> Load(Cur + dmRd), tlast |-> dmRd + 1 = T])
  BY <1>5, <1>6 DEF DmRead
<1>8. IF dmRd + 1 = T THEN soMemRdCmdP0' = << >> /\ dmRd' = 0
      ELSE soMemRdCmdP0' = << Cur >> /\ dmRd' = dmRd + 1
  BY <1>3, <1>5, <1>6 DEF DmRead, Dequeue
<1>9. Len(siMemReadP0') = Len(siMemReadP0) + 1 /\ Len(siMemReadP0) \in Nat
  BY <1>7 DEF MachineInv, InvMem
<1>10. Taken = dmRd - Len(siMemReadP0)
  <2>1. soMemRdCmdP0 # << >>
    BY <1>3
  <2> QED BY <2>1 DEF Taken
<1>11. Taken' = (IF dmRd + 1 = T THEN T ELSE dmRd + 1) - Len(siMemReadP0')
  <2>1. << Cur >> # << >>
    OBVIOUS
  <2> QED BY <2>1, <1>8 DEF Taken
<1>12. Taken' = Taken /\ Taken + Len(siMemReadP0) = dmRd
  BY <1>3, <1>9, <1>10, <1>11
<1> QED BY <1>1, <1>2, <1>3, <1>4, <1>7, <1>8, <1>12

LEMMA TestVarsSame ==
  ASSUME UNCHANGED << DIAG_CTRL_IN, testVars >>
  PROVE  /\ InvRegs => InvRegs'
         /\ InvPhase => InvPhase'
         /\ Dir' = Dir /\ Pat' = Pat /\ Part' = Part /\ Cur' = Cur /\ Base' = Base
         /\ In("RD", "DATA")' <=> In("RD", "DATA")
         /\ UNCHANGED << fsmState, testPhase, wasError, timeoutCnt, lastCheckedAddress,
                         currentPatternAdderss, currentMemPattern, patternWriteNum >>
  BY DEF testVars, ctrlVars, InvRegs, InvPhase, Dir, Pat, Part, Cur, Base, In

LEMMA PatternSame ==
  ASSUME UNCHANGED << DIAG_CTRL_IN, testVars >>, InvPattern,
         In("RD", "DATA") => Taken' = Taken
  PROVE  InvPattern'
  BY TestVarsSame DEF InvPattern, In, Complete

LEMMA DmReadMachine ==
  ASSUME MachineInv, DmRead
  PROVE  InvRegs' /\ InvMem' /\ InvPhase' /\ InvRead' /\ InvPattern'
<1> USE Bounds
<1>1. /\ UNCHANGED << DIAG_CTRL_IN, testVars, wrVars, memory, mem, dmWr, dmWrSts >>
      /\ In("RD", "DATA") /\ dmRd \in 0..(T - 1) /\ Cur + dmRd \in Addrs
      /\ Taken + Len(siMemReadP0) = dmRd /\ Taken' = Taken
      /\ siMemReadP0' = Append(siMemReadP0, [tdata |-> Load(Cur + dmRd), tlast |-> dmRd + 1 = T])
      /\ IF dmRd + 1 = T THEN soMemRdCmdP0' = << >> /\ dmRd' = 0
         ELSE soMemRdCmdP0' = << Cur >> /\ dmRd' = dmRd + 1
  BY DmReadEffects
<1>2. siMemReadP0 \in Seq(Chunk) /\ Len(siMemReadP0) \in Nat
  BY DEF MachineInv, InvMem
<1>3. siMemReadP0' \in Seq(Chunk)
  <2>1. Load(Cur + dmRd) \in Words /\ (dmRd + 1 = T) \in BOOLEAN
    BY <1>1, LoadType
  <2>2. [tdata |-> Load(Cur + dmRd), tlast |-> dmRd + 1 = T] \in Chunk
    BY <2>1 DEF Chunk
  <2> QED BY <1>1, <1>2, <2>2
<1>4. InvMem'
  <2>1. dmRd' \in Nat
    BY <1>1
  <2>2. dmRdSts' \in BOOLEAN
    BY DEF DmRead
  <2> QED BY <1>1, <1>3, <2>1, <2>2 DEF MachineInv, InvMem, wrVars
<1>5. InvRegs' /\ InvPhase' /\ InvPattern'
  BY <1>1, TestVarsSame, PatternSame DEF MachineInv
<1>6. InvRead'
  <2>1. In("RD", "DATA")' /\ Cur' = Cur
    BY <1>1, TestVarsSame
  <2>2. \/ soMemRdCmdP0' = << Cur' >> /\ dmRd' \in 0..(T - 1)
        \/ soMemRdCmdP0' = << >> /\ dmRd' = 0
    BY <1>1, <2>1
  <2>3. Taken' \in 0..(T - 1)
    BY <1>1 DEF MachineInv, InvRead
  <2>4. ASSUME NEW i \in 1..Len(siMemReadP0') PROVE siMemReadP0'[i].tlast <=> Taken' + i = T
    <3>1. CASE i \in 1..Len(siMemReadP0)
      BY <1>1, <1>2, <3>1 DEF MachineInv, InvRead
    <3>2. CASE i = Len(siMemReadP0) + 1
      <4>1. siMemReadP0'[i].tlast <=> dmRd + 1 = T
        <5> DEFINE word == [tdata |-> Load(Cur + dmRd), tlast |-> dmRd + 1 = T]
        <5>1. \A x : Append(siMemReadP0, x)[Len(siMemReadP0) + 1] = x
          BY <1>2
        <5>2. siMemReadP0'[i] = word
          BY <1>1, <3>2, <5>1
        <5>3. word.tlast <=> dmRd + 1 = T
          OBVIOUS
        <5> QED BY <5>2, <5>3, Zenon
      <4>2. Taken' + i = dmRd + 1
        BY <1>1, <1>2, <2>3, <3>2
      <4> QED BY <4>1, <4>2
    <3>3. Len(siMemReadP0') = Len(siMemReadP0) + 1
      BY <1>1, <1>2
    <3> QED BY <1>2, <3>1, <3>2, <3>3
  <2> QED BY <2>1, <2>2, <2>3, <2>4 DEF InvRead
<1> QED BY <1>4, <1>5, <1>6

LEMMA MoverMachine ==
  ASSUME MachineInv, DataMover
  PROVE  InvRegs' /\ InvMem' /\ InvPhase' /\ InvRead' /\ InvPattern'
<1> USE Bounds
<1>a. ASSUME UNCHANGED << DIAG_CTRL_IN, testVars, soMemRdCmdP0, siMemReadP0, dmRd >>
      PROVE  InvRegs' /\ InvPhase' /\ InvRead' /\ InvPattern'
  <2>1. Taken' = Taken
    BY <1>a DEF Taken
  <2>2. InvRead'
    BY <1>a, <2>1, TestVarsSame DEF MachineInv, InvRead
  <2> QED BY <1>a, <2>1, <2>2, TestVarsSame, PatternSame DEF MachineInv
<1>1. CASE DmWrite
  <2>1. UNCHANGED << DIAG_CTRL_IN, testVars, soMemRdCmdP0, siMemReadP0, dmRd, dmRdSts, memory >>
    BY <1>1 DEF DmWrite, rdVars
  <2>2. soMemWriteP0 # << >> /\ Head(soMemWriteP0) \in Chunk /\ Tail(soMemWriteP0) \in Seq(Chunk)
    BY <1>1 DEF DmWrite, MachineInv, InvMem
  <2>3. mem' \in [Addrs -> Words]
    BY <1>1, <2>2 DEF DmWrite, MachineInv, InvMem, Chunk
  <2>4. dmWr' \in Nat
    BY <1>1 DEF DmWrite, MachineInv, InvMem
  <2>5. dmWrSts' \in BOOLEAN
    BY <1>1, <2>2 DEF DmWrite, Chunk
  <2>6. soMemWriteP0' \in Seq(Chunk)
    BY <1>1, <2>2 DEF DmWrite, Dequeue
  <2>7. InvMem'
    BY <2>1, <2>3, <2>4, <2>5, <2>6 DEF MachineInv, InvMem
  <2> QED BY <2>1, <2>7, <1>a
<1>2. CASE DmRead
  BY <1>2, DmReadMachine
<1>3. ASSUME NEW sts \in MemStatuses, DmWrStatus(sts) \/ DmRdStatus(sts)
      PROVE  InvRegs' /\ InvMem' /\ InvPhase' /\ InvRead' /\ InvPattern'
  <2>1. UNCHANGED << DIAG_CTRL_IN, testVars, soMemRdCmdP0, siMemReadP0, dmRd, soMemWriteP0,
                     memory, mem, dmWr >>
    BY <1>3 DEF DmWrStatus, DmRdStatus, rdVars, wrVars
  <2>2. dmWrSts' \in BOOLEAN /\ dmRdSts' \in BOOLEAN
    BY <1>3 DEF DmWrStatus, DmRdStatus, MachineInv, InvMem
  <2>3. InvMem'
    BY <2>1, <2>2 DEF MachineInv, InvMem
  <2> QED BY <2>1, <2>3, <1>a
<1> QED BY <1>1, <1>2, <1>3 DEF DataMover

LEMMA ResetMachine == ASSUME MachineInv, Reset PROVE MachineInv'
<1> USE Bounds
<1>1. AddrInv'
  BY AddrStep DEF Next, MachineInv
<1>2. Dir' = "IDLE"
  BY Parts DEF Reset
<1>3. InvRegs'
  <2>1. fsmState' \in FsmState /\ testPhase' \in Phases /\ wasError' \in {0, 1}
    BY StateTypes DEF Reset, Phases
  <2>2. /\ timeoutCnt' \in 0..CYCLES_UNTIL_TIMEOUT /\ currentPatternAdderss' \in Addrs
        /\ currentMemPattern' \in 0..AddrMod /\ patternWriteNum' \in 0..T
    BY DEF Reset
  <2>3. runContiniously' \in BOOLEAN
    BY DEF Reset
  <2>4. UNCHANGED << DIAG_CTRL_IN, DIAG_STAT_OUT >>
    BY DEF Reset
  <2> QED BY <2>1, <2>2, <2>3, <2>4 DEF MachineInv, InvRegs
<1>4. InvMem'
  <2>1. dmRdSts' \in BOOLEAN /\ dmWrSts' \in BOOLEAN
    BY DEF Reset
  <2>2. /\ soMemWriteP0' \in Seq(Chunk) /\ siMemReadP0' \in Seq(Chunk)
        /\ dmRd' \in Nat /\ dmWr' \in Nat
    BY DEF Reset
  <2> QED BY <2>1, <2>2 DEF Reset, MachineInv, InvMem
<1>5. InvPhase' /\ InvRead' /\ InvPattern'
  BY <1>2 DEF Reset, InvPhase, InvRead, InvPattern, In
<1> QED BY <1>1, <1>3, <1>4, <1>5 DEF MachineInv

LEMMA MachineStep == ASSUME MachineInv, [Next]_vars PROVE MachineInv'
<1>0. AddrInv'
  BY AddrStep DEF MachineInv
<1>a. ASSUME UNCHANGED << testVars, wrVars, rdVars, memory, dmVars >>, DIAG_CTRL_IN' \in 0..3
      PROVE  MachineInv'
  <2>1. Dir' = Dir /\ Pat' = Pat /\ Part' = Part /\ Cur' = Cur /\ Base' = Base /\ Taken' = Taken
    BY <1>a DEF testVars, ctrlVars, rdVars, dmVars, Dir, Pat, Part, Cur, Base, Taken
  <2>2. InvRegs' /\ InvMem'
    BY <1>a DEF testVars, ctrlVars, wrVars, rdVars, dmVars, MachineInv, InvRegs, InvMem
  <2>3. InvPhase' /\ InvPattern'
    BY <1>a, <2>1 DEF testVars, ctrlVars, MachineInv, InvPhase, InvPattern, In, Complete
  <2>4. InvRead'
    BY <1>a, <2>1 DEF rdVars, dmVars, MachineInv, InvRead, In
  <2> QED BY <1>0, <2>2, <2>3, <2>4 DEF MachineInv
<1>1. ASSUME NEW c \in CtrlValues, MmioCtrl(c) PROVE MachineInv'
  BY <1>1, <1>a, MemCtrlAssumption DEF MmioCtrl
<1>2. CASE Reset
  BY <1>2, ResetMachine
<1>3. CASE DataMover
  BY <1>0, <1>3, MoverMachine DEF MachineInv
<1>4. CASE Idle
  BY <1>4, IdleMachine
<1>5. CASE WrPatSts \/ WrAntiSts \/ (\E pat \in {"PAT", "ANTI"} : RdSts(pat))
  BY <1>0, <1>5, StsMachine DEF MachineInv
<1>6. ASSUME NEW pat \in {"PAT", "ANTI"},
             WrCmd(pat) \/ WrData(pat) \/ RdCmd(pat) \/ RdData(pat)
               \/ WaitSts("WR", pat, siMemWrStsP0) \/ WaitSts("RD", pat, siMemRdStsP0)
      PROVE  MachineInv'
  BY <1>0, <1>6, WrCmdMachine, WrDataMachine, RdCmdMachine, RdDataMachine, WaitMachine
     DEF MachineInv
<1>7. CASE UNCHANGED vars
  BY <1>7, <1>a DEF vars, MachineInv, InvRegs
<1> QED BY <1>1, <1>2, <1>3, <1>4, <1>5, <1>6, <1>7 DEF Next, Test

\* mem_test_flash.cpp:39-48: the registers keep their widths, for every size of
\* the memory and with statuses as late as they may: no chunk has a word too
\* many, the pattern ends at the top of the memory, and the 33 bits of the
\* addresses are enough.
THEOREM MemTestTypes == Spec => []TypeOK
<1>1. MachineInv => TypeOK
  BY LastChecked, Bounds DEF MachineInv, InvRegs, TypeOK, Phases
<1> QED BY <1>1, MachineInit, MachineStep, PTL DEF Spec

-----------------------------------------------------------------------------
(* The paths to the memory, when no status is late: a write is over before  *)
(* the machine goes on, and what is read is what the memory holds.          *)

Writing == Dir = "WR" /\ Part \in {"DATA", "STS"}

\* The words of a chunk that are written and not yet stored, and its status.
InvWrite ==
  IF Writing
  THEN \/ /\ soMemWrCmdP0 = << Cur >>
          /\ dmWr + Len(soMemWriteP0) = patternWriteNum /\ dmWr < T
          /\ ~dmWrSts /\ siMemWrStsP0 = << >>
          /\ \A i \in 1..Len(soMemWriteP0) :
               /\ soMemWriteP0[i].tdata = Word(Base + dmWr + i, Pat)
               /\ soMemWriteP0[i].tlast <=> dmWr + i = T
       \/ /\ Part = "STS" /\ soMemWrCmdP0 = << >> /\ soMemWriteP0 = << >> /\ dmWr = 0
          /\ \/ dmWrSts /\ siMemWrStsP0 = << >>
             \/ ~dmWrSts /\ \E sts : siMemWrStsP0 = << sts >>
  ELSE /\ soMemWrCmdP0 = << >> /\ soMemWriteP0 = << >> /\ dmWr = 0
       /\ ~dmWrSts /\ siMemWrStsP0 = << >>

\* The words on the read path are those of the chunk, from the first that has
\* not been read.
InvReadData ==
  In("RD", "DATA") =>
    \A i \in 1..Len(siMemReadP0) : siMemReadP0[i].tdata = Load(Cur + Taken + i - 1)

PathInv == MachineInv /\ InvWrite /\ InvReadData

writePath == << soMemWrCmdP0, soMemWriteP0, siMemWrStsP0, dmWr, dmWrSts >>

LEMMA NoTimeout ==
  ASSUME MachineInv, MaxDelay < CYCLES_UNTIL_TIMEOUT, NEW dir, NEW pat, NEW sts,
         WaitSts(dir, pat, sts)
  PROVE  UNCHANGED << wasError, fsmState >>
<1>1. timeoutCnt \in Nat /\ MaxDelay \in Nat /\ CYCLES_UNTIL_TIMEOUT \in Nat
  BY MemTimeAssumption, Bounds DEF MachineInv, InvRegs
<1>2. ~TimedOut
  BY <1>1 DEF WaitSts, TimedOut
<1> QED BY <1>2 DEF WaitSts

\* Outside the states that write nothing is on the write path.
LEMMA WritePathEmpty ==
  ASSUME InvWrite, UNCHANGED writePath, ~Writing, ~Writing'
  PROVE  InvWrite'
  BY DEF InvWrite, writePath

LEMMA WritePathSame ==
  ASSUME InvWrite, UNCHANGED << writePath, Dir, Pat, Part, Cur, Base, patternWriteNum >>
  PROVE  InvWrite'
  BY DEF InvWrite, writePath, Writing

LEMMA IdleWrite == ASSUME PathInv, Idle PROVE InvWrite' /\ InvReadData'
<1>1. UNCHANGED writePath /\ ~Writing
  BY IdleEffects DEF paths, dmVars, wrVars, writePath, Writing, PathInv
<1>2. ~Writing' /\ ~In("RD", "DATA")'
  BY IdleEffects
     DEF In, Writing, IdleResets, IdleStarts, IdleAdvances, IdleStays, IdleGoesOn, Goes, PathInv
<1> QED BY <1>1, <1>2, WritePathEmpty DEF PathInv, InvReadData

LEMMA WrCmdWrite ==
  ASSUME PathInv, NEW pat \in {"PAT", "ANTI"}, WrCmd(pat) PROVE InvWrite' /\ InvReadData'
<1> USE Bounds
<1>1. /\ Dir = "WR" /\ Part = "CMD" /\ Dir' = "WR" /\ Part' = "DATA"
      /\ BusyUnchanged /\ UNCHANGED << soMemWriteP0, siMemWrStsP0 >>
  BY Parts DEF WrCmd
<1>2. soMemWrCmdP0 = << >> /\ soMemWriteP0 = << >> /\ dmWr = 0 /\ ~dmWrSts /\ siMemWrStsP0 = << >>
  BY <1>1 DEF PathInv, InvWrite, Writing
<1>3. soMemWrCmdP0' = << Cur >> /\ patternWriteNum' = 0
  BY <1>2 DEF WrCmd, TransfersAtCmd, Cur
<1>4. Len(soMemWriteP0') = 0
  BY <1>1, <1>2
<1> QED BY <1>1, <1>2, <1>3, <1>4, BusySame DEF InvWrite, Writing, InvReadData, In

LEMMA WrDataWrite ==
  ASSUME PathInv, NEW pat \in {"PAT", "ANTI"}, WrData(pat) PROVE InvWrite' /\ InvReadData'
<1> USE Bounds
<1>0. fsmState' \in {fsmState, << "WR", pat, "STS" >>} /\ fsmState = << "WR", pat, "DATA" >>
  BY DEF WrData
<1>1. Dir = "WR" /\ Pat = pat /\ Part = "DATA" /\ Dir' = "WR" /\ Pat' = pat
      /\ Part' \in {"DATA", "STS"} /\ MachineInv
  BY <1>0, Parts DEF PathInv
<1>2. /\ soMemWrCmdP0 = << Cur >> /\ dmWr + Len(soMemWriteP0) = patternWriteNum /\ dmWr < T
      /\ ~dmWrSts /\ siMemWrStsP0 = << >>
      /\ \A i \in 1..Len(soMemWriteP0) :
           /\ soMemWriteP0[i].tdata = Word(Base + dmWr + i, Pat)
           /\ soMemWriteP0[i].tlast <=> dmWr + i = T
  BY <1>1 DEF PathInv, InvWrite, Writing
<1>3. /\ BusyUnchanged /\ UNCHANGED << soMemWrCmdP0, siMemWrStsP0 >>
      /\ patternWriteNum' = patternWriteNum + 1
  BY DEF WrData
<1>4. currentMemPattern' = Base + patternWriteNum + 1
  BY <1>1 DEF WrData, MachineInv, InvPattern, In
<1> DEFINE word == [tdata |-> Word(currentMemPattern', pat),
                    tlast |-> patternWriteNum = TRANSFERS_PER_CHUNK - 1]
<1>5. soMemWriteP0' = Append(soMemWriteP0, word) /\ soMemWriteP0 \in Seq(Chunk)
  BY <1>1 DEF WrData, MachineInv, InvMem
<1>6. /\ Len(soMemWriteP0) \in Nat /\ dmWr \in Nat /\ patternWriteNum \in Nat
      /\ Base \in Nat
  BY <1>1, <1>5, Busy DEF MachineInv, InvMem, InvRegs
<1>7. word.tdata = Word(currentMemPattern', pat) /\ (word.tlast <=> patternWriteNum + 1 = T)
  <2>1. word.tlast <=> patternWriteNum = TRANSFERS_PER_CHUNK - 1
    OBVIOUS
  <2>2. patternWriteNum = TRANSFERS_PER_CHUNK - 1 <=> patternWriteNum + 1 = T
    BY <1>6
  <2> QED BY <2>1, <2>2
<1> HIDE DEF word
<1>8. /\ Len(soMemWriteP0') = Len(soMemWriteP0) + 1
      /\ soMemWriteP0'[Len(soMemWriteP0) + 1] = word
      /\ \A i \in 1..Len(soMemWriteP0) : soMemWriteP0'[i] = soMemWriteP0[i]
  BY <1>5, <1>6
<1>9. ASSUME NEW i \in 1..Len(soMemWriteP0')
      PROVE  /\ soMemWriteP0'[i].tdata = Word(Base + dmWr + i, pat)
             /\ soMemWriteP0'[i].tlast <=> dmWr + i = T
  <2>1. CASE i \in 1..Len(soMemWriteP0)
    BY <1>1, <1>2, <1>8, <2>1
  <2>2. CASE i = Len(soMemWriteP0) + 1
    <3>1. dmWr + i = patternWriteNum + 1 /\ currentMemPattern' = Base + dmWr + i
      <4>1. dmWr + i = patternWriteNum + 1
        BY <1>2, <1>6, <2>2
      <4>2. Base + patternWriteNum + 1 = Base + (patternWriteNum + 1)
        BY <1>6
      <4>3. Base + (dmWr + i) = Base + dmWr + i
        BY <1>6, <2>2
      <4> QED BY <1>4, <4>1, <4>2, <4>3
    <3> QED BY <1>7, <1>8, <2>2, <3>1
  <2> QED BY <1>6, <1>8, <2>1, <2>2
<1>10. InvWrite'
  <2>1. dmWr' + Len(soMemWriteP0') = patternWriteNum'
    BY <1>2, <1>3, <1>6, <1>8, BusySame
  <2> QED BY <1>1, <1>2, <1>3, <1>9, <2>1, BusySame DEF InvWrite, Writing
<1> QED BY <1>1, <1>10 DEF InvReadData, In

LEMMA StsWrite ==
  ASSUME PathInv, WrPatSts \/ WrAntiSts \/ (\E pat \in {"PAT", "ANTI"} : RdSts(pat))
  PROVE  InvWrite' /\ InvReadData'
<1>1. /\ MachineInv /\ Part = "STS" /\ BusyUnchanged
      /\ UNCHANGED << soMemWrCmdP0, soMemWriteP0 >>
      /\ Dir' = "IDLE" \/ Part' = "CMD"
  BY StsEffects DEF PathInv
<1>2. CASE WrPatSts \/ WrAntiSts
  <2>1. Dir = "WR" /\ siMemWrStsP0 # << >> /\ siMemWrStsP0' = Tail(siMemWrStsP0)
    BY <1>2, Parts DEF WrPatSts, WrAntiSts, Dequeue
  <2>2. /\ soMemWrCmdP0 = << >> /\ soMemWriteP0 = << >> /\ dmWr = 0 /\ ~dmWrSts
        /\ \E sts : siMemWrStsP0 = << sts >>
    BY <1>1, <2>1 DEF PathInv, InvWrite, Writing
  <2>3. siMemWrStsP0' = << >>
    BY <2>1, <2>2
  <2> QED BY <1>1, <2>2, <2>3, BusySame DEF InvWrite, Writing, InvReadData, In
<1>3. CASE \E pat \in {"PAT", "ANTI"} : RdSts(pat)
  <2>1. Dir = "RD" /\ UNCHANGED siMemWrStsP0
    BY <1>3, Parts DEF RdSts, wrVars
  <2> QED BY <1>1, <2>1, BusySame DEF PathInv, InvWrite, Writing, InvReadData, In
<1> QED BY <1>2, <1>3

LEMMA RdWrite ==
  ASSUME PathInv, NEW pat \in {"PAT", "ANTI"}, RdCmd(pat) \/ RdData(pat)
  PROVE  InvWrite' /\ InvReadData'
<1> USE Bounds
<1>1. MachineInv /\ BusyUnchanged /\ UNCHANGED wrVars /\ Dir = "RD" /\ Dir' = "RD"
  BY Parts, RdDataEffects DEF PathInv, RdCmd, In
<1>2. InvWrite'
  BY <1>1, BusySame, WritePathEmpty DEF PathInv, Writing, wrVars, writePath
<1>3. CASE RdCmd(pat)
  <2>1. siMemReadP0' = << >>
    BY <1>3, Parts DEF RdCmd, PathInv, MachineInv, InvRead, In
  <2> QED BY <1>2, <2>1 DEF InvReadData
<1>4. CASE RdData(pat)
  <2>1. /\ In("RD", "DATA") /\ siMemReadP0 # << >> /\ siMemReadP0' = Tail(siMemReadP0)
        /\ Taken \in 0..(T - 1) /\ Taken' = Taken + 1 /\ siMemReadP0 \in Seq(Chunk)
        /\ Cur \in Nat
    BY <1>1, <1>4, RdDataEffects, Busy DEF MachineInv, InvMem, In
  <2>2. ASSUME NEW i \in 1..Len(siMemReadP0')
        PROVE  siMemReadP0'[i].tdata = Load(Cur + Taken + i - 1)'
    <3>1. /\ i + 1 \in 1..Len(siMemReadP0) /\ siMemReadP0'[i] = siMemReadP0[i + 1]
          /\ i \in Nat
      BY <2>1
    <3>2. siMemReadP0[i + 1].tdata = Load(Cur + Taken + (i + 1) - 1)
      BY <2>1, <3>1 DEF PathInv, InvReadData
    <3>3. Cur + Taken + (i + 1) - 1 = Cur + Taken' + i - 1
      BY <2>1, <3>1
    <3>4. Load(Cur + Taken + i - 1)' = Load(Cur + Taken' + i - 1)
      BY <1>1, BusySame DEF Load
    <3> QED BY <3>1, <3>2, <3>3, <3>4
  <2>3. InvReadData'
    BY <1>1, <2>2, BusySame DEF InvReadData
  <2> QED BY <1>2, <2>3
<1> QED BY <1>3, <1>4

LEMMA WaitPath ==
  ASSUME PathInv, MaxDelay < CYCLES_UNTIL_TIMEOUT,
         NEW dir \in {"WR", "RD"}, NEW pat \in {"PAT", "ANTI"}, NEW sts, WaitSts(dir, pat, sts)
  PROVE  InvWrite' /\ InvReadData'
<1>1. UNCHANGED fsmState /\ Part = "STS"
  BY NoTimeout, Parts DEF PathInv, WaitSts
<1>2. BusyUnchanged /\ UNCHANGED << wrVars, patternWriteNum >>
  BY DEF WaitSts
<1>3. UNCHANGED << writePath, Dir, Pat, Part, Cur, Base, patternWriteNum >>
  BY <1>1, <1>2, Parts, BusySame DEF writePath, wrVars
<1> QED BY <1>1, <1>3, WritePathSame DEF PathInv, InvReadData, In

\* A word is stored: which, where, and what that leaves.
LEMMA DmWriteEffects ==
  ASSUME PathInv, DmWrite
  PROVE  /\ UNCHANGED << DIAG_CTRL_IN, testVars, siMemWrStsP0, rdVars, memory, dmRd, dmRdSts >>
         /\ Writing /\ soMemWrCmdP0 = << Cur >> /\ dmWr \in 0..(T - 1) /\ Cur + dmWr \in Addrs
         /\ mem' = [mem EXCEPT ![memory.cellOf[Cur + dmWr]] = Word(Base + dmWr + 1, Pat)]
         /\ soMemWriteP0 # << >> /\ soMemWriteP0' = Tail(soMemWriteP0)
         /\ IF dmWr + 1 = T
            THEN /\ Part = "STS" /\ soMemWrCmdP0' = << >> /\ soMemWriteP0' = << >>
                 /\ dmWr' = 0 /\ dmWrSts'
            ELSE soMemWrCmdP0' = << Cur >> /\ dmWr' = dmWr + 1 /\ ~dmWrSts'
<1> USE Bounds
<1>0. UNCHANGED << DIAG_CTRL_IN, testVars, siMemWrStsP0, rdVars, memory, dmRd, dmRdSts >>
  BY DEF DmWrite
<1>1. soMemWrCmdP0 # << >> /\ soMemWriteP0 # << >>
  BY DEF DmWrite
<1>2. /\ Writing /\ soMemWrCmdP0 = << Cur >> /\ dmWr + Len(soMemWriteP0) = patternWriteNum
      /\ dmWr < T /\ dmWr \in Nat
      /\ \A i \in 1..Len(soMemWriteP0) :
           /\ soMemWriteP0[i].tdata = Word(Base + dmWr + i, Pat)
           /\ soMemWriteP0[i].tlast <=> dmWr + i = T
  BY <1>1 DEF PathInv, InvWrite, MachineInv, InvMem
<1>3. /\ soMemWriteP0 \in Seq(Chunk) /\ Len(soMemWriteP0) \in Nat /\ Len(soMemWriteP0) > 0
      /\ Head(soMemWriteP0) = soMemWriteP0[1]
  BY <1>1 DEF PathInv, MachineInv, InvMem
<1>4. /\ Head(soMemWriteP0).tdata = Word(Base + dmWr + 1, Pat)
      /\ Head(soMemWriteP0).tlast <=> dmWr + 1 = T
  BY <1>2, <1>3
<1>5. Head(soMemWrCmdP0) = Cur /\ Tail(soMemWrCmdP0) = << >>
  BY <1>2
<1>6. mem' = [mem EXCEPT ![memory.cellOf[Cur + dmWr]] = Word(Base + dmWr + 1, Pat)]
  BY <1>4, <1>5 DEF DmWrite
<1>7. soMemWriteP0' = Tail(soMemWriteP0)
  BY DEF DmWrite, Dequeue
<1>8. Cur + dmWr \in Addrs
  BY <1>2, Busy DEF Writing, PathInv
<1>9. CASE dmWr + 1 = T
  <2>1. patternWriteNum \in 0..T /\ patternWriteNum = T
    BY <1>2, <1>3, <1>9 DEF PathInv, MachineInv, InvRegs
  <2>2. Part = "STS"
    BY <1>2, <2>1 DEF Writing, PathInv, MachineInv, InvPattern, In
  <2>3. Len(soMemWriteP0) = 1
    BY <1>2, <1>3, <1>9, <2>1
  <2>4. soMemWriteP0' = << >>
    BY <1>3, <1>7, <2>3
  <2>5. soMemWrCmdP0' = << >> /\ dmWr' = 0 /\ dmWrSts'
    BY <1>4, <1>5, <1>9 DEF DmWrite, Dequeue
  <2> QED BY <1>0, <1>1, <1>2, <1>6, <1>7, <1>8, <1>9, <2>2, <2>4, <2>5
<1>10. CASE dmWr + 1 # T
  <2>1. soMemWrCmdP0' = << Cur >> /\ dmWr' = dmWr + 1 /\ ~dmWrSts'
    BY <1>2, <1>4, <1>10 DEF DmWrite
  <2> QED BY <1>0, <1>1, <1>2, <1>6, <1>7, <1>8, <1>10, <2>1
<1> QED BY <1>9, <1>10

LEMMA DmWriteWrite == ASSUME PathInv, DmWrite PROVE InvWrite'
<1> USE Bounds
<1>1. /\ Writing /\ soMemWrCmdP0 = << Cur >> /\ dmWr \in 0..(T - 1)
      /\ dmWr + Len(soMemWriteP0) = patternWriteNum /\ siMemWrStsP0 = << >>
      /\ \A i \in 1..Len(soMemWriteP0) :
           /\ soMemWriteP0[i].tdata = Word(Base + dmWr + i, Pat)
           /\ soMemWriteP0[i].tlast <=> dmWr + i = T
  BY DmWriteEffects DEF PathInv, InvWrite
<1>2. /\ Writing' /\ Dir' = Dir /\ Pat' = Pat /\ Part' = Part /\ Cur' = Cur /\ Base' = Base
      /\ UNCHANGED << patternWriteNum, siMemWrStsP0 >>
      /\ Base \in Nat
  BY <1>1, DmWriteEffects, TestVarsSame, Busy DEF Writing, PathInv
<1>3. CASE dmWr + 1 = T
  <2>1. /\ Part = "STS" /\ soMemWrCmdP0' = << >> /\ soMemWriteP0' = << >>
        /\ dmWr' = 0 /\ dmWrSts'
    BY <1>3, DmWriteEffects
  <2> QED BY <1>1, <1>2, <2>1 DEF InvWrite
<1>4. CASE dmWr + 1 # T
  <2>1. /\ soMemWrCmdP0' = << Cur >> /\ dmWr' = dmWr + 1 /\ ~dmWrSts'
        /\ soMemWriteP0 # << >> /\ soMemWriteP0' = Tail(soMemWriteP0)
        /\ soMemWriteP0 \in Seq(Chunk)
    BY <1>4, DmWriteEffects DEF PathInv, MachineInv, InvMem
  <2>2. Len(soMemWriteP0') = Len(soMemWriteP0) - 1 /\ Len(soMemWriteP0) \in Nat
    BY <2>1
  <2>3. dmWr' + Len(soMemWriteP0') = patternWriteNum' /\ dmWr' < T
    BY <1>1, <1>2, <1>4, <2>1, <2>2
  <2>4. ASSUME NEW i \in 1..Len(soMemWriteP0')
        PROVE  /\ soMemWriteP0'[i].tdata = Word(Base + dmWr' + i, Pat)
               /\ soMemWriteP0'[i].tlast <=> dmWr' + i = T
    <3>1. i \in Nat /\ i + 1 \in 1..Len(soMemWriteP0) /\ soMemWriteP0'[i] = soMemWriteP0[i + 1]
      BY <2>1, <2>2
    <3>2. dmWr + (i + 1) = dmWr' + i /\ Base + dmWr + (i + 1) = Base + dmWr' + i
      BY <1>1, <1>2, <2>1, <3>1
    <3>3. /\ soMemWriteP0[i + 1].tdata = Word(Base + dmWr + (i + 1), Pat)
          /\ soMemWriteP0[i + 1].tlast <=> dmWr + (i + 1) = T
      BY <1>1, <3>1
    <3> QED BY <3>1, <3>2, <3>3
  <2> QED BY <1>1, <1>2, <2>1, <2>3, <2>4 DEF InvWrite
<1> QED BY <1>3, <1>4

LEMMA MoverPath == ASSUME PathInv, DataMover PROVE InvWrite' /\ InvReadData'
<1> USE Bounds
<1>1. CASE DmWrite
  <2>1. ~In("RD", "DATA")'
    BY <1>1, DmWriteEffects, TestVarsSame DEF Writing, In
  <2> QED BY <1>1, <2>1, DmWriteWrite DEF InvReadData
<1>2. CASE DmRead
  <2>1. /\ UNCHANGED << DIAG_CTRL_IN, testVars, wrVars, memory, mem, dmWr, dmWrSts >>
        /\ dmRd \in 0..(T - 1) /\ Taken + Len(siMemReadP0) = dmRd /\ Taken' = Taken
        /\ siMemReadP0' = Append(siMemReadP0, [tdata |-> Load(Cur + dmRd), tlast |-> dmRd + 1 = T])
        /\ In("RD", "DATA") /\ siMemReadP0 \in Seq(Chunk)
    BY <1>2, DmReadEffects DEF PathInv, MachineInv, InvMem
  <2>2. UNCHANGED << writePath, Dir, Pat, Part, Cur, Base, patternWriteNum >>
    BY <2>1, TestVarsSame DEF writePath, wrVars
  <2>3. InvWrite'
    BY <2>2, WritePathSame DEF PathInv
  <2>4. /\ Cur \in Nat /\ Taken \in 0..(T - 1)
        /\ \A i \in 1..Len(siMemReadP0) : siMemReadP0[i].tdata = Load(Cur + Taken + i - 1)
    BY <2>1, Busy DEF PathInv, MachineInv, InvRead, InvReadData, In
  <2>5. /\ Len(siMemReadP0) \in Nat /\ Len(siMemReadP0') = Len(siMemReadP0) + 1
        /\ siMemReadP0'[Len(siMemReadP0) + 1].tdata = Load(Cur + dmRd)
        /\ \A i \in 1..Len(siMemReadP0) : siMemReadP0'[i] = siMemReadP0[i]
    <3> DEFINE word == [tdata |-> Load(Cur + dmRd), tlast |-> dmRd + 1 = T]
    <3>1. word.tdata = Load(Cur + dmRd) /\ siMemReadP0' = Append(siMemReadP0, word)
      BY <2>1
    <3> HIDE DEF word
    <3> QED BY <2>1, <3>1
  <2>6. Cur + dmRd = Cur + Taken + (Len(siMemReadP0) + 1) - 1
    <3>1. \A c, t, l \in Nat : c + (t + l) = c + t + (l + 1) - 1
      OBVIOUS
    <3>2. Taken \in Nat /\ dmRd = Taken + Len(siMemReadP0)
      BY <2>1, <2>4
    <3> QED BY <2>4, <2>5, <3>1, <3>2
  <2>7. ASSUME NEW i \in 1..Len(siMemReadP0')
        PROVE  siMemReadP0'[i].tdata = Load(Cur + Taken + i - 1)
    <3>1. i \in 1..Len(siMemReadP0) \/ i = Len(siMemReadP0) + 1
      BY <2>5
    <3> QED BY <2>4, <2>5, <2>6, <3>1
  <2>8. ASSUME NEW i \in 1..Len(siMemReadP0')
        PROVE  Load(Cur + Taken + i - 1)' = Load(Cur + Taken + i - 1)
    BY <2>1, <2>2 DEF Load
  <2>9. InvReadData'
    BY <2>7, <2>8 DEF InvReadData
  <2> QED BY <2>3, <2>9
<1>3. ASSUME NEW sts \in MemStatuses, DmWrStatus(sts) \/ DmRdStatus(sts)
      PROVE  InvWrite' /\ InvReadData'
  <2>1. UNCHANGED << DIAG_CTRL_IN, testVars, soMemRdCmdP0, siMemReadP0, dmRd, soMemWrCmdP0,
                     soMemWriteP0, memory, mem, dmWr >>
    BY <1>3 DEF DmWrStatus, DmRdStatus, rdVars, wrVars
  <2>2. /\ UNCHANGED << Dir, Pat, Part, Cur, Base, patternWriteNum, Taken >>
        /\ In("RD", "DATA")' <=> In("RD", "DATA")
    BY <2>1, TestVarsSame DEF Taken
  <2>3. InvReadData'
    BY <2>1, <2>2 DEF PathInv, InvReadData, Load
  <2>4. CASE DmRdStatus(sts)
    <3>1. UNCHANGED writePath
      BY <2>4 DEF DmRdStatus, wrVars, writePath
    <3>2. UNCHANGED << writePath, Dir, Pat, Part, Cur, Base, patternWriteNum >>
      BY <2>2, <3>1
    <3> QED BY <2>3, <3>2, WritePathSame DEF PathInv
  <2>5. CASE DmWrStatus(sts)
    <3>1. /\ dmWrSts /\ ~dmWrSts' /\ siMemWrStsP0' = Append(siMemWrStsP0, sts)
      BY <2>5 DEF DmWrStatus
    <3>2. /\ Writing /\ Part = "STS" /\ soMemWrCmdP0 = << >> /\ soMemWriteP0 = << >> /\ dmWr = 0
          /\ siMemWrStsP0 = << >>
      BY <3>1 DEF PathInv, InvWrite
    <3>3. siMemWrStsP0' = << sts >>
      BY <3>1, <3>2
    <3> QED BY <2>1, <2>2, <2>3, <3>1, <3>2, <3>3 DEF InvWrite, Writing
  <2> QED BY <1>3, <2>3, <2>4, <2>5
<1> QED BY <1>1, <1>2, <1>3 DEF DataMover

LEMMA PathInit == ASSUME Init PROVE PathInv
<1>1. Dir = "IDLE"
  BY Parts DEF Init
<1> QED BY <1>1, MachineInit DEF Init, PathInv, InvWrite, InvReadData, Writing, In

LEMMA PathStep ==
  ASSUME PathInv, [Next]_vars, MaxDelay < CYCLES_UNTIL_TIMEOUT
  PROVE  PathInv'
<1>0. MachineInv'
  BY MachineStep DEF PathInv
<1> SUFFICES InvWrite' /\ InvReadData'
  BY <1>0 DEF PathInv
<1>a. ASSUME UNCHANGED << testVars, wrVars, rdVars, memory, dmVars >>
      PROVE  InvWrite' /\ InvReadData'
  <2>1. /\ Dir' = Dir /\ Pat' = Pat /\ Part' = Part /\ Cur' = Cur /\ Base' = Base
        /\ Taken' = Taken /\ UNCHANGED << writePath, patternWriteNum, siMemReadP0, memory, mem >>
    BY <1>a DEF testVars, ctrlVars, rdVars, wrVars, dmVars, Dir, Pat, Part, Cur, Base, Taken,
                writePath
  <2> QED BY <2>1, WritePathSame DEF PathInv, InvReadData, In, Load
<1>1. CASE (\E c \in CtrlValues : MmioCtrl(c)) \/ UNCHANGED vars
  BY <1>1, <1>a DEF MmioCtrl, vars
<1>2. CASE Reset
  <2>1. Dir' = "IDLE"
    BY <1>2, Parts DEF Reset
  <2> QED BY <1>2, <2>1 DEF Reset, InvWrite, InvReadData, Writing, In
<1>3. CASE DataMover
  BY <1>3, MoverPath
<1>4. CASE Idle
  BY <1>4, IdleWrite
<1>5. CASE WrPatSts \/ WrAntiSts \/ (\E pat \in {"PAT", "ANTI"} : RdSts(pat))
  BY <1>5, StsWrite
<1>6. ASSUME NEW pat \in {"PAT", "ANTI"},
             WrCmd(pat) \/ WrData(pat) \/ RdCmd(pat) \/ RdData(pat)
               \/ WaitSts("WR", pat, siMemWrStsP0) \/ WaitSts("RD", pat, siMemRdStsP0)
      PROVE  InvWrite' /\ InvReadData'
  BY <1>6, WrCmdWrite, WrDataWrite, RdWrite, WaitPath
<1> QED BY <1>1, <1>2, <1>3, <1>4, <1>5, <1>6 DEF Next, Test

\* mem_test_flash.cpp:247-275: the status that ends a write is the one of that
\* write, so a chunk is read back only after its words are stored, whatever
\* the sizes, if no status comes after the timeout.
THEOREM ReadsOwnWrites ==
  ASSUME MaxDelay < CYCLES_UNTIL_TIMEOUT
  PROVE  Spec => []WrittenBeforeRead
<1>1. PathInv => WrittenBeforeRead
  BY DEF PathInv, InvWrite, Writing, WrittenBeforeRead, Dir
<1>2. PathInv /\ [Next]_vars => PathInv'
  BY PathStep
<1> QED BY <1>1, <1>2, PathInit, PTL DEF Spec

-----------------------------------------------------------------------------
(* The verdicts, when no status is late: what is stored of a sound memory,  *)
(* and what the words that were read say of any memory.                     *)

Store(a) == mem[memory.cellOf[a]]
Ramp(a) == Word(a + 1, "PAT")
Stuck(a) == a \in DOMAIN memory.stuck
InRamp == testPhase = "PHASE_RAMP_WRITE"
InCheck == testPhase = "PHASE_RAMP_READ"
InStress == testPhase = "PHASE_STRESS"

\* The phase is over with the addresses below Done, the chunk under test has
\* its first Stored words in the memory, and RdData has read Seen of them.
Done == IF Dir = "IDLE"
        THEN (IF lastCheckedAddress = MEM_START_ADDR THEN 0 ELSE lastCheckedAddress + 1)
        ELSE Cur
Stored == IF soMemWrCmdP0 = << >> THEN T ELSE dmWr
Seen == IF Dir # "RD" \/ Part = "CMD" THEN 0 ELSE IF Part = "DATA" THEN Taken ELSE T

RampStored == InRamp => \A a \in Addrs : a < Done => Store(a) = Ramp(a)
RampKept == InCheck => \A a \in Addrs : Store(a) = Ramp(a)
ChunkStored == Writing => \A i \in 0..(Stored - 1) : Store(Cur + i) = Word(Base + i + 1, Pat)
ChunkKept ==
  Dir = "RD" /\ InStress => \A i \in 0..(T - 1) : Store(Cur + i) = Word(i + 1, Pat)

\* A sound memory: what was written is what is stored, and no error is seen.
InvStore == ~Faulty => wasError = 0 /\ RampStored /\ RampKept /\ ChunkStored /\ ChunkKept

\* What the words that were read say of the addresses they were read from: the
\* ramp that two live words do not share a cell; the pattern and its complement
\* that a word does not keep its value.
NoSharing ==
  \A a, b \in Addrs \ DOMAIN memory.stuck : a # b => memory.cellOf[a] # memory.cellOf[b]
RampSeen == InCheck => \A a \in Addrs : a < Done + Seen => Load(a) = Ramp(a)
NoneStuck == InStress => \A a \in Addrs : a < Done => ~Stuck(a)
ChunkSeen ==
  InStress /\ Dir # "IDLE" =>
    \A i \in 0..(T - 1) :
      /\ (Pat = "ANTI" \/ i < Seen) /\ Stuck(Cur + i) => Load(Cur + i) = Word(i + 1, "PAT")
      /\ Pat = "ANTI" /\ i < Seen => ~Stuck(Cur + i)

InvPass == wasError = 0 => RampSeen /\ (InStress => NoSharing) /\ NoneStuck /\ ChunkSeen

-----------------------------------------------------------------------------
\* A sound memory gives back what is stored, and has a cell for every address.
LEMMA SoundMemory ==
  ASSUME ~Faulty
  PROVE  /\ \A a : Load(a) = Store(a)
         /\ \A a, b \in Addrs : memory.cellOf[a] = memory.cellOf[b] => a = b
  BY DEF Faulty, Load, Store

LEMMA MemorySame ==
  ASSUME UNCHANGED memory
  PROVE  Faulty' = Faulty /\ NoSharing' = NoSharing /\ \A a : Stuck(a)' = Stuck(a)
  BY DEF Faulty, NoSharing, Stuck

LEMMA CellsSame ==
  ASSUME UNCHANGED << memory, mem >>
  PROVE  \A a : Load(a)' = Load(a) /\ Store(a)' = Store(a)
  BY DEF Load, Store

LEMMA Distinct ==
  /\ \A a, b \in Nat : Ramp(a) = Ramp(b) => a = b
  /\ \A n : Word(n, "PAT") # Word(n, "ANTI")
<1>1. ASSUME NEW a \in Nat, NEW b \in Nat, Ramp(a) = Ramp(b) PROVE a = b
  <2>1. Ramp(a).n = a + 1 /\ Ramp(b).n = b + 1
    BY DEF Ramp, Word
  <2> QED BY <1>1, <2>1
<1>2. ASSUME NEW n PROVE Word(n, "PAT") # Word(n, "ANTI")
  <2>1. Word(n, "PAT").anti = TRUE \/ Word(n, "PAT").anti = FALSE
    BY DEF Word
  <2>2. Word(n, "PAT").anti = ("PAT" = "ANTI") /\ Word(n, "ANTI").anti = ("ANTI" = "ANTI")
    BY DEF Word
  <2> QED BY <2>1, <2>2
<1> QED BY <1>1, <1>2

\* At the end of a phase it has gone over every address.
LEMMA CompleteIsAll ==
  ASSUME MachineInv, Dir = "IDLE", testPhase # "PHASE_IDLE", Complete
  PROVE  Done = AddrMod
<1> USE Bounds
<1>1. /\ lastCheckedAddress # 0 /\ lastCheckedAddress >= MEM_END_ADDR
      /\ lastCheckedAddress \in {0} \cup {s + T - 1 : s \in ChunkStarts}
  BY DEF Complete, MachineInv, InvPhase
<1>2. PICK s \in ChunkStarts : lastCheckedAddress = s + T - 1
  BY <1>1
<1>3. PICK k \in 0..(NumChunks - 1) : s = k * CHECK_CHUNK_SIZE
  BY DEF ChunkStarts
<1>4. s \in Nat /\ (k + 1) * CHECK_CHUNK_SIZE = s + T
  BY <1>3, Sizes, TimesNext
<1>5. ~(k + 1 <= NumChunks - 1)
  <2> SUFFICES ASSUME k + 1 <= NumChunks - 1 PROVE FALSE
    OBVIOUS
  <2>1. s + T <= MEM_END_ADDR
    BY <1>4, Sizes, TimesMonotone DEF MEM_END_ADDR
  <2> QED BY <1>1, <1>2, <1>4, <2>1
<1>6. k = NumChunks - 1
  BY <1>5, Sizes
<1>7. s = MEM_END_ADDR
  BY <1>3, <1>6 DEF MEM_END_ADDR
<1> QED BY <1>1, <1>2, <1>7 DEF Done

-----------------------------------------------------------------------------
\* A sound memory, step by step.
LEMMA StoreSame ==
  ASSUME InvStore,
         UNCHANGED << memory, mem, wasError, testPhase, lastCheckedAddress, Dir, Pat, Part, Cur,
                      Base, Stored >>
  PROVE  InvStore'
<1>1. /\ Faulty' = Faulty /\ Done' = Done /\ InRamp' = InRamp /\ InCheck' = InCheck
      /\ InStress' = InStress /\ Writing' = Writing /\ Stored' = Stored
      /\ \A a : Store(a)' = Store(a)
  BY MemorySame, CellsSame DEF Done, InRamp, InCheck, InStress, Writing
<1>2. ASSUME ~Faulty
      PROVE  wasError' = 0 /\ RampStored' /\ RampKept' /\ ChunkStored' /\ ChunkKept'
  BY <1>1, <1>2 DEF InvStore, RampStored, RampKept, ChunkStored, ChunkKept
<1> QED BY <1>1, <1>2 DEF InvStore

LEMMA IdleStore == ASSUME PathInv, InvStore, Idle PROVE InvStore'
<1> USE Bounds
<1>0. MachineInv /\ Dir = "IDLE" /\ UNCHANGED << memory, mem >> /\ ~Writing'
  BY IdleEffects
     DEF PathInv, paths, dmVars, Writing, IdleResets, IdleStarts, IdleAdvances, IdleStays,
         IdleGoesOn, Goes
<1>1. Faulty' = Faulty /\ \A a : Store(a)' = Store(a)
  BY <1>0, MemorySame, CellsSame
<1> SUFFICES ASSUME ~Faulty
             PROVE  wasError' = 0 /\ RampStored' /\ RampKept' /\ ChunkKept'
  BY <1>0, <1>1 DEF InvStore, ChunkStored
<1>2. wasError = 0 /\ RampStored /\ RampKept
  BY DEF InvStore
<1>3. \A a \in Addrs : ~(a < 0) /\ a < AddrMod
  OBVIOUS
<1>4. CASE IdleResets
  <2>1. Done' = 0
    BY <1>4 DEF IdleResets, Done
  <2> QED BY <1>1, <1>2, <1>3, <1>4, <2>1
          DEF IdleResets, RampStored, RampKept, ChunkKept, InRamp, InCheck
<1>5. CASE IdleStarts
  <2>1. Done' = 0 /\ Dir' = "WR"
    BY <1>5 DEF IdleStarts, Done, Goes
  <2> QED BY <1>3, <1>5, <2>1 DEF IdleStarts, RampStored, RampKept, ChunkKept, InCheck
<1>6. CASE IdleAdvances
  <2>1. Done' = 0 /\ Dir' = (IF testPhase' = "PHASE_RAMP_READ" THEN "RD" ELSE "WR")
    BY <1>2, <1>6 DEF IdleAdvances, Done, Goes
  <2>2. InCheck' => \A a \in Addrs : Store(a) = Ramp(a)
    <3>1. InCheck' => testPhase = "PHASE_RAMP_WRITE" /\ Done = AddrMod
      BY <1>0, <1>6, CompleteIsAll DEF IdleAdvances, InCheck
    <3> QED BY <1>2, <1>3, <3>1 DEF RampStored, InRamp
  <2> QED BY <1>1, <1>2, <1>3, <1>6, <2>1, <2>2
          DEF IdleAdvances, RampStored, RampKept, ChunkKept, InCheck, InStress
<1>7. CASE IdleStays
  <2>1. Done' = Done
    BY <1>0, <1>7 DEF IdleStays, Done
  <2> QED BY <1>1, <1>2, <1>7, <2>1
          DEF IdleStays, RampStored, RampKept, ChunkKept, InRamp, InCheck
<1>8. CASE IdleGoesOn
  <2>1. Done' = Done
    BY <1>0, <1>8 DEF IdleGoesOn, Done, Goes
  <2> QED BY <1>1, <1>2, <1>8, <2>1
          DEF IdleGoesOn, Goes, RampStored, RampKept, ChunkKept, InRamp, InCheck, InStress
<1> QED BY <1>0, <1>4, <1>5, <1>6, <1>7, <1>8, IdleEffects

\* What a step of the machine in a chunk leaves alone.
LEMMA BusyStore ==
  ASSUME MachineInv, InvStore, BusyUnchanged, UNCHANGED << wasError, Pat >>, Dir # "IDLE",
         Dir' = Dir
  PROVE  /\ Faulty' = Faulty /\ \A a : Store(a)' = Store(a)
         /\ ~Faulty => wasError' = 0 /\ RampStored' /\ RampKept' /\ ChunkKept'
<1>1. /\ Faulty' = Faulty /\ \A a : Store(a)' = Store(a)
      /\ Done' = Done /\ Cur' = Cur
      /\ InRamp' = InRamp /\ InCheck' = InCheck /\ InStress' = InStress
  BY BusySame, MemorySame, CellsSame DEF Done, InRamp, InCheck, InStress
<1> QED BY <1>1 DEF InvStore, RampStored, RampKept, ChunkKept

LEMMA WriteStore ==
  ASSUME PathInv, InvStore, NEW pat \in {"PAT", "ANTI"}, WrCmd(pat) \/ WrData(pat)
  PROVE  InvStore'
<1> USE Bounds
<1>1. /\ MachineInv /\ BusyUnchanged /\ UNCHANGED << wasError, Pat >> /\ Dir = "WR" /\ Dir' = Dir
  BY Parts DEF WrCmd, WrData, PathInv
<1>2. /\ Faulty' = Faulty /\ \A a : Store(a)' = Store(a)
      /\ ~Faulty => wasError' = 0 /\ RampStored' /\ RampKept' /\ ChunkKept'
  BY <1>1, BusyStore
<1>3. CASE WrCmd(pat)
  <2>1. Part = "CMD"
    BY <1>3, Parts DEF WrCmd
  <2>2. dmWr = 0 /\ soMemWrCmdP0 = << >>
    BY <1>1, <2>1 DEF PathInv, InvWrite, Writing
  <2>3. soMemWrCmdP0' = << currentPatternAdderss >>
    BY <1>3, <2>2 DEF WrCmd
  <2>4. Stored' = 0
    BY <1>1, <2>2, <2>3, BusySame DEF Stored
  <2> QED BY <1>2, <2>4 DEF InvStore, ChunkStored
<1>4. CASE WrData(pat)
  <2>1. Part = "DATA" /\ UNCHANGED soMemWrCmdP0
    BY <1>4, Parts DEF WrData
  <2>2. /\ Stored' = Stored /\ Cur' = Cur /\ Base' = Base /\ Writing
    BY <1>1, <2>1, BusySame DEF Stored, Writing
  <2> QED BY <1>1, <1>2, <2>2 DEF InvStore, ChunkStored
<1> QED BY <1>3, <1>4

\* The word a sound memory returns is the one RdData expects.
LEMMA ReadIsExpected ==
  ASSUME PathInv, InvStore, ~Faulty, NEW pat \in {"PAT", "ANTI"}, RdData(pat)
  PROVE  siMemReadP0[1].tdata = Word(currentMemPattern', pat)
<1> USE Bounds
<1>1. /\ MachineInv /\ In("RD", "DATA") /\ Pat = pat /\ siMemReadP0 # << >>
      /\ Taken \in 0..(T - 1) /\ currentMemPattern' = Base + (Taken + 1)
  BY RdDataEffects DEF PathInv
<1>2. siMemReadP0 \in Seq(Chunk) /\ Len(siMemReadP0) \in Nat /\ Len(siMemReadP0) > 0
  BY <1>1 DEF MachineInv, InvMem
<1>3. /\ Cur \in Nat /\ Cur + T <= AddrMod /\ Base \in {0, Cur} /\ Dir = "RD"
      /\ testPhase \in {"PHASE_RAMP_READ", "PHASE_STRESS"}
      /\ testPhase = "PHASE_STRESS" => Base = 0
      /\ testPhase # "PHASE_STRESS" => Base = Cur /\ Pat = "PAT"
  BY <1>1, Busy DEF In
<1>4. siMemReadP0[1].tdata = Load(Cur + Taken)
  <2>1. siMemReadP0[1].tdata = Load(Cur + Taken + 1 - 1)
    BY <1>1, <1>2 DEF PathInv, InvReadData
  <2>2. Cur + Taken + 1 - 1 = Cur + Taken
    BY <1>1, <1>3
  <2> QED BY <2>1, <2>2
<1>5. siMemReadP0[1].tdata = Store(Cur + Taken)
  BY <1>4, SoundMemory
<1>6. CASE testPhase = "PHASE_STRESS"
  <2>1. Store(Cur + Taken) = Word(Taken + 1, Pat)
    BY <1>1, <1>3, <1>6 DEF InvStore, ChunkKept, InStress
  <2>2. Base + (Taken + 1) = Taken + 1
    BY <1>1, <1>3, <1>6
  <2> QED BY <1>1, <1>5, <2>1, <2>2
<1>7. CASE testPhase = "PHASE_RAMP_READ"
  <2>1. Cur + Taken \in Addrs /\ Cur + Taken + 1 = Cur + (Taken + 1)
    BY <1>1, <1>3
  <2>2. Store(Cur + Taken) = Word(Cur + Taken + 1, "PAT")
    BY <1>7, <2>1 DEF InvStore, RampKept, InCheck, Ramp
  <2> QED BY <1>1, <1>3, <1>5, <1>7, <2>1, <2>2
<1> QED BY <1>3, <1>6, <1>7

LEMMA ReadStore ==
  ASSUME PathInv, InvStore, NEW pat \in {"PAT", "ANTI"}, RdCmd(pat) \/ RdData(pat)
  PROVE  InvStore'
<1>1. /\ MachineInv /\ BusyUnchanged /\ UNCHANGED Pat /\ Dir = "RD" /\ Dir' = Dir
  BY Parts, RdDataEffects DEF RdCmd, PathInv, In
<1>2. Faulty' = Faulty
  BY <1>1, BusySame, MemorySame
<1>3. ~Faulty => UNCHANGED wasError
  BY ReadIsExpected, RdDataEffects DEF RdCmd, PathInv
<1>4. ~Faulty => wasError' = 0 /\ RampStored' /\ RampKept' /\ ChunkKept'
  BY <1>1, <1>3, BusyStore
<1> QED BY <1>1, <1>2, <1>4 DEF InvStore, ChunkStored, Writing

\* When the status of a write is read, its words are stored.
LEMMA StsStored ==
  ASSUME PathInv, WrPatSts \/ WrAntiSts \/ (\E pat \in {"PAT", "ANTI"} : RdSts(pat)), Dir = "WR"
  PROVE  Writing /\ Stored = T
<1>1. Part = "STS" /\ (WrPatSts \/ WrAntiSts)
  BY StsEffects, Parts DEF PathInv, RdSts
<1>2. siMemWrStsP0 # << >>
  BY <1>1 DEF WrPatSts, WrAntiSts
<1> QED BY <1>1, <1>2, StsEffects DEF PathInv, InvWrite, Writing, Stored

LEMMA StsStore ==
  ASSUME PathInv, InvStore, WrPatSts \/ WrAntiSts \/ (\E pat \in {"PAT", "ANTI"} : RdSts(pat))
  PROVE  InvStore'
<1> USE Bounds
<1>1. /\ MachineInv /\ BusyUnchanged /\ UNCHANGED << wasError, memory, mem, testPhase >>
      /\ Cur' = Cur /\ Base' = Base /\ ~Writing' /\ Dir # "IDLE"
  BY StsEffects, BusySame DEF PathInv, Writing
<1>2. /\ Faulty' = Faulty /\ \A a : Store(a)' = Store(a)
      /\ InRamp' = InRamp /\ InCheck' = InCheck /\ InStress' = InStress
  BY <1>1, MemorySame, CellsSame DEF InRamp, InCheck, InStress
<1> SUFFICES ASSUME ~Faulty PROVE RampStored' /\ ChunkKept'
  BY <1>1, <1>2 DEF InvStore, RampKept, ChunkStored
<1>3. /\ Cur \in Nat /\ Cur + T <= AddrMod
      /\ InStress => Base = 0
      /\ testPhase # "PHASE_STRESS" => Base = Cur
  BY <1>1, Busy DEF InStress
<1>4. Dir = "WR" => \A i \in 0..(T - 1) : Store(Cur + i) = Word(Base + i + 1, Pat)
  BY StsStored DEF InvStore, ChunkStored
<1>5. RampStored'
  <2> SUFFICES ASSUME InRamp, NEW a \in Addrs, a < Done' PROVE Store(a) = Ramp(a)
    BY <1>2 DEF RampStored, Ramp
  <2>1. Dir' = "IDLE" /\ Dir = "WR" /\ Pat = "PAT" /\ lastCheckedAddress' = Cur + T - 1
    BY <1>1, StsEffects DEF InRamp
  <2>2. Done' = Cur + T /\ Done = Cur
    BY <1>1, <1>3, <2>1 DEF Done
  <2>3. CASE a < Cur
    BY <2>2, <2>3 DEF InvStore, RampStored
  <2>4. CASE a >= Cur
    <3>1. a - Cur \in 0..(T - 1) /\ Cur + (a - Cur) = a /\ Cur + (a - Cur) + 1 = a + 1
      BY <1>3, <2>2, <2>4
    <3>2. Store(Cur + (a - Cur)) = Word(Base + (a - Cur) + 1, "PAT")
      BY <1>4, <2>1, <3>1
    <3> QED BY <1>3, <3>1, <3>2 DEF Ramp, InRamp
  <2> QED BY <1>3, <2>3, <2>4
<1>6. ChunkKept'
  <2> SUFFICES ASSUME InStress, Dir' = "RD", NEW i \in 0..(T - 1)
               PROVE  Store(Cur + i) = Word(i + 1, Pat')
    BY <1>1, <1>2 DEF ChunkKept
  <2>1. Dir = "WR" /\ Pat' = Pat
    BY <1>1, StsEffects
  <2>2. Base + i + 1 = i + 1
    BY <1>3
  <2> QED BY <1>4, <2>1, <2>2
<1> QED BY <1>5, <1>6

\* A word goes to its own cell: the other words of a sound memory stay.
LEMMA DmWriteStore == ASSUME PathInv, InvStore, DmWrite PROVE InvStore'
<1> USE Bounds
<1>1. /\ MachineInv /\ UNCHANGED << DIAG_CTRL_IN, testVars, memory >>
      /\ Writing /\ soMemWrCmdP0 = << Cur >> /\ dmWr \in 0..(T - 1) /\ Cur + dmWr \in Addrs
      /\ mem' = [mem EXCEPT ![memory.cellOf[Cur + dmWr]] = Word(Base + dmWr + 1, Pat)]
      /\ dmWr + 1 = T => soMemWrCmdP0' = << >>
      /\ dmWr + 1 # T => soMemWrCmdP0' # << >> /\ dmWr' = dmWr + 1
  <2>1. << Cur >> # << >>
    OBVIOUS
  <2> QED BY <2>1, DmWriteEffects DEF PathInv
<1>2. /\ Dir' = Dir /\ Pat' = Pat /\ Part' = Part /\ Cur' = Cur /\ Base' = Base
      /\ UNCHANGED << testPhase, wasError, lastCheckedAddress >>
  BY <1>1, TestVarsSame
<1>3. Faulty' = Faulty
  BY <1>1, MemorySame
<1>4. /\ InRamp' = InRamp /\ InCheck' = InCheck /\ Writing' = Writing
      /\ Done' = Done
  BY <1>2 DEF InRamp, InCheck, Writing, Done
<1>5. /\ Dir = "WR" /\ Cur \in Nat /\ Cur + T <= AddrMod /\ ~InCheck /\ Done = Cur
  BY <1>1, Busy DEF Writing, InCheck, Done
<1> SUFFICES ASSUME ~Faulty PROVE RampStored' /\ ChunkStored'
  BY <1>2, <1>3, <1>4, <1>5 DEF InvStore, RampKept, ChunkKept
<1>6. ASSUME NEW a \in Addrs
      PROVE  mem'[memory'.cellOf[a]] =
               IF a = Cur + dmWr THEN Word(Base + dmWr + 1, Pat) ELSE Store(a)
  <2>1. memory.cellOf[a] = memory.cellOf[Cur + dmWr] <=> a = Cur + dmWr
    BY <1>1, SoundMemory
  <2>2. mem \in [Addrs -> Words] /\ memory.cellOf[a] \in Addrs
    BY <1>1, LoadType DEF MachineInv, InvMem
  <2> QED BY <1>1, <2>1, <2>2 DEF Store
<1>7. RampStored'
  <2> SUFFICES ASSUME InRamp, NEW a \in Addrs, a < Cur PROVE Store(a)' = Ramp(a)
    BY <1>4, <1>5 DEF RampStored, Ramp
  <2>1. Store(a)' = Store(a)
    BY <1>1, <1>5, <1>6 DEF Store
  <2> QED BY <1>5, <2>1 DEF InvStore, RampStored
<1>8. ChunkStored'
  <2> SUFFICES ASSUME NEW i \in 0..(Stored' - 1)
               PROVE  mem'[memory'.cellOf[Cur + i]] = Word(Base + i + 1, Pat)
    BY <1>2, <1>4 DEF ChunkStored, Store
  <2>1. Stored = dmWr /\ Stored' = dmWr + 1
    BY <1>1 DEF Stored
  <2>2. i \in 0..(T - 1) /\ Cur + i \in Addrs
    BY <1>1, <1>5, <2>1
  <2>3. CASE i = dmWr
    BY <1>6, <2>2, <2>3
  <2>4. CASE i # dmWr
    <3>1. Store(Cur + i) = Word(Base + i + 1, Pat)
      BY <1>1, <2>1, <2>4 DEF InvStore, ChunkStored
    <3>2. Cur + i # Cur + dmWr
      BY <1>1, <1>5, <2>2, <2>4
    <3> QED BY <1>6, <2>2, <3>1, <3>2
  <2> QED BY <2>3, <2>4
<1> QED BY <1>7, <1>8

LEMMA MoverStore == ASSUME PathInv, InvStore, DataMover PROVE InvStore'
<1>1. CASE DmWrite
  BY <1>1, DmWriteStore
<1>2. CASE DmRead \/ (\E sts \in MemStatuses : DmWrStatus(sts) \/ DmRdStatus(sts))
  <2>1. UNCHANGED << DIAG_CTRL_IN, testVars, memory, mem, soMemWrCmdP0, dmWr >>
    BY <1>2 DEF DmRead, DmWrStatus, DmRdStatus, wrVars
  <2> QED BY <2>1, TestVarsSame, StoreSame DEF Stored
<1> QED BY <1>1, <1>2 DEF DataMover

LEMMA StoreInit == ASSUME Init PROVE InvStore
<1>1. Dir = "IDLE"
  BY Parts DEF Init
<1> QED BY <1>1
        DEF Init, InvStore, RampStored, RampKept, ChunkStored, ChunkKept, Writing, InRamp, InCheck

LEMMA StoreStep ==
  ASSUME PathInv, InvStore, [Next]_vars, MaxDelay < CYCLES_UNTIL_TIMEOUT
  PROVE  InvStore'
<1>a. ASSUME UNCHANGED << testVars, wrVars, memory, dmVars >> PROVE InvStore'
  <2>1. /\ UNCHANGED << memory, mem, wasError, testPhase, lastCheckedAddress >>
        /\ Dir' = Dir /\ Pat' = Pat /\ Part' = Part /\ Cur' = Cur /\ Base' = Base
        /\ Stored' = Stored
    BY <1>a DEF testVars, ctrlVars, wrVars, dmVars, Dir, Pat, Part, Cur, Base, Stored
  <2> QED BY <2>1, StoreSame
<1>1. CASE (\E c \in CtrlValues : MmioCtrl(c)) \/ UNCHANGED vars
  BY <1>1, <1>a DEF MmioCtrl, vars
<1>2. CASE Reset
  <2>1. Dir' = "IDLE"
    BY <1>2, Parts DEF Reset
  <2> QED BY <1>2, <2>1 DEF Reset, InvStore, RampStored, RampKept, ChunkStored, ChunkKept,
                            Writing, InRamp, InCheck
<1>3. CASE DataMover
  BY <1>3, MoverStore
<1>4. CASE Idle
  BY <1>4, IdleStore
<1>5. CASE WrPatSts \/ WrAntiSts \/ (\E pat \in {"PAT", "ANTI"} : RdSts(pat))
  BY <1>5, StsStore
<1>6. ASSUME NEW pat \in {"PAT", "ANTI"},
             WrCmd(pat) \/ WrData(pat) \/ RdCmd(pat) \/ RdData(pat)
      PROVE  InvStore'
  BY <1>6, WriteStore, ReadStore
<1>7. ASSUME NEW dir, NEW pat, NEW sts, WaitSts(dir, pat, sts) PROVE InvStore'
  <2>1. UNCHANGED << wasError, fsmState >>
    BY <1>7, NoTimeout DEF PathInv
  <2>2. BusyUnchanged /\ UNCHANGED << lastCheckedAddress, wrVars >>
    BY <1>7 DEF WaitSts
  <2>3. Stored' = Stored
    BY <2>2, BusySame DEF Stored, wrVars
  <2> QED BY <2>1, <2>2, <2>3, Parts, BusySame, StoreSame
<1> QED BY <1>1, <1>2, <1>3, <1>4, <1>5, <1>6, <1>7 DEF Next, Test

\* mem_test_flash.cpp:292, 405: of a sound memory every word that is
\* read is the one expected, in the ramp and in both patterns, for every size
\* of memory and chunk and every command of the host, if no status comes after
\* the timeout (a status that does is an error of the test's own making).
THEOREM AlarmsAreFaults ==
  ASSUME MaxDelay < CYCLES_UNTIL_TIMEOUT
  PROVE  Spec => []NoFalseAlarm
<1>1. Init => PathInv /\ InvStore
  BY PathInit, StoreInit
<1>2. PathInv /\ InvStore /\ [Next]_vars => (PathInv /\ InvStore)'
  BY PathStep, StoreStep
<1>3. PathInv /\ InvStore => NoFalseAlarm
  BY DEF InvStore, NoFalseAlarm
<1> QED BY <1>1, <1>2, <1>3, PTL DEF Spec

-----------------------------------------------------------------------------
\* What the words that were read say, step by step.
LEMMA PassSame ==
  ASSUME InvPass,
         UNCHANGED << memory, mem, wasError, testPhase, lastCheckedAddress, Dir, Pat, Part, Cur,
                      Seen >>
  PROVE  InvPass'
<1>1. /\ NoSharing' = NoSharing /\ Done' = Done /\ InCheck' = InCheck /\ InStress' = InStress
      /\ \A a : (Stuck(a)' <=> Stuck(a)) /\ Load(a)' = Load(a)
  BY MemorySame, CellsSame DEF Done, InCheck, InStress
<1>2. ASSUME wasError = 0
      PROVE  RampSeen' /\ (InStress' => NoSharing') /\ NoneStuck' /\ ChunkSeen'
  <2>1. RampSeen' /\ NoneStuck'
    BY <1>1, <1>2 DEF InvPass, RampSeen, NoneStuck
  <2>2. ChunkSeen'
    <3> SUFFICES ASSUME InStress, Dir # "IDLE", NEW i \in 0..(T - 1)
                 PROVE  /\ (Pat = "ANTI" \/ i < Seen) /\ Stuck(Cur + i)
                             => Load(Cur + i) = Word(i + 1, "PAT")
                        /\ Pat = "ANTI" /\ i < Seen => ~Stuck(Cur + i)
      BY <1>1 DEF ChunkSeen, Stuck, Load
    <3> QED BY <1>2 DEF InvPass, ChunkSeen
  <2> QED BY <1>1, <1>2, <2>1, <2>2 DEF InvPass
<1> QED BY <1>2 DEF InvPass

\* Once every address has given back its word of the ramp, no two live words
\* are on one cell.
LEMMA RampTellsApart ==
  ASSUME MachineInv, \A a \in Addrs : Load(a) = Ramp(a)
  PROVE  NoSharing
<1> SUFFICES ASSUME NEW a \in Addrs \ DOMAIN memory.stuck, NEW b \in Addrs \ DOMAIN memory.stuck,
                    memory.cellOf[a] = memory.cellOf[b]
             PROVE  a = b
  BY DEF NoSharing
<1>1. Load(a) = Load(b)
  BY DEF Load
<1>2. a \in Nat /\ b \in Nat
  BY Bounds
<1> QED BY <1>1, <1>2, Distinct

LEMMA IdlePass == ASSUME PathInv, InvPass, Idle PROVE InvPass'
<1> USE Bounds
<1>0. MachineInv /\ Dir = "IDLE" /\ UNCHANGED << memory, mem >>
  BY IdleEffects DEF PathInv, paths, dmVars
<1>1. /\ NoSharing' = NoSharing /\ Seen = 0
      /\ \A a : (Stuck(a)' <=> Stuck(a)) /\ Load(a)' = Load(a)
  BY <1>0, MemorySame, CellsSame DEF Seen
<1>2. \A a \in Addrs : ~(a < 0) /\ a < AddrMod
  OBVIOUS
\* No word of the chunk that comes is read yet.
<1>3. Goes("WR") \/ Goes("RD") => Seen' = 0 /\ ChunkSeen' /\ Done' = Cur'
  <2>1. Goes("WR") \/ Goes("RD") => Seen' = 0 /\ Pat' = "PAT" /\ Done' = Cur'
    BY DEF Goes, Seen, Done
  <2>2. \A i \in 0..(T - 1) : ~(i < 0)
    OBVIOUS
  <2> QED BY <2>1, <2>2 DEF ChunkSeen
<1>4. Dir' = "IDLE" => Seen' = 0 /\ ChunkSeen'
  BY DEF Seen, ChunkSeen
<1>5. CASE IdleResets
  <2>1. Done' = 0
    BY <1>5 DEF IdleResets, Done
  <2> QED BY <1>1, <1>2, <1>4, <1>5, <2>1
          DEF IdleResets, InvPass, RampSeen, NoneStuck, InCheck, InStress
<1>6. CASE IdleStarts
  BY <1>3, <1>6 DEF IdleStarts, InvPass, RampSeen, NoneStuck, InCheck, InStress
<1>7. CASE IdleAdvances
  <2> SUFFICES ASSUME wasError = 0
               PROVE  RampSeen' /\ (InStress' => NoSharing') /\ NoneStuck' /\ ChunkSeen'
    BY <1>7 DEF IdleAdvances, InvPass
  <2>1. Seen' = 0 /\ ChunkSeen' /\ Done' = 0
    BY <1>3, <1>7 DEF IdleAdvances, Goes
  <2>2. RampSeen' /\ NoneStuck'
    BY <1>2, <2>1 DEF RampSeen, NoneStuck
  <2>3. InStress' => NoSharing
    <3> SUFFICES ASSUME InStress' PROVE NoSharing
      OBVIOUS
    <3>1. InCheck
      BY <1>7 DEF IdleAdvances, InStress, InCheck
    <3>2. Done = AddrMod
      BY <1>0, <1>7, <3>1, CompleteIsAll DEF IdleAdvances, InCheck
    <3>3. \A a \in Addrs : a < Done + Seen
      BY <1>1, <1>2, <3>2
    <3> QED BY <1>0, <3>1, <3>3, RampTellsApart DEF InvPass, RampSeen
  <2> QED BY <1>1, <2>1, <2>2, <2>3
<1>8. CASE IdleStays
  <2>1. Done' = Done /\ Dir' = "IDLE"
    BY <1>0, <1>8 DEF IdleStays, Done
  <2> QED BY <1>1, <1>4, <1>8, <2>1
          DEF IdleStays, InvPass, RampSeen, NoneStuck, InCheck, InStress
<1>9. CASE IdleGoesOn
  <2>1. Done' = Done /\ Seen' = 0 /\ ChunkSeen'
    BY <1>0, <1>3, <1>9 DEF IdleGoesOn, Done, Goes
  <2> QED BY <1>1, <1>9, <2>1
          DEF IdleGoesOn, InvPass, RampSeen, NoneStuck, InCheck, InStress
<1> QED BY <1>0, <1>5, <1>6, <1>7, <1>8, <1>9, IdleEffects

\* A step in a chunk that reads no word of it.
LEMMA BusyPass ==
  ASSUME InvPass, BusyUnchanged, UNCHANGED << wasError, lastCheckedAddress, Pat >>,
         Dir # "IDLE", Dir' = Dir, Seen' = Seen
  PROVE  InvPass'
<1>1. /\ NoSharing' = NoSharing /\ Done' = Done /\ InCheck' = InCheck /\ InStress' = InStress
      /\ Cur' = Cur
      /\ \A a : (Stuck(a)' <=> Stuck(a)) /\ Load(a)' = Load(a)
  BY BusySame, MemorySame, CellsSame DEF Done, InCheck, InStress
<1>2. ASSUME wasError = 0
      PROVE  RampSeen' /\ (InStress' => NoSharing') /\ NoneStuck' /\ ChunkSeen'
  <2>1. RampSeen' /\ NoneStuck'
    BY <1>1, <1>2 DEF InvPass, RampSeen, NoneStuck
  <2>2. ChunkSeen'
    <3> SUFFICES ASSUME InStress, Dir # "IDLE", NEW i \in 0..(T - 1)
                 PROVE  /\ (Pat = "ANTI" \/ i < Seen) /\ Stuck(Cur + i)
                             => Load(Cur + i) = Word(i + 1, "PAT")
                        /\ Pat = "ANTI" /\ i < Seen => ~Stuck(Cur + i)
      BY <1>1, BusySame DEF ChunkSeen, Stuck, Load
    <3> QED BY <1>2 DEF InvPass, ChunkSeen
  <2> QED BY <1>1, <1>2, <2>1, <2>2 DEF InvPass
<1> QED BY <1>2 DEF InvPass

LEMMA QuietPass ==
  ASSUME PathInv, InvPass, NEW pat \in {"PAT", "ANTI"}, WrCmd(pat) \/ WrData(pat) \/ RdCmd(pat)
  PROVE  InvPass'
<1> USE Bounds
<1>1. CASE WrCmd(pat) \/ WrData(pat)
  <2>1. /\ BusyUnchanged /\ UNCHANGED << wasError, lastCheckedAddress, Pat >>
        /\ Dir = "WR" /\ Dir' = Dir
    BY <1>1, Parts DEF WrCmd, WrData
  <2>2. Seen' = Seen
    BY <2>1 DEF Seen
  <2> QED BY <2>1, <2>2, BusyPass
<1>2. CASE RdCmd(pat)
  <2>1. /\ BusyUnchanged /\ UNCHANGED << wasError, lastCheckedAddress, Pat >>
        /\ Dir = "RD" /\ Dir' = Dir /\ Part = "CMD" /\ Part' = "DATA"
        /\ UNCHANGED siMemReadP0
    BY <1>2, Parts DEF RdCmd
  <2>2. soMemRdCmdP0 = << >> /\ siMemReadP0 = << >> /\ dmRd = 0
    BY <2>1 DEF PathInv, MachineInv, InvRead, In
  <2>3. soMemRdCmdP0' = << currentPatternAdderss >> /\ siMemReadP0' = << >> /\ dmRd' = 0
    BY <1>2, <2>1, <2>2, BusySame DEF RdCmd
  <2>4. Taken' = 0
    <3>1. soMemRdCmdP0' # << >> /\ Len(siMemReadP0') = 0 /\ dmRd' = 0
      BY <2>3
    <3> QED BY <3>1 DEF Taken
  <2>5. Seen' = Seen
    BY <2>1, <2>4 DEF Seen
  <2> QED BY <2>1, <2>5, BusyPass
<1> QED BY <1>1, <1>2

\* The word RdData reads is that of its address, and a word that is not the one
\* expected is an error.
LEMMA ReadSays ==
  ASSUME PathInv, NEW pat \in {"PAT", "ANTI"}, RdData(pat), wasError' = 0
  PROVE  wasError = 0 /\ Load(Cur + Taken) = Word(Base + (Taken + 1), Pat)
<1> USE Bounds
<1>1. /\ MachineInv /\ In("RD", "DATA") /\ Pat = pat /\ siMemReadP0 # << >>
      /\ Taken \in 0..(T - 1) /\ currentMemPattern' = Base + (Taken + 1)
      /\ wasError' = IF siMemReadP0[1].tdata # Word(currentMemPattern', pat) THEN 1 ELSE wasError
  BY RdDataEffects DEF PathInv
<1>2. siMemReadP0 \in Seq(Chunk) /\ Len(siMemReadP0) \in Nat /\ Len(siMemReadP0) > 0
  BY <1>1 DEF MachineInv, InvMem
<1>3. Cur \in Nat
  BY <1>1, Busy DEF In
<1>4. siMemReadP0[1].tdata = Load(Cur + Taken + 1 - 1)
  BY <1>1, <1>2 DEF PathInv, InvReadData
<1>5. Cur + Taken + 1 - 1 = Cur + Taken
  BY <1>1, <1>3
<1> QED BY <1>1, <1>4, <1>5

LEMMA ReadPass ==
  ASSUME PathInv, InvPass, NEW pat \in {"PAT", "ANTI"}, RdData(pat)
  PROVE  InvPass'
<1> USE Bounds
<1> SUFFICES ASSUME wasError' = 0
             PROVE  RampSeen' /\ (InStress' => NoSharing') /\ NoneStuck' /\ ChunkSeen'
  BY DEF InvPass
<1>1. /\ MachineInv /\ BusyUnchanged /\ Dir = "RD" /\ Part = "DATA" /\ Dir' = "RD"
      /\ Pat' = Pat /\ Taken \in 0..(T - 1) /\ Taken' = Taken + 1
      /\ IF Taken' = T THEN Part' = "STS" ELSE Part' = "DATA"
  BY RdDataEffects DEF PathInv, In
<1>2. /\ NoSharing' = NoSharing /\ Done' = Done /\ Done = Cur
      /\ InCheck' = InCheck /\ InStress' = InStress /\ Cur' = Cur
      /\ \A a : (Stuck(a)' <=> Stuck(a)) /\ Load(a)' = Load(a)
  BY <1>1, BusySame, MemorySame, CellsSame DEF Done, InCheck, InStress
<1>3. Seen = Taken /\ Seen' = Taken + 1
  BY <1>1 DEF Seen
<1>4. /\ Cur \in Nat /\ Pat \in {"PAT", "ANTI"}
      /\ InStress => Base = 0
      /\ InCheck => Base = Cur /\ Pat = "PAT"
  BY <1>1, Busy DEF InStress, InCheck
<1>5. wasError = 0 /\ Load(Cur + Taken) = Word(Base + (Taken + 1), Pat)
  BY ReadSays
<1>6. RampSeen'
  <2> SUFFICES ASSUME InCheck, NEW a \in Addrs, a < Cur + (Taken + 1) PROVE Load(a) = Ramp(a)
    BY <1>2, <1>3 DEF RampSeen, Ramp
  <2>1. CASE a < Cur + Taken
    BY <1>2, <1>3, <1>5, <2>1 DEF InvPass, RampSeen
  <2>2. CASE a = Cur + Taken
    <3>1. Cur + (Taken + 1) = a + 1
      BY <1>1, <1>4, <2>2
    <3> QED BY <1>4, <1>5, <2>2, <3>1 DEF Ramp
  <2> QED BY <1>1, <1>4, <2>1, <2>2
<1>7. (InStress' => NoSharing') /\ NoneStuck'
  BY <1>2, <1>5 DEF InvPass, NoneStuck
<1>8. ChunkSeen'
  <2> SUFFICES ASSUME InStress, NEW i \in 0..(T - 1)
               PROVE  /\ (Pat = "ANTI" \/ i < Taken + 1) /\ Stuck(Cur + i)
                           => Load(Cur + i) = Word(i + 1, "PAT")
                      /\ Pat = "ANTI" /\ i < Taken + 1 => ~Stuck(Cur + i)
    BY <1>1, <1>2, <1>3, BusySame DEF ChunkSeen, Stuck, Load
  <2>1. /\ (Pat = "ANTI" \/ i < Taken) /\ Stuck(Cur + i) => Load(Cur + i) = Word(i + 1, "PAT")
        /\ Pat = "ANTI" /\ i < Taken => ~Stuck(Cur + i)
    BY <1>1, <1>3, <1>5 DEF InvPass, ChunkSeen
  <2>2. i < Taken + 1 <=> i < Taken \/ i = Taken
    BY <1>1
  <2>3. i = Taken => Load(Cur + i) = Word(i + 1, Pat)
    <3>1. 0 + (Taken + 1) = Taken + 1
      BY <1>1
    <3> QED BY <1>4, <1>5, <3>1
  <2> QED BY <1>4, <2>1, <2>2, <2>3, Distinct
<1> QED BY <1>6, <1>7, <1>8

LEMMA StsPass ==
  ASSUME PathInv, InvPass, WrPatSts \/ WrAntiSts \/ (\E pat \in {"PAT", "ANTI"} : RdSts(pat))
  PROVE  InvPass'
<1> USE Bounds
<1>1. /\ MachineInv /\ BusyUnchanged /\ UNCHANGED << wasError, memory, mem, testPhase >>
      /\ Cur' = Cur /\ Part = "STS" /\ Dir # "IDLE"
      /\ Dir' = "IDLE" \/ Part' = "CMD"
  BY StsEffects, BusySame DEF PathInv
<1>2. /\ NoSharing' = NoSharing /\ InCheck' = InCheck /\ InStress' = InStress
      /\ \A a : (Stuck(a)' <=> Stuck(a)) /\ Load(a)' = Load(a)
  BY <1>1, MemorySame, CellsSame DEF InCheck, InStress
<1> SUFFICES ASSUME wasError = 0
             PROVE  RampSeen' /\ (InStress' => NoSharing') /\ NoneStuck' /\ ChunkSeen'
  BY <1>1 DEF InvPass
<1>3. Done = Cur /\ Cur \in Nat /\ Cur + T <= AddrMod
  BY <1>1, Busy DEF Done
<1>4. Seen' = 0 /\ (Dir = "RD" => Seen = T)
  BY <1>1 DEF Seen
<1>5. Dir' = "IDLE" => Done' = Cur + T
  <2> SUFFICES ASSUME Dir' = "IDLE" PROVE Done' = Cur + T
    OBVIOUS
  <2>1. lastCheckedAddress' = Cur + T - 1
    BY StsEffects DEF PathInv
  <2> QED BY <1>3, <2>1 DEF Done
<1>6. Dir' # "IDLE" => Done' = Cur /\ InStress
  BY <1>1, StsEffects DEF Done, InStress
<1>7. RampSeen'
  <2> SUFFICES ASSUME InCheck, NEW a \in Addrs, a < Done' + 0 PROVE Load(a) = Ramp(a)
    BY <1>2, <1>4 DEF RampSeen, Ramp
  <2>1. Dir' = "IDLE" /\ Dir = "RD"
    BY <1>6, StsEffects DEF PathInv, InCheck, InStress
  <2>2. a < Done + Seen
    BY <1>3, <1>4, <1>5, <2>1
  <2> QED BY <2>2 DEF InvPass, RampSeen
<1>8. NoneStuck'
  <2> SUFFICES ASSUME InStress, NEW a \in Addrs, a < Done' PROVE ~Stuck(a)
    BY <1>2 DEF NoneStuck
  <2>1. CASE a < Cur
    BY <1>3, <2>1 DEF InvPass, NoneStuck
  <2>2. CASE a >= Cur
    <3>1. Dir' = "IDLE" /\ Dir = "RD" /\ Pat = "ANTI"
      BY <1>3, <1>6, <2>2, StsEffects DEF PathInv, InStress
    <3>2. a - Cur \in 0..(T - 1) /\ Cur + (a - Cur) = a
      BY <1>3, <1>5, <2>2, <3>1
    <3>3. a - Cur < Seen
      BY <1>4, <3>1, <3>2
    <3>4. ~Stuck(Cur + (a - Cur))
      BY <1>1, <3>1, <3>2, <3>3 DEF InvPass, ChunkSeen
    <3> QED BY <3>2, <3>4
  <2> QED BY <1>3, <2>1, <2>2
<1>9. ChunkSeen'
  <2> SUFFICES ASSUME InStress, Dir' # "IDLE", NEW i \in 0..(T - 1)
               PROVE  /\ (Pat' = "ANTI" \/ i < 0) /\ Stuck(Cur + i)
                           => Load(Cur + i) = Word(i + 1, "PAT")
                      /\ Pat' = "ANTI" /\ i < 0 => ~Stuck(Cur + i)
    BY <1>1, <1>2, <1>4 DEF ChunkSeen, Stuck, Load
  <2>1. ~(i < 0) /\ i < T
    OBVIOUS
  <2>2. Pat' = "ANTI" => Dir = "RD" \/ Pat = "ANTI"
    BY StsEffects DEF PathInv
  <2>3. Pat' = "ANTI" /\ Stuck(Cur + i) => Load(Cur + i) = Word(i + 1, "PAT")
    BY <1>1, <1>4, <2>1, <2>2 DEF InvPass, ChunkSeen
  <2> QED BY <2>1, <2>3
<1> QED BY <1>2, <1>7, <1>8, <1>9 DEF InvPass

LEMMA MoverPass == ASSUME PathInv, InvPass, DataMover PROVE InvPass'
<1> USE Bounds
<1>1. CASE DmWrite
  <2>1. /\ UNCHANGED << DIAG_CTRL_IN, testVars, memory >> /\ Writing /\ MachineInv
    BY <1>1, DmWriteEffects DEF PathInv
  <2>2. /\ Dir' = Dir /\ Pat' = Pat /\ Part' = Part /\ Cur' = Cur
        /\ UNCHANGED << testPhase, wasError, lastCheckedAddress >>
    BY <2>1, TestVarsSame
  <2>3. /\ NoSharing' = NoSharing /\ Done' = Done /\ InStress' = InStress
        /\ \A a : Stuck(a)' <=> Stuck(a)
    BY <2>1, <2>2, MemorySame DEF Done, InStress
  <2>4. Dir = "WR" /\ ~InCheck' /\ Seen = 0 /\ Seen' = 0
    BY <2>1, <2>2, Busy DEF Writing, InCheck, Seen
  <2> SUFFICES ASSUME wasError = 0
               PROVE  RampSeen' /\ (InStress' => NoSharing') /\ NoneStuck' /\ ChunkSeen'
    BY <2>2 DEF InvPass
  <2>5. ChunkSeen'
    <3> SUFFICES ASSUME InStress, Dir # "IDLE", NEW i \in 0..(T - 1)
                 PROVE  /\ (Pat = "ANTI" \/ i < Seen) /\ Stuck(Cur + i)
                             => memory.stuck[Cur + i] = Word(i + 1, "PAT")
                        /\ Pat = "ANTI" /\ i < Seen => ~Stuck(Cur + i)
      BY <2>1, <2>2, <2>3, <2>4 DEF ChunkSeen, Stuck, Load
    <3> QED BY DEF InvPass, ChunkSeen, Load, Stuck
  <2> QED BY <2>3, <2>4, <2>5 DEF InvPass, RampSeen, NoneStuck
<1>2. CASE DmRead
  <2>1. UNCHANGED << DIAG_CTRL_IN, testVars, memory, mem >> /\ Taken' = Taken
    BY <1>2, DmReadEffects DEF PathInv
  <2> QED BY <2>1, TestVarsSame, PassSame DEF Seen
<1>3. CASE \E sts \in MemStatuses : DmWrStatus(sts) \/ DmRdStatus(sts)
  <2>1. UNCHANGED << DIAG_CTRL_IN, testVars, memory, mem, soMemRdCmdP0, siMemReadP0, dmRd >>
    BY <1>3 DEF DmWrStatus, DmRdStatus, rdVars
  <2>2. Taken' = Taken
    BY <2>1 DEF Taken
  <2> QED BY <2>1, <2>2, TestVarsSame, PassSame DEF Seen
<1> QED BY <1>1, <1>2, <1>3 DEF DataMover

LEMMA PassInit == ASSUME Init PROVE InvPass
  BY DEF Init, InvPass, RampSeen, NoneStuck, ChunkSeen, InCheck, InStress

LEMMA PassStep ==
  ASSUME PathInv, InvPass, [Next]_vars, MaxDelay < CYCLES_UNTIL_TIMEOUT
  PROVE  InvPass'
<1>a. ASSUME UNCHANGED << testVars, rdVars, memory, dmVars >> PROVE InvPass'
  <2>1. /\ UNCHANGED << memory, mem, wasError, testPhase, lastCheckedAddress >>
        /\ Dir' = Dir /\ Pat' = Pat /\ Part' = Part /\ Cur' = Cur /\ Base' = Base
        /\ Taken' = Taken
    BY <1>a DEF testVars, ctrlVars, rdVars, dmVars, Dir, Pat, Part, Cur, Base, Taken
  <2> QED BY <2>1, PassSame DEF Seen
<1>1. CASE (\E c \in CtrlValues : MmioCtrl(c)) \/ UNCHANGED vars
  BY <1>1, <1>a DEF MmioCtrl, vars
<1>2. CASE Reset
  BY <1>2 DEF Reset, InvPass, RampSeen, NoneStuck, ChunkSeen, InCheck, InStress
<1>3. CASE DataMover
  BY <1>3, MoverPass
<1>4. CASE Idle
  BY <1>4, IdlePass
<1>5. CASE WrPatSts \/ WrAntiSts \/ (\E pat \in {"PAT", "ANTI"} : RdSts(pat))
  BY <1>5, StsPass
<1>6. ASSUME NEW pat \in {"PAT", "ANTI"},
             WrCmd(pat) \/ WrData(pat) \/ RdCmd(pat) \/ RdData(pat)
      PROVE  InvPass'
  BY <1>6, QuietPass, ReadPass
<1>7. ASSUME NEW dir, NEW pat, NEW sts, WaitSts(dir, pat, sts) PROVE InvPass'
  <2>1. UNCHANGED << wasError, fsmState >>
    BY <1>7, NoTimeout DEF PathInv
  <2>2. BusyUnchanged /\ UNCHANGED << lastCheckedAddress, rdVars >>
    BY <1>7 DEF WaitSts
  <2>3. Taken' = Taken
    BY <2>2, BusySame DEF Taken, rdVars
  <2> QED BY <2>1, <2>2, <2>3, Parts, BusySame, PassSame DEF Seen
<1> QED BY <1>1, <1>2, <1>3, <1>4, <1>5, <1>6, <1>7 DEF Next, Test

\* mem_test_flash.cpp:70-178: a test that ends without an error has tried
\* enough: no word of the memory keeps its value, and no two of its addresses
\* are on one cell, for every size of memory and chunk and every memory, if no
\* status comes after the timeout.  The ramp over the whole memory finds the
\* shared cells, the pattern and its complement the words that are stuck.
THEOREM PassedIsGood ==
  ASSUME MaxDelay < CYCLES_UNTIL_TIMEOUT
  PROVE  Spec => []PassMeansGood
<1>1. Init => PathInv /\ InvPass
  BY PathInit, PassInit
<1>2. PathInv /\ InvPass /\ [Next]_vars => (PathInv /\ InvPass)'
  BY PathStep, PassStep
<1>3. PathInv /\ InvPass => PassMeansGood
  <2> SUFFICES ASSUME PathInv, InvPass, TestPassed PROVE ~Faulty
    BY DEF PassMeansGood
  <2>1. /\ MachineInv /\ Dir = "IDLE" /\ InStress /\ testPhase # "PHASE_IDLE" /\ Complete
        /\ wasError = 0
    BY Parts DEF TestPassed, PathInv, InStress
  <2>2. Done = AddrMod
    BY <2>1, CompleteIsAll
  <2>3. \A a \in Addrs : a < AddrMod
    BY Bounds
  <2>4. NoSharing /\ \A a \in Addrs : ~Stuck(a)
    BY <2>1, <2>2, <2>3 DEF InvPass, NoneStuck
  <2>5. DOMAIN memory.stuck \subseteq Addrs
    BY <2>1, MemoriesAssumption DEF MachineInv, InvMem
  <2>6. DOMAIN memory.stuck = {}
    BY <2>4, <2>5 DEF Stuck
  <2> QED BY <2>4, <2>6 DEF Faulty, NoSharing
<1> QED BY <1>1, <1>2, <1>3, PTL DEF Spec
=============================================================================
