------------------------------ MODULE Tsif_proofs ------------------------------
(***************************************************************************)
(* Proofs about TSIF as a whole.  Its receive path behaves as TsifRx and   *)
(* its transmit path as TsifTx, though each now has the other and TAF for  *)
(* a part of its environment: what is proved of either holds of both in    *)
(* the loop.                                                               *)
(***************************************************************************)
EXTENDS Tsif, TsifRx_proofs

-----------------------------------------------------------------------------
(* The receive path.  A step of TSIF is a step of TsifRx, or leaves its     *)
(* variables alone.                                                         *)

LEMMA RxAlone == ASSUME UNCHANGED << rxVars, tafLeft, piSHL_Enable, conVars >> PROVE UNCHANGED vars
BY DEF rxVars, vars, tafVars

LEMMA RxStep == ASSUME [TsifNext]_allVars PROVE [Next]_vars
<1>1. CASE UNCHANGED allVars
  BY <1>1 DEF allVars
<1>2. CASE MmioBit
  BY <1>2 DEF MmioBit, Next
<1>3. CASE ToeReceives \/ ToeServes \/ ((RNh \/ IRb \/ RRm \/ RRh) /\ UNCHANGED txVars)
  BY <1>3 DEF ToeReceives, ToeServes, Next
<1>4. CASE ReadPath
  BY <1>4 DEF ReadPath, RDpRest, RDpToCOn, RDp, Next
<1>5. CASE TAF
  BY <1>5 DEF TAF, TafMeta, TafData, TafRead, Next
<1>6. CASE PeerCloses \/ ToeOpens \/ ToeGrants \/ ToeTakes
  <2>1. UNCHANGED << piSHL_Enable, conVars >>
    BY <1>6 DEF PeerCloses, ToeOpens, ToeGrants, ToeTakes, Tx!ToePeerCloses, Tx!ToeOpen,
                Tx!ToeSndRep, Tx!ToeData, Tx!rdpVars, conVars
  <2> QED BY <1>6, <2>1, RxAlone DEF PeerCloses, ToeOpens, ToeGrants, ToeTakes
<1>7. CASE WritePath
  <2>1. UNCHANGED << piSHL_Enable, conVars >>
    BY <1>7 DEF WritePath, Tx!WRp, Tx!WrpIdleTest, Tx!WrpIdleTaf, Tx!WrpRts, Tx!WrpRtsRep,
                Tx!WrpStream, Tx!WrpDrain, Tx!WrpTxGen, Tx!WrpTakesChunk, Tx!WrpUnchanged,
                Tx!rdpVars, conVars
  <2> QED BY <1>7, <2>1, RxAlone DEF WritePath
<1>8. CASE COnTakes
  BY <1>8 DEF COnTakes, Next
<1>9. CASE COnRest /\ UNCHANGED << rxVars, tafLeft >>
  <2>1. UNCHANGED << piSHL_Enable, conVars >>
    BY <1>9 DEF COnRest, Tx!ConIdle, Tx!ConOpnReq, Tx!ConOpnRep, Tx!ConWrWRp, Tx!ConUnchanged,
                conVars
  <2> QED BY <1>9, <2>1, RxAlone
<1> QED BY <1>1, <1>2, <1>3, <1>4, <1>5, <1>6, <1>7, <1>8, <1>9 DEF TsifNext, Connect

\* TSIF with COn and TAF in the places of the environment of TsifRx is TsifRx.
THEOREM ReceivePathInside == TsifSpec => Spec
<1>1. TsifInit => Init
  BY DEF TsifInit
<1>2. [TsifNext]_allVars => [Next]_vars
  BY RxStep
<1> QED BY <1>1, <1>2, PTL DEF TsifSpec, Spec

-----------------------------------------------------------------------------
(* The transmit path.                                                       *)

\* TAF is only told of sessions that TSIF does not sink, and of segments that
\* carry bytes.
EchoedInv == soTAF_SessId \in Seq(Echoed)

LEMMA EchoedStep ==
  ASSUME TypeOK, OrderInv, EchoedInv, [Next]_vars PROVE EchoedInv'
<1>1. CASE RDpFwdMeta
  <2>1. rdp_sessId \in Echoed
    BY <1>1 DEF RDpFwdMeta, OrderInv, RightDisposition, TypeOK, RdpTypeOK, Echoed
  <2> QED BY <1>1, <2>1, QueueOps DEF RDpFwdMeta, EchoedInv
<1>2. CASE TafReadMeta
  <2>1. Tail(soTAF_SessId) \in Seq(Echoed)
    BY <1>2, QueueOps DEF TafReadMeta, EchoedInv
  <2> QED BY <1>2, <2>1 DEF TafReadMeta, EchoedInv, Dequeue
<1>3. ASSUME UNCHANGED soTAF_SessId PROVE EchoedInv'
  BY <1>3 DEF EchoedInv
<1>4. CASE RDp /\ ~RDpFwdMeta
  BY <1>3, <1>4 DEF RDp, RDpIdle, RDpFwdStream, RDpSinkMeta, RDpSinkStream, RDp8801
<1>5. CASE RRh
  BY <1>3, <1>5 DEF RRh, RRhIdle, RRhRequestPart, RRhRequestAll, RRhWaitSpace, RRhSendDReq,
                    RRhUnchanged, tafVars
<1>6. CASE RNh \/ IRb \/ RRm \/ ToeServe \/ COnRead \/ TafReadData \/ MmioEnable
           \/ \E s \in SessIds, n \in SegLens : ToeNotify(s, n)
  BY <1>3, <1>6 DEF RNh, IRb, RRm, ToeServe, COnRead, TafReadData, MmioEnable, ToeNotify,
                    tafVars
<1>7. CASE UNCHANGED vars
  BY <1>3, <1>7 DEF vars, tafVars
<1> QED BY <1>1, <1>2, <1>4, <1>5, <1>6, <1>7 DEF Next, TafRead

LEMMA EchoedHolds == Spec => [](TypeOK /\ FlowInv /\ EchoedInv)
<1>1. Init => EchoedInv
  BY DEF Init, EchoedInv
<1>2. TypeOK /\ OrderInv /\ EchoedInv /\ [Next]_vars => EchoedInv'
  BY EchoedStep
<1> QED BY <1>1, <1>2, FlowIsInvariant, PTL DEF Spec

\* The metadata that TAF takes announce a segment to WRp.
LEMMA TafAnnounces ==
  ASSUME FlowInv, EchoedInv, TafReadMeta
  PROVE  Head(soTAF_SessId) \in Echoed /\ Head(soTAF_DatLen) \in Nat \ {0}
<1>1. Head(soTAF_SessId) \in Echoed
  BY QueueOps DEF EchoedInv, TafReadMeta
<1>2. PICK ann \in Seq(Seg) : Image(LeftOf, ann) = soTAF_DatLen
  BY DEF FlowInv, FlowBy, OutFlow, OutStage
<1>3. /\ Len(ann) \in Nat /\ Len(ann) > 0
      /\ soTAF_DatLen = [i \in 1..Len(ann) |-> LeftOf[ann[i]]]
      /\ ann[1] \in Seg
  <2>1. soTAF_DatLen # << >> /\ soTAF_DatLen = [i \in 1..Len(ann) |-> LeftOf[ann[i]]]
    BY <1>2 DEF TafReadMeta, Image
  <2> QED BY <2>1
<1>4. Head(soTAF_DatLen) = LeftOf[ann[1]]
  BY <1>3
<1>5. LeftOf[ann[1]] \in Nat \ {0}
  BY <1>3 DEF LeftOf, Seg
<1> QED BY <1>1, <1>4, <1>5

LEMMA TxAlone ==
  ASSUME UNCHANGED << txVars, tafLeft, piSHL_Enable, conVars >> PROVE UNCHANGED Tx!vars
BY DEF txVars, conVars, Tx!vars, Tx!rdpVars, Tx!conVars, Tx!txReqVars, Tx!opnVars, Tx!tafVars,
       Tx!wrpVars, Tx!sndVars, Tx!toeVars

LEMMA TxStep ==
  ASSUME FlowInv, EchoedInv, [TsifNext]_allVars PROVE [Tx!Next]_(Tx!vars)
<1>1. CASE UNCHANGED allVars
  BY <1>1, TxAlone DEF allVars, vars, tafVars
<1>2. CASE MmioBit
  BY <1>2 DEF MmioBit, Tx!Next
<1>3. CASE ToeReceives \/ ToeServes \/ ((RNh \/ IRb \/ RRm \/ RRh) /\ UNCHANGED txVars)
  <2>1. UNCHANGED << txVars, tafLeft, piSHL_Enable, conVars >>
    BY <1>3 DEF ToeReceives, ToeServes, ToeNotify, ToeServe, RNh, IRb, RRm, RRh, RRhIdle,
                RRhRequestPart, RRhRequestAll, RRhWaitSpace, RRhSendDReq, RRhUnchanged, tafVars
  <2> QED BY <2>1, TxAlone
<1>4. CASE RDpRest /\ UNCHANGED txVars
  <2>1. UNCHANGED << txVars, tafLeft, piSHL_Enable, conVars >>
    BY <1>4 DEF RDpRest, RDpIdle, RDpFwdMeta, RDpFwdStream, RDpSinkMeta, RDpSinkStream,
                RDpUnchanged
  <2> QED BY <2>1, TxAlone
<1>5. CASE \E sock \in Socks, count \in TxCounts : RDpToCOn(sock, count)
  BY <1>5 DEF RDpToCOn, Tx!Next
<1>6. CASE TafMeta
  BY <1>6, TafAnnounces DEF TafMeta, Tx!Next
<1>7. CASE TafData
  BY <1>7 DEF TafData, Tx!Next
<1>8. CASE PeerCloses \/ ToeOpens \/ ToeGrants \/ ToeTakes
  BY <1>8 DEF PeerCloses, ToeOpens, ToeGrants, ToeTakes, Tx!TOE, Tx!SndReplies, Tx!Next
<1>9. CASE WritePath
  BY <1>9 DEF WritePath, Tx!Next
<1>10. CASE Connect
  BY <1>10 DEF Connect, COnTakes, COnRest, Tx!COn, Tx!Next
<1> QED BY <1>1, <1>2, <1>3, <1>4, <1>5, <1>6, <1>7, <1>8, <1>9, <1>10
        DEF TsifNext, ReadPath, TAF

\* TSIF with RDp and TAF in the places of the environment of TsifTx is TsifTx.
THEOREM TransmitPathInside == TsifSpec => Tx!Spec
<1>1. TsifInit => Tx!Init
  BY DEF TsifInit
<1>2. FlowInv /\ EchoedInv /\ [TsifNext]_allVars => [Tx!Next]_(Tx!vars)
  BY TxStep
<1> QED BY <1>1, <1>2, ReceivePathInside, EchoedHolds, PTL DEF TsifSpec, Tx!Spec

-----------------------------------------------------------------------------
(* What is proved of either path holds of both in the loop.                 *)

TxP == INSTANCE TsifTx_proofs WITH
  SessIds <- TxSessIds, TafSessIds <- Echoed, DatLens <- Nat \ {0},
  Residues <- {<< >>}, PendingOpens <- {<< >>},
  MaxCmds <- MaxNotifs * MaxSplits, MaxSegs <- MaxNotifs * MaxSplits

\* The assumptions that TsifTx makes about its constants.
LEMMA TxConstants ==
  /\ Echoed \subseteq TxSessIds /\ TxSessIds # {} /\ NoSock \notin Socks
  /\ TxCounts \subseteq Nat /\ Nat \ {0} \subseteq Nat \ {0}
  /\ OpnStates \subseteq {"ESTABLISHED", "CLOSED"} /\ SndErrors \subseteq {"NO_ERROR", "NO_SPACE"}
  /\ {RetryCnt, MaxNotifs * MaxSplits, MaxNotifs * MaxSplits} \subseteq Nat
  /\ {cDepth_RDpToCOn, cDepth_COnToWRp, cDepth_Shell, cDepth_TAF} \subseteq Nat \ {0}
  /\ {<< >>} \subseteq Seq(TxP!OpnRep) /\ {<< >>} \subseteq Seq(Socks)
<1>1. MaxNotifs * MaxSplits \in Nat
  BY DepthAssumption, SplitAssumption
<1>2. {<< >>} \subseteq Seq(TxP!OpnRep) /\ {<< >>} \subseteq Seq(Socks)
  OBVIOUS
<1> QED BY <1>1, <1>2, TransmitAssumption, TxAssumption, DepthAssumption

\* Both instances are of the same module with the same values.
LEMMA SameInit == Tx!Init <=> TxP!Init
BY DEF Tx!Init, Tx!AnySess, TxP!Init, TxP!AnySess

LEMMA SameNext == [Tx!Next]_(Tx!vars) <=> [TxP!Next]_(TxP!vars)
BY DEF
  Tx!ARW_BYTES, Tx!rdpVars, Tx!conVars, Tx!txReqVars, Tx!opnVars, Tx!tafVars,
  Tx!wrpVars, Tx!sndVars, Tx!toeVars, Tx!vars, Tx!LenOfChunk, Tx!HasRoom, Tx!Dequeue,
  Tx!Unasked, TxP!Unasked, Tx!MmioEnable, Tx!RdpCommand, Tx!TafAnnounce, Tx!TafChunk, Tx!ToeOpen, Tx!ToeClose,
  Tx!ToePeerCloses, Tx!ToeSndRep, Tx!ToeData, Tx!ConUnchanged, Tx!ConIdleDrain,
  Tx!ConIdle, Tx!IsOpened, Tx!ConCommand, Tx!ConRdRDp, Tx!ConOpnReq, Tx!ConOpnRep,
  Tx!ConWrWRp, Tx!COn, Tx!WrpUnchanged, Tx!WrpStart, Tx!TestWaits, Tx!WrpIdleTest,
  Tx!WrpIdleTaf, Tx!WrpRts, Tx!MayRetry, Tx!AfterSndRep, Tx!GenChunkAfter, Tx!WrpRtsRep,
  Tx!WrpTakesChunk, Tx!WrpStream, Tx!WrpDrain, Tx!IsLastChunk, Tx!WrpTxGen, Tx!WRp,
  Tx!SndReplies, Tx!TOE, Tx!Next, TxP!ARW_BYTES, TxP!rdpVars, TxP!conVars,
  TxP!txReqVars, TxP!opnVars, TxP!tafVars, TxP!wrpVars, TxP!sndVars, TxP!toeVars,
  TxP!vars, TxP!LenOfChunk, TxP!HasRoom, TxP!Dequeue, TxP!MmioEnable, TxP!RdpCommand,
  TxP!TafAnnounce, TxP!TafChunk, TxP!ToeOpen, TxP!ToeClose, TxP!ToePeerCloses,
  TxP!ToeSndRep, TxP!ToeData, TxP!ConUnchanged, TxP!ConIdleDrain, TxP!ConIdle,
  TxP!IsOpened, TxP!ConCommand, TxP!ConRdRDp, TxP!ConOpnReq, TxP!ConOpnRep,
  TxP!ConWrWRp, TxP!COn, TxP!WrpUnchanged, TxP!WrpStart, TxP!TestWaits, TxP!WrpIdleTest,
  TxP!WrpIdleTaf, TxP!WrpRts, TxP!MayRetry, TxP!AfterSndRep, TxP!GenChunkAfter,
  TxP!WrpRtsRep, TxP!WrpTakesChunk, TxP!WrpStream, TxP!WrpDrain, TxP!IsLastChunk,
  TxP!WrpTxGen, TxP!WRp, TxP!SndReplies, TxP!TOE, TxP!Next

LEMMA SameSpec == Tx!Spec => TxP!Spec
BY SameInit, SameNext, PTL DEF Tx!Spec, TxP!Spec

\* In the loop as with any TAF and any RDp, what WRp sends fills the segments the TOE
\* has granted, the test pattern starts anew with each test, and the data of TAF stay
\* with their requests.
THEOREM SendsWellInTheLoop ==
  TsifSpec => [](Tx!GrantsFilled /\ Tx!TestPattern /\ Tx!TafAligned)
<1>1. TsifSpec => TxP!Spec
  BY TransmitPathInside, SameSpec, PTL
<1>2. TxP!Spec => [](TxP!GrantsFilled /\ TxP!TestPattern)
  BY TxConstants, TxP!GrantsAreFilled, TxP!PatternAlternates, PTL
<1>3. TxP!Spec => []TxP!TafAligned
  BY TxConstants, TxP!TafStaysAligned, PTL
<1>4. /\ TxP!GrantsFilled <=> Tx!GrantsFilled
      /\ TxP!TestPattern <=> Tx!TestPattern
      /\ TxP!TafAligned <=> Tx!TafAligned
  BY DEF Tx!GrantsFilled, TxP!GrantsFilled, Tx!TestPattern, TxP!TestPattern, Tx!TafAligned,
         TxP!TafAligned, Tx!ARW_BYTES, TxP!ARW_BYTES
<1> QED BY <1>1, <1>2, <1>3, <1>4, PTL

\* Whether COn and TAF stall RDp or not, and whatever connections close meanwhile, no
\* byte of the buffer is counted twice or lost but by the branch of line 1194 and by
\* the top of the register.
THEOREM CreditInTheLoop == TsifSpec => CreditKept
BY ReceivePathInside, BalanceIsKept, PTL

\* The chunk that TAF reads from RDp is the one it owes to WRp: putting the two paths
\* together stops neither, and what is received on a port for TAF goes back whole.
THEOREM EchoIsPassedOn == TsifSpec => []PassedOnWhole
<1>1. FlowInv => PassedOnWhole
  <2> SUFFICES ASSUME FlowInv, tafLeft > 0, soTAF_Data # << >>
               PROVE  LET chunk == Head(soTAF_Data)
                      IN /\ chunk.len = Tx!LenOfChunk(tafLeft)
                         /\ chunk.tlast <=> chunk.len = tafLeft
    BY DEF PassedOnWhole
  <2>1. PICK t \in Seg : tafLeft = t.left /\ Head(soTAF_Data) = ChunkAt[t]
    BY ReadsOwn
  <2>2. /\ ChunkAt[t].len = LenOfChunk(t.left)
        /\ ChunkAt[t].tlast <=> t.left <= ARW_BYTES
    BY ChunkFields
  <2>3. /\ LenOfChunk(t.left) = Tx!LenOfChunk(t.left)
        /\ t.left <= ARW_BYTES <=> LenOfChunk(t.left) = t.left
    BY DEF LenOfChunk, Tx!LenOfChunk, Seg, ARW_BYTES, Tx!ARW_BYTES
  <2> QED BY <2>1, <2>2, <2>3
<1> QED BY <1>1, ReceivePathInside, FlowIsInvariant, PTL
================================================================================
