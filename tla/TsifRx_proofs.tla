---------------------------- MODULE TsifRx_proofs ----------------------------
(***************************************************************************)
(* Proofs about TsifRx, for every value of its constants: its types, the   *)
(* order of the sessions, the flow of the chunks from the TOE to TAF, and  *)
(* the counts of TsifRxCredit.                                             *)
(***************************************************************************)
EXTENDS TsifRxCredit, StreamLemmas, FiniteSetTheorems

-----------------------------------------------------------------------------
(* The values TypeOK is about.                                              *)

LEMMA AnySessOK == AnySess \in SessIds
  BY SessAssumption DEF AnySess

\* A command built by RRh is a command.
LEMMA FwdCmdOK ==
  ASSUME NEW s \in SessIds, NEW n \in Nat
  PROVE  FwdCmdFor(s, n) \in ForwardCmd
  BY DEF FwdCmdFor, ForwardCmd

\* The chunks of a segment that is not empty carry between one and eight bytes.
LEMMA SegmentOK ==
  ASSUME NEW s \in SessIds, NEW from \in Nat, NEW n \in Nat, n > 0
  PROVE  Segment(s, from, n) \in Seq(Chunk)
<1>1. Chunks(n) \in Nat
  BY DEF Chunks, ARW_BYTES
<1>2. ASSUME NEW i \in 1..Chunks(n)
      PROVE  Segment(s, from, n)[i] \in Chunk
  BY <1>1, <1>2 DEF Segment, Chunks, Chunk, ARW_BYTES
<1>3. QED
  BY <1>1, <1>2, IsASeq DEF Segment

-----------------------------------------------------------------------------
(* TypeOK.  A part of it that a step does not touch is kept.                *)

LEMMA TypePartsKept ==
  ASSUME TypeOK
  PROVE  /\ UNCHANGED shlVars => ShlTypeOK'
         /\ UNCHANGED << rrh_fsmState, rrh_notif, rrh_datLenReq >> => RrhTypeOK'
         /\ UNCHANGED << rrh_freeSpace, ssRDpToRRh_Dequeue >> => FreeSpaceOK'
         /\ UNCHANGED reqVars => ReqTypeOK'
         /\ UNCHANGED irbVars => IrbTypeOK'
         /\ UNCHANGED rdpVars => RdpTypeOK'
         /\ UNCHANGED conVars => ConTypeOK'
         /\ UNCHANGED tafVars => TafTypeOK'
<1> USE DEF TypeOK
<1>1. UNCHANGED shlVars => ShlTypeOK'
  BY DEF shlVars, ShlTypeOK
<1>2. UNCHANGED << rrh_fsmState, rrh_notif, rrh_datLenReq >> => RrhTypeOK'
  BY DEF RrhTypeOK
<1>3. UNCHANGED << rrh_freeSpace, ssRDpToRRh_Dequeue >> => FreeSpaceOK'
  BY DEF FreeSpaceOK
<1>4. UNCHANGED reqVars => ReqTypeOK'
  BY DEF reqVars, ReqTypeOK
<1>5. UNCHANGED irbVars => IrbTypeOK'
  BY DEF irbVars, IrbTypeOK
<1>6. UNCHANGED rdpVars => RdpTypeOK'
  BY DEF rdpVars, RdpTypeOK
<1>7. UNCHANGED conVars => ConTypeOK'
  BY DEF conVars, ConTypeOK
<1>8. UNCHANGED tafVars => TafTypeOK'
  BY DEF tafVars, TafTypeOK
<1>9. QED
  BY <1>1, <1>2, <1>3, <1>4, <1>5, <1>6, <1>7, <1>8

\* The register of the free space counts up to a whole number of chunks.
LEMMA FreeSpaceModOK ==
  /\ FreeSpaceMod \in Nat /\ FreeSpaceMod > ARW_BYTES
  /\ FreeSpaceMod % ARW_BYTES = 0
  BY DepthAssumption DEF FreeSpaceMod, cIBuffBytes, ARW_BYTES

\* Handling a dequeue signal keeps the free space a whole number of chunks
\* below the wrap of its register.
LEMMA HandleDequeueOK ==
  ASSUME FreeSpaceOK, NEW space \in 0..(FreeSpaceMod - 1), space % ARW_BYTES = 0,
         HandleDequeue(space)
  PROVE  FreeSpaceOK'
  BY DepthAssumption
     DEF FreeSpaceOK, HandleDequeue, WrapAdd, FreeSpaceMod, cIBuffBytes, ARW_BYTES

LEMMA TypeEnvironment ==
  ASSUME TypeOK, MmioEnable \/ ToeServe \/ COnRead \/ TafRead
                 \/ \E s \in SessIds, n \in SegLens : ToeNotify(s, n)
  PROVE  TypeOK'
<1>1. CASE MmioEnable
  <2>1. piSHL_Enable' \in BOOLEAN
    BY <1>1, Zenon DEF MmioEnable
  <2>2. UNCHANGED << shlVars, ssRNhToRRh_Notif, rrhVars, reqVars, irbVars, rdpVars,
                     ssRDpToRRh_Dequeue, conVars, tafVars >>
    BY <1>1 DEF MmioEnable
  <2>3. QED
    BY <2>1, <2>2, TypePartsKept DEF TypeOK, rrhVars
<1>2. ASSUME NEW s \in SessIds, NEW n \in SegLens, ToeNotify(s, n)
      PROVE  TypeOK'
  <2>1. ShlTypeOK'
    <3>1. n \in Nat /\ [sessId |-> s, tcpDatLen |-> n] \in Notif
      BY <1>2, LenAssumption DEF Notif
    <3>2. siSHL_Notif' \in Seq(Notif) /\ toeNotifs' \in 0..MaxNotifs
      BY <1>2, <3>1, DepthAssumption DEF ToeNotify, TypeOK, ShlTypeOK
    <3>3. toeEnd' \in [SessIds -> Nat]
      BY <1>2, <3>1 DEF ToeNotify, TypeOK, ShlTypeOK
    <3>4. QED
      BY <1>2, <3>2, <3>3 DEF ToeNotify, TypeOK, ShlTypeOK
  <2>2. QED
    BY <1>2, <2>1, TypePartsKept DEF ToeNotify, TypeOK, rrhVars
<1>3. CASE ToeServe
  <2> DEFINE req == Head(soSHL_DReq)
             seg == Segment(req.sessId, toeRd[req.sessId], req.datLen)
  <2>1. req \in DReq /\ req.datLen > 0
    BY <1>3 DEF ToeServe, TypeOK, ShlTypeOK
  <2>2. toeRd[req.sessId] \in Nat
    BY <2>1 DEF TypeOK, ShlTypeOK, DReq
  <2>3. seg \in Seq(Chunk)
    BY <2>1, <2>2, SegmentOK DEF DReq
  <2>4. /\ siSHL_Data' = siSHL_Data \o seg
        /\ siSHL_Meta' = Append(siSHL_Meta, req.sessId)
        /\ toeRd' = [toeRd EXCEPT ![req.sessId] = @ + req.datLen]
        /\ soSHL_DReq' = Tail(soSHL_DReq) /\ soSHL_DReq # << >>
        /\ UNCHANGED << siSHL_Notif, toeNotifs, toeEnd >>
    BY <1>3 DEF ToeServe, Dequeue
  <2>5. UNCHANGED << piSHL_Enable, ssRNhToRRh_Notif, rrhVars, reqVars, irbVars, rdpVars,
                     ssRDpToRRh_Dequeue, conVars, tafVars >>
    BY <1>3 DEF ToeServe
  <2>6. siSHL_Data' \in Seq(Chunk)
    BY <2>3, <2>4, ConcatProperties DEF TypeOK, ShlTypeOK
  <2> HIDE DEF seg, req
  <2>7. req.sessId \in SessIds /\ req.datLen \in Nat
    BY <2>1 DEF DReq
  <2>8. siSHL_Meta' \in Seq(SessIds) /\ soSHL_DReq' \in Seq(DReq)
    BY <2>4, <2>7 DEF TypeOK, ShlTypeOK
  <2>9. toeRd' \in [SessIds -> Nat]
    <3>1. toeRd \in [SessIds -> Nat]
      BY DEF TypeOK, ShlTypeOK
    <3>2. toeRd[req.sessId] + req.datLen \in Nat
      BY <3>1, <2>7
    <3>3. QED
      BY <3>1, <3>2, <2>4
  <2>10. ShlTypeOK'
    BY <2>4, <2>6, <2>8, <2>9 DEF TypeOK, ShlTypeOK
  <2>11. QED
    BY <2>5, <2>10, TypePartsKept DEF TypeOK, rrhVars
<1>4. CASE COnRead
  <2>1. ConTypeOK'
    BY <1>4 DEF COnRead, TypeOK, ConTypeOK, Dequeue
  <2>2. QED
    BY <1>4, <2>1, TypePartsKept DEF COnRead, TypeOK, rrhVars
<1>5. CASE TafReadMeta
  <2>1. TafTypeOK'
    BY <1>5 DEF TafReadMeta, TypeOK, TafTypeOK, Dequeue
  <2>2. QED
    BY <1>5, <2>1, TypePartsKept DEF TafReadMeta, TypeOK, rrhVars
<1>6. CASE TafReadData
  <2> DEFINE chunk == Head(soTAF_Data)
  <2>1. chunk \in Chunk
    BY <1>6 DEF TafReadData, TypeOK, TafTypeOK
  <2>2. /\ tafLeft' = (IF chunk.tlast THEN 0 ELSE tafLeft - chunk.len)
        /\ tafPos' = [tafPos EXCEPT ![chunk.sessId] = chunk.pos + chunk.len]
        /\ soTAF_Data' \in Seq(Chunk)
        /\ UNCHANGED << soTAF_SessId, soTAF_DatLen, tafSess >>
    BY <1>6 DEF TafReadData, TypeOK, TafTypeOK, Dequeue
  <2> HIDE DEF chunk
  <2>3. chunk.sessId \in SessIds /\ chunk.pos \in Nat /\ chunk.len \in 1..8
    BY <2>1 DEF Chunk, ARW_BYTES
  <2>4. tafLeft' \in Int
    BY <2>2, <2>3 DEF TypeOK, TafTypeOK
  <2>5. tafPos' \in [SessIds -> Nat]
    <3>1. tafPos \in [SessIds -> Nat]
      BY DEF TypeOK, TafTypeOK
    <3>2. chunk.pos + chunk.len \in Nat
      BY <2>3
    <3>3. QED
      BY <3>1, <3>2, <2>2
  <2>6. QED
    BY <1>6, <2>2, <2>4, <2>5, TypePartsKept DEF TafReadData, TypeOK, TafTypeOK, rrhVars
<1>7. QED
  BY <1>1, <1>2, <1>3, <1>4, <1>5, <1>6 DEF TafRead

LEMMA TypeMovers ==
  ASSUME TypeOK, RNh \/ IRb \/ RRm
  PROVE  TypeOK'
<1>1. CASE RNh
  <2>1. ShlTypeOK' /\ ssRNhToRRh_Notif' \in Seq(Notif)
    BY <1>1 DEF RNh, TypeOK, ShlTypeOK, Dequeue
  <2>2. QED
    BY <1>1, <2>1, TypePartsKept DEF RNh, TypeOK, rrhVars
<1>2. CASE IRb
  <2>1. ssIRbToRDp_Meta' \in Seq(SessIds) /\ siSHL_Meta' \in Seq(SessIds)
    <3>1. CASE IRbMovesMeta
      <4>1. /\ siSHL_Meta # << >>
            /\ ssIRbToRDp_Meta' = Append(ssIRbToRDp_Meta, Head(siSHL_Meta))
            /\ siSHL_Meta' = Tail(siSHL_Meta)
        BY <1>2, <3>1 DEF IRb, IRbMovesMeta, Dequeue
      <4>2. QED
        BY <4>1 DEF TypeOK, ShlTypeOK, IrbTypeOK
    <3>2. CASE ~IRbMovesMeta
      BY <1>2, <3>2 DEF IRb, TypeOK, ShlTypeOK, IrbTypeOK
    <3>3. QED
      BY <3>1, <3>2
  <2>2. ssIRbToRDp_Data' \in Seq(Chunk) /\ siSHL_Data' \in Seq(Chunk)
    <3>1. CASE IRbMovesData
      <4>1. /\ siSHL_Data # << >>
            /\ ssIRbToRDp_Data' = Append(ssIRbToRDp_Data, Head(siSHL_Data))
            /\ siSHL_Data' = Tail(siSHL_Data)
        BY <1>2, <3>1 DEF IRb, IRbMovesData, Dequeue
      <4>2. QED
        BY <4>1 DEF TypeOK, ShlTypeOK, IrbTypeOK
    <3>2. CASE ~IRbMovesData
      BY <1>2, <3>2 DEF IRb, TypeOK, ShlTypeOK, IrbTypeOK
    <3>3. QED
      BY <3>1, <3>2
  <2>3. UNCHANGED << piSHL_Enable, siSHL_Notif, soSHL_DReq, toeNotifs, toeEnd, toeRd,
                     ssRNhToRRh_Notif, rrhVars, reqVars, rdpVars,
                     ssRDpToRRh_Dequeue, conVars, tafVars >>
    BY <1>2 DEF IRb
  <2>4. ShlTypeOK' /\ IrbTypeOK'
    BY <2>1, <2>2, <2>3 DEF TypeOK, ShlTypeOK, IrbTypeOK
  <2>5. QED
    BY <2>3, <2>4, TypePartsKept DEF TypeOK, rrhVars
<1>3. CASE RRm
  <2>1. ShlTypeOK' /\ ReqTypeOK'
    BY <1>3 DEF RRm, TypeOK, ShlTypeOK, ReqTypeOK, Dequeue
  <2>2. QED
    BY <1>3, <2>1, TypePartsKept DEF RRm, TypeOK, rrhVars
<1>4. QED
  BY <1>1, <1>2, <1>3

LEMMA TypeRRh ==
  ASSUME TypeOK, RRh
  PROVE  TypeOK'
<1> USE DEF RRhUnchanged, Dequeue
<1>1. CASE RRhIdle
  <2>1. FreeSpaceOK'
    BY <1>1, HandleDequeueOK DEF RRhIdle, TypeOK, FreeSpaceOK
  <2>2. RrhTypeOK' /\ ssRNhToRRh_Notif' \in Seq(Notif)
    BY <1>1 DEF RRhIdle, TypeOK, RrhTypeOK
  <2>3. QED
    BY <1>1, <2>1, <2>2, TypePartsKept DEF RRhIdle, TypeOK
<1>2. CASE RRhRequestPart
  <2>1. FreeSpaceOK'
    <3>1. CASE rrh_freeSpace' = 0 /\ UNCHANGED ssRDpToRRh_Dequeue
      BY <3>1, FreeSpaceModOK DEF TypeOK, FreeSpaceOK, ARW_BYTES
    <3>2. CASE HandleDequeue(rrh_freeSpace)
      BY <3>2, HandleDequeueOK DEF TypeOK, FreeSpaceOK
    <3>3. QED
      BY <1>2, <3>1, <3>2 DEF RRhRequestPart, NotifLeft, HandleDequeue
  <2>2. rrh_freeSpace \in Nat
    BY FreeSpaceModOK DEF TypeOK, FreeSpaceOK
  <2>3. RrhTypeOK'
    BY <1>2, <2>2 DEF RRhRequestPart, NotifLeft, TypeOK, RrhTypeOK, Notif
  <2>4. QED
    BY <1>2, <2>1, <2>3, TypePartsKept DEF RRhRequestPart, NotifLeft, TypeOK
<1>3. CASE RRhRequestAll
  <2>1. /\ rrh_notif.tcpDatLen \in Nat
        /\ rrh_freeSpace \in Nat /\ rrh_freeSpace % ARW_BYTES = 0
        /\ rrh_freeSpace < FreeSpaceMod
        /\ rrh_notif.tcpDatLen <= rrh_freeSpace
    BY <1>3, FreeSpaceModOK DEF RRhRequestAll, TypeOK, RrhTypeOK, Notif, FreeSpaceOK
  <2> DEFINE rest == rrh_notif.tcpDatLen % ARW_BYTES
             space == rrh_freeSpace - (rrh_notif.tcpDatLen - rest)
  <2>2. /\ space \in 0..rrh_freeSpace /\ space % ARW_BYTES = 0
        /\ rest # 0 => /\ space - ARW_BYTES \in 0..rrh_freeSpace
                       /\ (space - ARW_BYTES) % ARW_BYTES = 0
    BY <2>1 DEF ARW_BYTES
  <2>3. \/ rrh_freeSpace' = space /\ UNCHANGED ssRDpToRRh_Dequeue
        \/ rest # 0 /\ HandleDequeue(space - ARW_BYTES)
    BY <1>3 DEF RRhRequestAll
  <2> HIDE DEF space, rest
  <2>4. space \in 0..(FreeSpaceMod - 1)
        /\ (rest # 0 => space - ARW_BYTES \in 0..(FreeSpaceMod - 1))
    BY <2>1, <2>2, FreeSpaceModOK
  <2>5. FreeSpaceOK'
    BY <2>2, <2>3, <2>4, HandleDequeueOK DEF TypeOK, FreeSpaceOK
  <2>6. RrhTypeOK'
    BY <1>3 DEF RRhRequestAll, TypeOK, RrhTypeOK, Notif
  <2>7. QED
    BY <1>3, <2>5, <2>6, TypePartsKept DEF RRhRequestAll, TypeOK
<1>4. CASE RRhWaitSpace
  <2>1. FreeSpaceOK'
    BY <1>4, HandleDequeueOK DEF RRhWaitSpace, TypeOK, FreeSpaceOK
  <2>2. QED
    BY <1>4, <2>1, TypePartsKept DEF RRhWaitSpace, TypeOK
<1>5. CASE RRhSendDReq
  <2>1. FreeSpaceOK'
    BY <1>5, HandleDequeueOK DEF RRhSendDReq, TypeOK, FreeSpaceOK
  <2>2. /\ FwdCmdFor(rrh_notif.sessId, rrh_datLenReq) \in ForwardCmd
        /\ [sessId |-> rrh_notif.sessId, datLen |-> rrh_datLenReq] \in DReq
    BY FwdCmdOK DEF TypeOK, RrhTypeOK, Notif, DReq
  <2>3. ReqTypeOK'
    <3>1. CASE UNCHANGED reqVars
      BY <3>1, TypePartsKept
    <3>2. CASE ~UNCHANGED reqVars
      <4>1. /\ ssRRhToRRm_DReq' =
                  Append(ssRRhToRRm_DReq,
                         [sessId |-> rrh_notif.sessId, datLen |-> rrh_datLenReq])
            /\ ssRRhToRDp_FwdCmd' =
                  Append(ssRRhToRDp_FwdCmd, FwdCmdFor(rrh_notif.sessId, rrh_datLenReq))
        BY <1>5, <3>2 DEF RRhSendDReq
      <4>2. QED
        BY <2>2, <4>1 DEF TypeOK, ReqTypeOK
    <3>3. QED
      BY <3>1, <3>2
  <2>4. RrhTypeOK'
    BY <1>5 DEF RRhSendDReq, TypeOK, RrhTypeOK
  <2>5. QED
    BY <1>5, <2>1, <2>3, <2>4, TypePartsKept DEF RRhSendDReq, TypeOK
<1>6. QED
  BY <1>1, <1>2, <1>3, <1>4, <1>5 DEF RRh

LEMMA TypeRDp ==
  ASSUME TypeOK, RDp
  PROVE  TypeOK'
<1> USE DEF RDpUnchanged, Dequeue
<1>1. ASSUME RDpTakesChunk
      PROVE  /\ ssIRbToRDp_Data' \in Seq(Chunk)
             /\ Head(ssIRbToRDp_Data) \in Chunk
             /\ rrh_freeSpace' = rrh_freeSpace => FreeSpaceOK'
  BY <1>1, DepthAssumption DEF RDpTakesChunk, TypeOK, IrbTypeOK, FreeSpaceOK
<1>2. CASE RDpIdle
  <2>1. RdpTypeOK' /\ IrbTypeOK' /\ ReqTypeOK'
    BY <1>2 DEF RDpIdle, TypeOK, RdpTypeOK, IrbTypeOK, ReqTypeOK
  <2>2. QED
    BY <1>2, <2>1, TypePartsKept DEF RDpIdle, TypeOK, rrhVars, tafVars
<1>3. CASE RDpFwdMeta
  <2>1. RdpTypeOK' /\ TafTypeOK'
    BY <1>3 DEF RDpFwdMeta, TypeOK, RdpTypeOK, TafTypeOK, ForwardCmd
  <2>2. QED
    BY <1>3, <2>1, TypePartsKept DEF RDpFwdMeta, TypeOK, rrhVars, reqVars
<1>4. CASE RDpFwdStream
  <2>1. RdpTypeOK' /\ TafTypeOK' /\ IrbTypeOK'
    BY <1>1, <1>4 DEF RDpFwdStream, TypeOK, RdpTypeOK, TafTypeOK, IrbTypeOK
  <2>2. QED
    BY <1>1, <1>4, <2>1, TypePartsKept DEF RDpFwdStream, TypeOK, rrhVars, reqVars
<1>5. CASE RDpSinkMeta
  <2>1. RdpTypeOK'
    BY <1>5 DEF RDpSinkMeta, TypeOK, RdpTypeOK
  <2>2. QED
    BY <1>5, <2>1, TypePartsKept DEF RDpSinkMeta, TypeOK, rrhVars, reqVars, tafVars
<1>6. CASE RDpSinkStream
  <2>1. RdpTypeOK' /\ IrbTypeOK'
    BY <1>1, <1>6 DEF RDpSinkStream, TypeOK, RdpTypeOK, IrbTypeOK
  <2>2. QED
    BY <1>1, <1>6, <2>1, TypePartsKept DEF RDpSinkStream, TypeOK, rrhVars, reqVars, tafVars
<1>7. ASSUME NEW sock \in Socks, NEW count \in TxCounts, RDp8801(sock, count)
      PROVE  TypeOK'
  <2>1. RdpTypeOK' /\ IrbTypeOK' /\ ConTypeOK'
    BY <1>1, <1>7 DEF RDp8801, AfterCmdChunk, TypeOK, RdpTypeOK, IrbTypeOK, ConTypeOK
  <2>2. QED
    BY <1>1, <1>7, <2>1, TypePartsKept DEF RDp8801, AfterCmdChunk, TypeOK, rrhVars, reqVars, tafVars
<1>8. QED
  BY <1>2, <1>3, <1>4, <1>5, <1>6, <1>7 DEF RDp

\* tcp_shell_if.cpp:1033-1464, RNh to RDp: every register and stream keeps its
\* type; the count of free space (1174-1243) never leaves its register and is
\* always a whole number of chunks.
THEOREM TypeInvariant == Spec => []TypeOK
<1>1. Init => TypeOK
  <2> SUFFICES ASSUME Init PROVE TypeOK
    OBVIOUS
  <2>1. ShlTypeOK /\ ReqTypeOK /\ IrbTypeOK /\ ConTypeOK
    BY DepthAssumption DEF Init, ShlTypeOK, ReqTypeOK, IrbTypeOK, ConTypeOK
  <2>2. FreeSpaceOK
    BY DepthAssumption DEF Init, FreeSpaceOK, FreeSpaceMod, cIBuffBytes, ARW_BYTES
  <2>3. RrhTypeOK /\ RdpTypeOK /\ TafTypeOK
    BY AnySessOK, FwdCmdOK DEF Init, RrhTypeOK, RdpTypeOK, TafTypeOK, Notif
  <2>4. piSHL_Enable \in BOOLEAN /\ ssRNhToRRh_Notif \in Seq(Notif)
    <3>1. piSHL_Enable \in BOOLEAN
      BY Zenon DEF Init
    <3>2. ssRNhToRRh_Notif \in Seq(Notif)
      BY DEF Init
    <3>3. QED
      BY <3>1, <3>2
  <2>5. QED
    BY <2>1, <2>2, <2>3, <2>4 DEF TypeOK
<1>2. TypeOK /\ [Next]_vars => TypeOK'
  <2>1. ASSUME TypeOK, UNCHANGED vars
        PROVE  TypeOK'
    <3>1. /\ UNCHANGED << piSHL_Enable, ssRNhToRRh_Notif, ssRDpToRRh_Dequeue >>
          /\ UNCHANGED shlVars /\ UNCHANGED rrhVars /\ UNCHANGED reqVars
          /\ UNCHANGED irbVars /\ UNCHANGED rdpVars /\ UNCHANGED conVars
          /\ UNCHANGED tafVars
      BY <2>1 DEF vars
    <3>2. QED
      BY <2>1, <3>1, TypePartsKept DEF TypeOK, rrhVars
  <2>2. TypeOK /\ Next => TypeOK'
    BY TypeEnvironment, TypeMovers, TypeRRh, TypeRDp DEF Next
  <2>3. QED
    BY <2>1, <2>2
<1>3. QED
  BY <1>1, <1>2, PTL DEF Spec

-----------------------------------------------------------------------------
(* Order.                                                                   *)

\* SessionsOf follows the streams it is taken of.
LEMMA SessionsOfSeq ==
  ASSUME NEW S, \A m \in S : m.sessId \in SessIds, NEW q \in Seq(S)
  PROVE  /\ SessionsOf(q) \in Seq(SessIds)
         /\ Len(SessionsOf(q)) = Len(q)
         /\ \A i \in 1..Len(q) : SessionsOf(q)[i] = q[i].sessId
<1>1. \A i \in 1..Len(q) : q[i] \in S
  OBVIOUS
<1>2. SessionsOf(q) \in Seq(SessIds)
  BY <1>1, IsASeq DEF SessionsOf
<1>3. QED
  BY <1>2 DEF SessionsOf

LEMMA SessionsOfAppend ==
  ASSUME NEW S, \A m \in S : m.sessId \in SessIds, NEW q \in Seq(S), NEW m \in S
  PROVE  SessionsOf(Append(q, m)) = Append(SessionsOf(q), m.sessId)
<1>1. /\ Append(q, m) \in Seq(S) /\ Len(Append(q, m)) = Len(q) + 1
      /\ Len(q) \in Nat
  OBVIOUS
<1>2. /\ SessionsOf(Append(q, m)) \in Seq(SessIds)
      /\ Len(SessionsOf(Append(q, m))) = Len(q) + 1
      /\ \A i \in 1..(Len(q) + 1) : SessionsOf(Append(q, m))[i] = Append(q, m)[i].sessId
  BY <1>1, SessionsOfSeq
<1>3. /\ SessionsOf(q) \in Seq(SessIds) /\ Len(SessionsOf(q)) = Len(q)
      /\ \A i \in 1..Len(q) : SessionsOf(q)[i] = q[i].sessId
  BY SessionsOfSeq
<1>4. /\ Append(SessionsOf(q), m.sessId) \in Seq(SessIds)
      /\ Len(Append(SessionsOf(q), m.sessId)) = Len(q) + 1
  BY <1>3
<1>5. ASSUME NEW i \in 1..(Len(q) + 1)
      PROVE  SessionsOf(Append(q, m))[i] = Append(SessionsOf(q), m.sessId)[i]
  BY <1>1, <1>2, <1>3, <1>4
<1>6. QED
  BY <1>2, <1>4, <1>5, SeqEqual

LEMMA SessionsOfHeadTail ==
  ASSUME NEW S, \A m \in S : m.sessId \in SessIds, NEW q \in Seq(S), q # << >>
  PROVE  /\ SessionsOf(q) # << >>
         /\ Head(SessionsOf(q)) = Head(q).sessId
         /\ SessionsOf(Tail(q)) = Tail(SessionsOf(q))
<1>1. /\ Tail(q) \in Seq(S) /\ Len(Tail(q)) = Len(q) - 1
      /\ Len(q) \in Nat /\ Len(q) > 0 /\ Head(q) = q[1]
      /\ \A i \in 1..(Len(q) - 1) : Tail(q)[i] = q[i + 1]
  OBVIOUS
<1>2. /\ SessionsOf(q) \in Seq(SessIds) /\ Len(SessionsOf(q)) = Len(q)
      /\ \A i \in 1..Len(q) : SessionsOf(q)[i] = q[i].sessId
  BY SessionsOfSeq
<1>3. /\ SessionsOf(Tail(q)) \in Seq(SessIds)
      /\ Len(SessionsOf(Tail(q))) = Len(q) - 1
      /\ \A i \in 1..(Len(q) - 1) : SessionsOf(Tail(q))[i] = Tail(q)[i].sessId
  BY <1>1, SessionsOfSeq
<1>4. SessionsOf(q) # << >> /\ Head(SessionsOf(q)) = Head(q).sessId
  BY <1>1, <1>2
<1>5. /\ Tail(SessionsOf(q)) \in Seq(SessIds)
      /\ Len(Tail(SessionsOf(q))) = Len(q) - 1
      /\ \A i \in 1..(Len(q) - 1) : Tail(SessionsOf(q))[i] = SessionsOf(q)[i + 1]
  BY <1>1, <1>2, <1>4
<1>6. ASSUME NEW i \in 1..(Len(q) - 1)
      PROVE  SessionsOf(Tail(q))[i] = Tail(SessionsOf(q))[i]
  BY <1>1, <1>2, <1>3, <1>5
<1>7. QED
  BY <1>3, <1>4, <1>5, <1>6, SeqEqual

-----------------------------------------------------------------------------
(* OrderInv.                                                                *)

LEMMA HaveSession ==
  /\ \A m \in DReq : m.sessId \in SessIds
  /\ \A m \in ForwardCmd : m.sessId \in SessIds
  BY DEF DReq, ForwardCmd

\* The streams of SessionsInOrder are sequences of sessions.
LEMMA OrderStreams ==
  ASSUME TypeOK
  PROVE  /\ ssIRbToRDp_Meta \in Seq(SessIds) /\ siSHL_Meta \in Seq(SessIds)
         /\ soSHL_DReq \in Seq(DReq) /\ ssRRhToRRm_DReq \in Seq(DReq)
         /\ ssRRhToRDp_FwdCmd \in Seq(ForwardCmd)
         /\ SessionsOf(soSHL_DReq) \in Seq(SessIds)
         /\ SessionsOf(ssRRhToRRm_DReq) \in Seq(SessIds)
         /\ SessionsOf(ssRRhToRDp_FwdCmd) \in Seq(SessIds)
<1>1. /\ ssIRbToRDp_Meta \in Seq(SessIds) /\ siSHL_Meta \in Seq(SessIds)
      /\ soSHL_DReq \in Seq(DReq) /\ ssRRhToRRm_DReq \in Seq(DReq)
      /\ ssRRhToRDp_FwdCmd \in Seq(ForwardCmd)
  BY DEF TypeOK, ShlTypeOK, IrbTypeOK, ReqTypeOK
<1>2. QED
  BY <1>1, HaveSession, SessionsOfSeq

\* A step that leaves the streams, the commands and RDp alone keeps OrderInv.
LEMMA OrderKept ==
  ASSUME OrderInv,
         UNCHANGED << ssIRbToRDp_Meta, siSHL_Meta, soSHL_DReq, reqVars, rdpVars >>
  PROVE  OrderInv'
  BY DEF OrderInv, SessionsInOrder, CommandsMatchPort, RightDisposition, SessionsOf,
         Dropped, reqVars, rdpVars

\* The segment whose command and metadata RDp is about to read has one session.
LEMMA HeadsAgree ==
  ASSUME TypeOK, OrderInv, ssRRhToRDp_FwdCmd # << >>, ssIRbToRDp_Meta # << >>
  PROVE  /\ Head(ssRRhToRDp_FwdCmd).sessId = Head(ssIRbToRDp_Meta)
         /\ SessionsOf(Tail(ssRRhToRDp_FwdCmd)) =
              (Tail(ssIRbToRDp_Meta) \o siSHL_Meta) \o
              (SessionsOf(soSHL_DReq) \o SessionsOf(ssRRhToRRm_DReq))
<1> DEFINE ab == ssIRbToRDp_Meta \o siSHL_Meta
           cd == SessionsOf(soSHL_DReq) \o SessionsOf(ssRRhToRRm_DReq)
<1>1. /\ ssIRbToRDp_Meta \in Seq(SessIds) /\ siSHL_Meta \in Seq(SessIds)
      /\ ab \in Seq(SessIds) /\ cd \in Seq(SessIds)
  BY OrderStreams
<1>2. ab # << >> /\ Head(ab) = Head(ssIRbToRDp_Meta)
      /\ Tail(ab) = Tail(ssIRbToRDp_Meta) \o siSHL_Meta
  BY <1>1, HeadTailConcat
<1>3. SessionsOf(ssRRhToRDp_FwdCmd) = ab \o cd
  BY DEF OrderInv, SessionsInOrder
<1> HIDE DEF ab, cd
<1>4. Head(ab \o cd) = Head(ab) /\ Tail(ab \o cd) = Tail(ab) \o cd
  BY <1>1, <1>2, HeadTailConcat
<1>5. /\ Head(SessionsOf(ssRRhToRDp_FwdCmd)) = Head(ssRRhToRDp_FwdCmd).sessId
      /\ SessionsOf(Tail(ssRRhToRDp_FwdCmd)) = Tail(SessionsOf(ssRRhToRDp_FwdCmd))
  BY OrderStreams, HaveSession, SessionsOfHeadTail
<1>6. QED
  BY <1>2, <1>3, <1>4, <1>5 DEF cd

LEMMA OrderStreamMoves ==
  ASSUME TypeOK, OrderInv, ToeServe \/ IRb \/ RRm \/ RRhSendDReq
  PROVE  SessionsInOrder'
<1> DEFINE a == ssIRbToRDp_Meta
           b == siSHL_Meta
           c == SessionsOf(soSHL_DReq)
           d == SessionsOf(ssRRhToRRm_DReq)
           F == SessionsOf(ssRRhToRDp_FwdCmd)
<1>1. /\ a \in Seq(SessIds) /\ b \in Seq(SessIds) /\ c \in Seq(SessIds)
      /\ d \in Seq(SessIds) /\ F \in Seq(SessIds)
  BY OrderStreams
<1>2. F = (a \o b) \o (c \o d)
  BY DEF OrderInv, SessionsInOrder
<1>3. SUFFICES F' = (a' \o b') \o (c' \o d')
  BY DEF SessionsInOrder
<1>4. CASE ToeServe
  <2>1. /\ soSHL_DReq # << >> /\ soSHL_DReq' = Tail(soSHL_DReq)
        /\ b' = Append(b, Head(soSHL_DReq).sessId)
        /\ UNCHANGED << ssIRbToRDp_Meta, ssRRhToRRm_DReq, ssRRhToRDp_FwdCmd >>
    BY <1>4 DEF ToeServe, Dequeue, irbVars, reqVars
  <2>2. a' = a /\ d' = d /\ F' = F
    BY <2>1 DEF SessionsOf
  <2>3. c # << >> /\ Head(c) = Head(soSHL_DReq).sessId /\ c' = Tail(c)
    BY <2>1, OrderStreams, HaveSession, SessionsOfHeadTail
  <2> HIDE DEF a, b, c, d, F
  <2>4. b' = Append(b, Head(c))
    BY <2>1, <2>3
  <2>5. Head(c) \in SessIds /\ Tail(c) \in Seq(SessIds)
    BY <1>1, <2>3
  <2>6. a \o Append(b, Head(c)) = Append(a \o b, Head(c))
    BY <1>1, <2>5, ConcatAppend
  <2>7. /\ c \o d # << >> /\ Head(c \o d) = Head(c) /\ Tail(c \o d) = Tail(c) \o d
        /\ c \o d \in Seq(SessIds) /\ a \o b \in Seq(SessIds)
    BY <1>1, <2>3, HeadTailConcat
  <2>8. Append(a \o b, Head(c \o d)) \o Tail(c \o d) = (a \o b) \o (c \o d)
    BY <2>7, ShiftHead
  <2>9. QED
    BY <1>2, <2>2, <2>3, <2>4, <2>6, <2>7, <2>8
<1>5. CASE IRb
  <2>1. UNCHANGED << soSHL_DReq, ssRRhToRRm_DReq, ssRRhToRDp_FwdCmd >>
    BY <1>5 DEF IRb, reqVars
  <2>2. c' = c /\ d' = d /\ F' = F
    BY <2>1 DEF SessionsOf
  <2>3. \/ b # << >> /\ a' = Append(a, Head(b)) /\ b' = Tail(b)
        \/ a' = a /\ b' = b
    BY <1>5 DEF IRb, IRbMovesMeta, Dequeue
  <2> HIDE DEF a, b, c, d, F
  <2>4. a' \o b' = a \o b
    BY <1>1, <2>3, ShiftHead
  <2>5. QED
    BY <1>2, <2>2, <2>4
<1>6. CASE RRm
  <2>1. /\ ssRRhToRRm_DReq # << >>
        /\ soSHL_DReq' = Append(soSHL_DReq, Head(ssRRhToRRm_DReq))
        /\ ssRRhToRRm_DReq' = Tail(ssRRhToRRm_DReq)
        /\ UNCHANGED << ssIRbToRDp_Meta, siSHL_Meta, ssRRhToRDp_FwdCmd >>
    BY <1>6 DEF RRm, Dequeue, irbVars
  <2>2. a' = a /\ b' = b /\ F' = F
    BY <2>1 DEF SessionsOf
  <2>3. Head(ssRRhToRRm_DReq) \in DReq
    BY <2>1, OrderStreams
  <2>4. c' = Append(c, Head(ssRRhToRRm_DReq).sessId)
    BY <2>1, <2>3, OrderStreams, HaveSession, SessionsOfAppend
  <2>5. d # << >> /\ Head(d) = Head(ssRRhToRRm_DReq).sessId /\ d' = Tail(d)
    BY <2>1, OrderStreams, HaveSession, SessionsOfHeadTail
  <2> HIDE DEF a, b, c, d, F
  <2>6. c' \o d' = c \o d
    BY <1>1, <2>4, <2>5, ShiftHead
  <2>7. QED
    BY <1>2, <2>2, <2>6
<1>7. CASE RRhSendDReq
  <2>1. UNCHANGED << ssIRbToRDp_Meta, siSHL_Meta, soSHL_DReq >>
    BY <1>7 DEF RRhSendDReq, RRhUnchanged, irbVars, shlVars
  <2>2. a' = a /\ b' = b /\ c' = c
    BY <2>1 DEF SessionsOf
  <2>3. CASE UNCHANGED reqVars
    <3>1. d' = d /\ F' = F
      BY <2>3 DEF reqVars, SessionsOf
    <3>2. QED
      BY <1>2, <2>2, <3>1
  <2>4. CASE ~UNCHANGED reqVars
    <3> DEFINE req == [sessId |-> rrh_notif.sessId, datLen |-> rrh_datLenReq]
               cmd == FwdCmdFor(rrh_notif.sessId, rrh_datLenReq)
    <3>1. /\ ssRRhToRRm_DReq' = Append(ssRRhToRRm_DReq, req)
          /\ ssRRhToRDp_FwdCmd' = Append(ssRRhToRDp_FwdCmd, cmd)
      BY <1>7, <2>4 DEF RRhSendDReq
    <3>2. /\ rrh_notif.sessId \in SessIds
          /\ req \in DReq /\ req.sessId = rrh_notif.sessId
          /\ cmd \in ForwardCmd /\ cmd.sessId = rrh_notif.sessId
      BY FwdCmdOK DEF TypeOK, RrhTypeOK, Notif, DReq, FwdCmdFor
    <3> HIDE DEF req, cmd
    <3>3. d' = Append(d, rrh_notif.sessId)
      BY <3>1, <3>2, OrderStreams, HaveSession, SessionsOfAppend
    <3>4. F' = Append(F, rrh_notif.sessId)
      BY <3>1, <3>2, OrderStreams, HaveSession, SessionsOfAppend
    <3> HIDE DEF a, b, c, d, F
    <3>5. c \o Append(d, rrh_notif.sessId) = Append(c \o d, rrh_notif.sessId)
      BY <1>1, <3>2, ConcatAppend
    <3>6. (a \o b) \o Append(c \o d, rrh_notif.sessId) =
            Append((a \o b) \o (c \o d), rrh_notif.sessId)
      <4>1. a \o b \in Seq(SessIds) /\ c \o d \in Seq(SessIds)
        BY <1>1
      <4>2. QED
        BY <3>2, <4>1, ConcatAppend
    <3>7. QED
      BY <1>2, <2>2, <3>3, <3>4, <3>5, <3>6
  <2>5. QED
    BY <2>3, <2>4
<1>8. QED
  BY <1>4, <1>5, <1>6, <1>7

LEMMA OrderStep ==
  ASSUME TypeOK, OrderInv, [Next]_vars
  PROVE  OrderInv'
<1> USE DEF shlVars, rrhVars, reqVars, irbVars, rdpVars, conVars, tafVars
<1>1. CASE ToeServe
  <2>1. UNCHANGED << ssRRhToRDp_FwdCmd, rdpVars >>
    BY <1>1 DEF ToeServe
  <2>2. QED
    BY <1>1, <2>1, OrderStreamMoves
       DEF OrderInv, CommandsMatchPort, RightDisposition, Dropped
<1>2. CASE IRb
  <2>1. UNCHANGED << ssRRhToRDp_FwdCmd, rdpVars >>
    BY <1>2 DEF IRb
  <2>2. QED
    BY <1>2, <2>1, OrderStreamMoves
       DEF OrderInv, CommandsMatchPort, RightDisposition, Dropped
<1>3. CASE RRm
  <2>1. UNCHANGED << ssRRhToRDp_FwdCmd, rdpVars >>
    BY <1>3 DEF RRm
  <2>2. QED
    BY <1>3, <2>1, OrderStreamMoves
       DEF OrderInv, CommandsMatchPort, RightDisposition, Dropped
<1>4. CASE RRhSendDReq
  <2>1. UNCHANGED rdpVars
    BY <1>4 DEF RRhSendDReq, RRhUnchanged
  <2>2. CommandsMatchPort'
    <3>1. CASE UNCHANGED ssRRhToRDp_FwdCmd
      BY <3>1 DEF OrderInv, CommandsMatchPort, Dropped
    <3>2. CASE ~UNCHANGED ssRRhToRDp_FwdCmd
      <4> DEFINE cmd == FwdCmdFor(rrh_notif.sessId, rrh_datLenReq)
      <4>1. ssRRhToRDp_FwdCmd' = Append(ssRRhToRDp_FwdCmd, cmd)
        BY <1>4, <3>2 DEF RRhSendDReq
      <4>2. (cmd.action = "CMD_DROP") <=> Dropped(cmd.sessId)
        BY DEF FwdCmdFor, Dropped
      <4> HIDE DEF cmd
      <4>3. QED
        BY <4>1, <4>2, OrderStreams DEF OrderInv, CommandsMatchPort, Dropped
    <3>3. QED
      BY <3>1, <3>2
  <2>3. QED
    BY <1>4, <2>1, <2>2, OrderStreamMoves DEF OrderInv, RightDisposition, Dropped
<1>5. CASE RDpIdle
  <2>1. /\ ssRRhToRDp_FwdCmd # << >> /\ ssIRbToRDp_Meta # << >>
        /\ ssRRhToRDp_FwdCmd' = Tail(ssRRhToRDp_FwdCmd)
        /\ ssIRbToRDp_Meta' = Tail(ssIRbToRDp_Meta)
        /\ rdp_fwdCmd' = Head(ssRRhToRDp_FwdCmd)
        /\ rdp_sessId' = Head(ssIRbToRDp_Meta)
        /\ UNCHANGED << siSHL_Meta, soSHL_DReq, ssRRhToRRm_DReq >>
    BY <1>5 DEF RDpIdle, RDpUnchanged, Dequeue
  <2>2. SessionsInOrder'
    BY <2>1, HeadsAgree DEF SessionsInOrder, SessionsOf
  <2>3. CommandsMatchPort'
    BY <2>1, OrderStreams DEF OrderInv, CommandsMatchPort, Dropped
  <2>4. (Head(ssRRhToRDp_FwdCmd).action = "CMD_DROP") <=> Dropped(Head(ssRRhToRDp_FwdCmd).sessId)
    BY <2>1, OrderStreams DEF OrderInv, CommandsMatchPort
  <2>5. Head(ssRRhToRDp_FwdCmd).action \in {"CMD_KEEP", "CMD_DROP"}
    <3>1. Head(ssRRhToRDp_FwdCmd) \in ForwardCmd
      BY <2>1, OrderStreams
    <3>2. QED
      BY <3>1 DEF ForwardCmd
  <2>6. rdp_fwdCmd'.sessId = rdp_sessId'
    BY <2>1, HeadsAgree
  <2>7. rdp_fsmState' =
          IF rdp_fwdCmd'.action = "CMD_KEEP" /\ rdp_fwdCmd'.sessId = rdp_sessId'
          THEN "RDP_FWD_META" ELSE "RDP_SINK_META"
    BY <1>5 DEF RDpIdle
  <2>8. RightDisposition'
    BY <2>1, <2>4, <2>5, <2>6, <2>7 DEF RightDisposition, Dropped
  <2>9. QED
    BY <2>2, <2>3, <2>8 DEF OrderInv
<1>6. ASSUME \/ RDpFwdMeta \/ RDpFwdStream \/ RDpSinkMeta \/ RDpSinkStream
             \/ \E sock \in Socks, count \in TxCounts : RDp8801(sock, count)
      PROVE  OrderInv'
  <2>1. /\ UNCHANGED << ssIRbToRDp_Meta, siSHL_Meta, soSHL_DReq, ssRRhToRRm_DReq,
                        ssRRhToRDp_FwdCmd, rdp_sessId >>
        /\ \/ rdp_fsmState = "RDP_FWD_META" /\ rdp_fsmState' = "RDP_FWD_STREAM"
           \/ rdp_fsmState = "RDP_SINK_META" /\ rdp_fsmState' \in {"RDP_8801", "RDP_SINK_STREAM"}
           \/ rdp_fsmState = "RDP_8801" /\ rdp_fsmState' \in {"RDP_IDLE", "RDP_SINK_STREAM"}
           \/ rdp_fsmState' \in {"RDP_IDLE", rdp_fsmState}
    <3>1. CASE RDpFwdMeta
      BY <3>1 DEF RDpFwdMeta, RDpUnchanged
    <3>2. CASE RDpFwdStream
      BY <3>2 DEF RDpFwdStream, RDpUnchanged
    <3>3. CASE RDpSinkMeta
      BY <3>3 DEF RDpSinkMeta, RDpUnchanged
    <3>4. CASE RDpSinkStream
      BY <3>4 DEF RDpSinkStream, RDpUnchanged
    <3>5. CASE \E sock \in Socks, count \in TxCounts : RDp8801(sock, count)
      BY <3>5 DEF RDp8801, AfterCmdChunk, RDpUnchanged
    <3>6. QED
      BY <1>6, <3>1, <3>2, <3>3, <3>4, <3>5
  <2>2. RightDisposition'
    BY <2>1 DEF OrderInv, RightDisposition, Dropped
  <2>3. SessionsInOrder' /\ CommandsMatchPort'
    BY <2>1 DEF OrderInv, SessionsInOrder, CommandsMatchPort, SessionsOf, Dropped
  <2>4. QED
    BY <2>2, <2>3 DEF OrderInv
<1>7. ASSUME \/ MmioEnable \/ COnRead \/ TafRead \/ RNh
             \/ RRhIdle \/ RRhRequestPart \/ RRhRequestAll \/ RRhWaitSpace
             \/ \E s \in SessIds, n \in SegLens : ToeNotify(s, n)
             \/ UNCHANGED vars
      PROVE  OrderInv'
  <2>1. UNCHANGED << ssIRbToRDp_Meta, siSHL_Meta, soSHL_DReq, reqVars, rdpVars >>
    <3>1. CASE MmioEnable \/ COnRead \/ TafRead \/ RNh
      BY <3>1 DEF MmioEnable, COnRead, TafRead, TafReadMeta, TafReadData, RNh
    <3>2. CASE RRhIdle \/ RRhRequestPart \/ RRhRequestAll \/ RRhWaitSpace
      BY <3>2 DEF RRhIdle, RRhRequestPart, RRhRequestAll, RRhWaitSpace, RRhUnchanged
    <3>3. CASE \E s \in SessIds, n \in SegLens : ToeNotify(s, n)
      BY <3>3 DEF ToeNotify
    <3>4. CASE UNCHANGED vars
      BY <3>4 DEF vars
    <3>5. QED
      BY <1>7, <3>1, <3>2, <3>3, <3>4
  <2>2. QED
    BY <2>1, OrderKept
<1>8. QED
  BY <1>1, <1>2, <1>3, <1>4, <1>5, <1>6, <1>7 DEF Next, RRh, RDp

\* The commands RDp executes are in the order of the metadata it reads with
\* them, whatever the interleaving of RRh, RRm, the TOE and IRb.
THEOREM OrderOfSessions == Spec => []SessionsInOrder
<1>1. Init => OrderInv
  BY DEF Init, OrderInv, SessionsInOrder, SessionsOf, CommandsMatchPort, RightDisposition
<1>2. TypeOK /\ OrderInv /\ [Next]_vars => OrderInv'
  BY OrderStep
<1>3. OrderInv => SessionsInOrder
  BY DEF OrderInv
<1>4. QED
  BY <1>1, <1>2, <1>3, TypeInvariant, PTL DEF Spec

\* RDp never sinks a segment meant for TAF and never forwards one that the
\* port of its session sends to the sink or to the transmit test.
THEOREM Disposition == Spec => []RightDisposition
<1>1. Init => OrderInv
  BY DEF Init, OrderInv, SessionsInOrder, SessionsOf, CommandsMatchPort, RightDisposition
<1>2. TypeOK /\ OrderInv /\ [Next]_vars => OrderInv'
  BY OrderStep
<1>3. OrderInv => RightDisposition
  BY DEF OrderInv
<1>4. QED
  BY <1>1, <1>2, <1>3, TypeInvariant, PTL DEF Spec

-----------------------------------------------------------------------------
(* The segments.  Between the TOE and TAF the chunks are cut, in the sense  *)
(* of StreamLemmas, from the segments that the requests asked for: a        *)
(* segment is what is left of one of them.                                  *)

Seg == [sessId : SessIds, pos : Nat, left : Nat \ {0}]
SegOf(s, p, n) == [sessId |-> s, pos |-> p, left |-> n]
NoSeg == SegOf(AnySess, 0, 0)
SomeSeg == Seg \cup {NoSeg}

LenOfChunk(n) == IF n <= ARW_BYTES THEN n ELSE ARW_BYTES
ChunkAt ==
  [g \in Seg |-> [sessId |-> g.sessId, pos |-> g.pos, len |-> LenOfChunk(g.left),
                  tlast |-> g.left <= ARW_BYTES]]
RestOf ==
  [g \in Seg |-> IF g.left > ARW_BYTES
                 THEN SegOf(g.sessId, g.pos + ARW_BYTES, g.left - ARW_BYTES) ELSE NoSeg]

Cut(q, segs, due) == SegStream(Chunk, Seg, NoSeg, ChunkAt, RestOf, q, segs, due)
With(g, segs) == WithFront(NoSeg, g, segs)
On(cond, g) == IF cond THEN g ELSE NoSeg

LEMMA NoSegApart == NoSeg \notin Seg
  BY DEF NoSeg, SegOf, Seg

\* What is cut from a segment, and what is left of it.
LEMMA ChunkFields ==
  ASSUME NEW g \in Seg
  PROVE  /\ ChunkAt[g] \in Chunk /\ ChunkAt[g].sessId = g.sessId /\ ChunkAt[g].pos = g.pos
         /\ ChunkAt[g].len = LenOfChunk(g.left)
         /\ ChunkAt[g].tlast <=> g.left <= ARW_BYTES
<1>1. PICK last \in BOOLEAN : last = (g.left <= ARW_BYTES)
  <2>1. g.left \in Nat /\ ARW_BYTES \in Nat
    BY DEF Seg, ARW_BYTES
  <2>2. (g.left <= ARW_BYTES) \in BOOLEAN
    BY <2>1
  <2> QED BY <2>2, Zenon
<1>2. ChunkAt[g] = [sessId |-> g.sessId, pos |-> g.pos, len |-> LenOfChunk(g.left), tlast |-> last]
  BY <1>1, Zenon DEF ChunkAt
<1>3. LenOfChunk(g.left) \in 1..ARW_BYTES
  BY DEF Seg, LenOfChunk, ARW_BYTES
<1>4. /\ ChunkAt[g] \in Chunk /\ ChunkAt[g].sessId = g.sessId /\ ChunkAt[g].pos = g.pos
      /\ ChunkAt[g].len = LenOfChunk(g.left) /\ ChunkAt[g].tlast = last
  BY <1>2, <1>3 DEF Seg, Chunk
<1> QED BY <1>1, <1>4, Zenon

LEMMA RestFields ==
  ASSUME NEW g \in Seg
  PROVE  /\ RestOf[g] \in SomeSeg
         /\ RestOf[g] = NoSeg <=> g.left <= ARW_BYTES
         /\ g.left <= ARW_BYTES => LenOfChunk(g.left) = g.left
         /\ g.left > ARW_BYTES =>
              /\ RestOf[g] = SegOf(g.sessId, g.pos + ARW_BYTES, g.left - ARW_BYTES)
              /\ RestOf[g] \in Seg /\ LenOfChunk(g.left) = ARW_BYTES
<1>1. g.left \in Nat /\ g.left > 0 /\ g.pos \in Nat /\ g.sessId \in SessIds
  BY DEF Seg
<1>2. CASE g.left <= ARW_BYTES
  BY <1>1, <1>2 DEF RestOf, SomeSeg, LenOfChunk, ARW_BYTES
<1>3. CASE g.left > ARW_BYTES
  <2>1. RestOf[g] = SegOf(g.sessId, g.pos + ARW_BYTES, g.left - ARW_BYTES)
    BY <1>3 DEF RestOf
  <2>2. g.left - ARW_BYTES \in Nat \ {0} /\ g.pos + ARW_BYTES \in Nat
    BY <1>1, <1>3 DEF ARW_BYTES
  <2>3. RestOf[g] \in Seg
    BY <1>1, <2>1, <2>2 DEF Seg, SegOf
  <2>4. LenOfChunk(g.left) = ARW_BYTES /\ ~(g.left <= ARW_BYTES)
    BY <1>1, <1>3 DEF LenOfChunk, ARW_BYTES
  <2> QED BY <2>1, <2>3, <2>4, NoSegApart DEF SomeSeg
<1> QED BY <1>1, <1>2, <1>3 DEF ARW_BYTES

LEMMA RxRules == SegRules(Chunk, Seg, NoSeg, ChunkAt, RestOf)
<1>1. \A g \in Seg : ChunkAt[g] \in Chunk /\ RestOf[g] \in SomeSeg
  BY ChunkFields, RestFields
<1>2. ChunkAt \in [Seg -> Chunk]
  BY <1>1 DEF ChunkAt
<1>3. RestOf \in [Seg -> Seg \cup {NoSeg}]
  BY <1>1 DEF RestOf, SomeSeg
<1> QED BY <1>2, <1>3, NoSegApart DEF SegRules

LEMMA CutTake ==
  ASSUME NEW q, NEW segs \in Seq(Seg), NEW g \in Seg, NEW due, Cut(q, With(g, segs), due), q # << >>
  PROVE  Head(q) = ChunkAt[g] /\ Cut(Tail(q), With(RestOf[g], segs), due)
BY SegTake, RxRules DEF Cut, With

LEMMA CutPut ==
  ASSUME NEW q, NEW segs, NEW g \in Seg, Cut(q, segs, g)
  PROVE  Cut(Append(q, ChunkAt[g]), segs, RestOf[g])
BY SegWrite, RxRules DEF Cut

LEMMA CutAnnounce ==
  ASSUME NEW q, NEW segs \in Seq(Seg), NEW g \in SomeSeg, NEW n \in Seg, Cut(q, With(g, segs), NoSeg)
  PROVE  Cut(q, With(g, Append(segs, n)), n)
BY SegAnnounce DEF Cut, With, SomeSeg

LEMMA CutBegin ==
  ASSUME NEW segs \in Seq(Seg), segs # << >>
  PROVE  /\ With(NoSeg, segs) = With(Head(segs), Tail(segs))
         /\ Head(segs) \in Seg /\ Tail(segs) \in Seq(Seg)
BY SegBegin, NoSegApart DEF With

LEMMA WithSeq ==
  ASSUME NEW segs \in Seq(Seg), NEW g \in SomeSeg
  PROVE  /\ With(g, segs) \in Seq(Seg)
         /\ \A n \in Seg : With(g, Append(segs, n)) = Append(With(g, segs), n)
<1>1. CASE g = NoSeg
  BY <1>1 DEF With, WithFront
<1>2. CASE g \in Seg
  <2>1. With(g, segs) = << g >> \o segs /\ << g >> \o segs \in Seq(Seg)
    BY <1>2, NoSegApart DEF With, WithFront
  <2>2. \A n \in Seg : With(g, Append(segs, n)) = << g >> \o Append(segs, n)
    BY <1>2, NoSegApart DEF With, WithFront
  <2>3. \A n \in Seg : << g >> \o Append(segs, n) = Append(<< g >> \o segs, n)
    BY <1>2, PrependAppend
  <2> QED BY <2>1, <2>2, <2>3
<1> QED BY <1>1, <1>2 DEF SomeSeg

\* What the TOE streams of a request is one segment.
LEMMA SegmentIsCut ==
  ASSUME NEW s \in SessIds, NEW from \in Nat, NEW n \in Nat \ {0}, NEW q, NEW segs \in Seq(Seg),
         NEW g \in SomeSeg, Cut(q, With(g, segs), NoSeg)
  PROVE  Cut(q \o Segment(s, from, n), With(g, Append(segs, SegOf(s, from, n))), NoSeg)
<1> DEFINE k == Chunks(n)
           off(i) == ARW_BYTES * (i - 1)
           w == Segment(s, from, n)
           t == [i \in 1..k |-> SegOf(s, from + off(i), n - off(i))]
<1>1. k \in Nat /\ k > 0
  BY DEF Chunks, ARW_BYTES
<1>2. w \in Seq(Chunk) /\ Len(w) = k /\ w # << >>
  <2>1. w \in Seq(Chunk) /\ DOMAIN w = 1..k
    BY SegmentOK DEF Segment
  <2> HIDE DEF w, k
  <2>2. Len(w) = k
    BY <1>1, <2>1
  <2> QED BY <1>1, <2>1, <2>2
<1>3. ASSUME NEW i \in 1..k
      PROVE  /\ off(i) \in Nat /\ n - off(i) \in Nat \ {0} /\ (i = k <=> n - off(i) <= ARW_BYTES)
             /\ off(i + 1) = off(i) + ARW_BYTES /\ (i # k => i + 1 \in 1..k)
  BY <1>1 DEF Chunks, ARW_BYTES
<1>4. ASSUME NEW i \in 1..k
      PROVE  t[i] \in Seg /\ w[i] = ChunkAt[t[i]] /\ RestOf[t[i]] = IF i = k THEN NoSeg ELSE t[i + 1]
  <2>1. t[i] = SegOf(s, from + off(i), n - off(i))
    OBVIOUS
  <2>2. /\ t[i] \in Seg /\ t[i].sessId = s /\ t[i].pos = from + off(i) /\ t[i].left = n - off(i)
    BY <1>3, <2>1 DEF Seg, SegOf
  <2>3. PICK last \in BOOLEAN : last = (i = k)
    OBVIOUS
  <2>4. w[i] = [sessId |-> s, pos |-> from + off(i), tlast |-> last,
                len |-> IF i = k THEN n - off(i) ELSE ARW_BYTES]
    BY <2>3, Zenon DEF Segment
  <2>5. (t[i].left <= ARW_BYTES) = last
    <3>1. t[i].left <= ARW_BYTES <=> last
      BY <1>3, <2>2, <2>3
    <3>2. (t[i].left <= ARW_BYTES) \in BOOLEAN
      BY <1>3, <2>2 DEF ARW_BYTES
    <3> QED BY <2>3, <3>1, <3>2, Zenon
  <2>6. ChunkAt[t[i]] = [sessId |-> t[i].sessId, pos |-> t[i].pos, len |-> LenOfChunk(t[i].left), tlast |-> last]
    BY <2>2, <2>5, Zenon DEF ChunkAt
  <2>7. LenOfChunk(t[i].left) = IF i = k THEN n - off(i) ELSE ARW_BYTES
    BY <1>3, <2>2 DEF LenOfChunk
  <2> HIDE DEF t, w, off, k
  <2>8. w[i] = ChunkAt[t[i]]
    BY <2>2, <2>4, <2>6, <2>7
  <2>9. RestOf[t[i]] = IF i = k THEN NoSeg ELSE t[i + 1]
    <3>1. CASE i = k
      BY <1>3, <2>2, <3>1, RestFields
    <3>2. CASE i # k
      <4>1. t[i].left > ARW_BYTES
        BY <1>3, <2>2, <3>2 DEF ARW_BYTES
      <4>2. RestOf[t[i]] = SegOf(s, from + off(i) + ARW_BYTES, n - off(i) - ARW_BYTES)
        BY <2>2, <4>1, RestFields
      <4>3. t[i + 1] = SegOf(s, from + off(i + 1), n - off(i + 1))
        BY <1>3, <3>2 DEF t
      <4>4. /\ from + off(i + 1) = from + off(i) + ARW_BYTES
            /\ n - off(i + 1) = n - off(i) - ARW_BYTES
        BY <1>3 DEF ARW_BYTES
      <4> QED BY <3>2, <4>2, <4>3, <4>4
    <3> QED BY <3>1, <3>2
  <2> QED BY <2>2, <2>8, <2>9
<1>5. SegChunks(Seg, NoSeg, ChunkAt, RestOf, w, t)
  <2>1. t \in [1..k -> Seg]
    BY <1>4
  <2> HIDE DEF t, w, k
  <2> QED BY <1>2, <1>4, <2>1 DEF SegChunks
<1>6. t[1] = SegOf(s, from, n)
  <2>1. off(1) = 0 /\ 1 \in 1..k
    BY <1>1 DEF ARW_BYTES
  <2>2. t[1] = SegOf(s, from + off(1), n - off(1))
    BY <2>1
  <2> HIDE DEF t, off, k
  <2> QED BY <2>1, <2>2
<1>7. SegOf(s, from, n) \in Seg
  BY DEF Seg, SegOf
<1> HIDE DEF t, w, k
<1>8. Cut(q \o w, Append(With(g, segs), t[1]), NoSeg)
  BY <1>2, <1>5, SegWhole, RxRules DEF Cut
<1> QED BY ZenonT(30), <1>6, <1>7, <1>8, WithSeq DEF w

-----------------------------------------------------------------------------
(* The positions.  A list of segments continues the byte streams of their   *)
(* sessions from the positions a to the positions b: at[i] are the          *)
(* positions behind the first i segments of it.                             *)

Positions == [SessIds -> Nat]
After(p, g) == [p EXCEPT ![g.sessId] = g.pos + g.left]

Chained(a, list, b) ==
  \E at \in [0..Len(list) -> Positions] :
    /\ at[0] = a /\ at[Len(list)] = b
    /\ \A i \in 1..Len(list) :
         list[i].pos = at[i - 1][list[i].sessId] /\ at[i] = After(at[i - 1], list[i])

LEMMA AfterOK ==
  ASSUME NEW p \in Positions, NEW g \in Seg
  PROVE  After(p, g) \in Positions
  BY DEF After, Positions, Seg

LEMMA ChainEmpty ==
  /\ \A a \in Positions : Chained(a, << >>, a)
  /\ \A a, b : Chained(a, << >>, b) => a = b /\ a \in Positions
<1>1. ASSUME NEW a \in Positions PROVE Chained(a, << >>, a)
  <2> DEFINE at == [i \in 0..Len(<< >>) |-> a]
  <2>1. /\ at \in [0..Len(<< >>) -> Positions] /\ at[0] = a /\ at[Len(<< >>)] = a
        /\ \A i \in 1..Len(<< >>) : FALSE
    OBVIOUS
  <2> QED BY <2>1, Zenon DEF Chained
<1>2. ASSUME NEW a, NEW b, Chained(a, << >>, b) PROVE a = b /\ a \in Positions
  <2>1. PICK at \in [0..Len(<< >>) -> Positions] : at[0] = a /\ at[Len(<< >>)] = b
    BY <1>2, Zenon DEF Chained
  <2> QED BY <2>1
<1> QED BY <1>1, <1>2

LEMMA ChainEnds ==
  ASSUME NEW a, NEW b, NEW list \in Seq(Seg), Chained(a, list, b)
  PROVE  a \in Positions /\ b \in Positions
<1>1. PICK at \in [0..Len(list) -> Positions] : at[0] = a /\ at[Len(list)] = b
  BY Zenon DEF Chained
<1>2. Len(list) \in Nat
  OBVIOUS
<1> QED BY <1>1, <1>2

\* A segment that continues its stream is put at the end.
LEMMA ChainAppend ==
  ASSUME NEW a, NEW b, NEW list \in Seq(Seg), Chained(a, list, b), NEW g \in Seg,
         g.pos = b[g.sessId]
  PROVE  Chained(a, Append(list, g), After(b, g))
<1> DEFINE n == Len(list)
           more == Append(list, g)
<1>1. PICK at \in [0..n -> Positions] :
        /\ at[0] = a /\ at[n] = b
        /\ \A i \in 1..n : list[i].pos = at[i - 1][list[i].sessId] /\ at[i] = After(at[i - 1], list[i])
  BY DEF Chained
<1> DEFINE to == [i \in 0..(n + 1) |-> IF i = n + 1 THEN After(b, g) ELSE at[i]]
<1>2. /\ n \in Nat /\ Len(more) = n + 1
      /\ \A i \in 1..n : more[i] = list[i]
      /\ more[n + 1] = g
  OBVIOUS
<1>3. After(b, g) \in Positions
  BY ChainEnds, AfterOK
<1> HIDE DEF more, n
<1>4. to \in [0..(n + 1) -> Positions]
  BY <1>1, <1>2, <1>3
<1>5. to[0] = a /\ to[n] = b /\ to[n + 1] = After(b, g)
  BY <1>1, <1>2
<1>6. ASSUME NEW i \in 1..(n + 1)
      PROVE  more[i].pos = to[i - 1][more[i].sessId] /\ to[i] = After(to[i - 1], more[i])
  <2>1. CASE i = n + 1
    <3>1. i - 1 = n
      BY <1>2, <2>1
    <3> QED BY <1>2, <1>5, <2>1, <3>1
  <2>2. CASE i # n + 1
    <3>1. i \in 1..n /\ i - 1 \in 0..n /\ i - 1 # n + 1 /\ i \in 0..(n + 1) /\ i - 1 \in 0..(n + 1)
      BY <1>2, <2>2
    <3>2. to[i] = at[i] /\ to[i - 1] = at[i - 1]
      BY <2>2, <3>1
    <3> HIDE DEF to
    <3> QED BY <1>1, <1>2, <3>1, <3>2
  <2> QED BY <2>1, <2>2
<1> HIDE DEF to
<1> QED BY ZenonT(30), <1>2, <1>4, <1>5, <1>6 DEF Chained, more

\* The first segment continues its stream, and the others what is behind it.
LEMMA ChainHead ==
  ASSUME NEW a, NEW b, NEW list \in Seq(Seg), Chained(a, list, b), list # << >>
  PROVE  Head(list).pos = a[Head(list).sessId] /\ Chained(After(a, Head(list)), Tail(list), b)
<1> DEFINE n == Len(list)
           less == Tail(list)
<1>1. PICK at \in [0..n -> Positions] :
        /\ at[0] = a /\ at[n] = b
        /\ \A i \in 1..n : list[i].pos = at[i - 1][list[i].sessId] /\ at[i] = After(at[i - 1], list[i])
  BY DEF Chained
<1> DEFINE to == [i \in 0..(n - 1) |-> at[i + 1]]
<1>2. /\ n \in Nat /\ n > 0 /\ Len(less) = n - 1 /\ Head(list) = list[1]
      /\ \A i \in 1..(n - 1) : less[i] = list[i + 1]
  OBVIOUS
<1> HIDE DEF less, n
<1>3. Head(list).pos = a[Head(list).sessId] /\ at[1] = After(a, Head(list))
  <2>1. 1 \in 1..n /\ 1 - 1 = 0
    BY <1>2
  <2> QED BY <1>1, <1>2, <2>1
<1>4. to \in [0..(n - 1) -> Positions] /\ to[0] = at[1] /\ to[n - 1] = b
  BY <1>1, <1>2
<1>5. ASSUME NEW i \in 1..(n - 1)
      PROVE  less[i].pos = to[i - 1][less[i].sessId] /\ to[i] = After(to[i - 1], less[i])
  <2>1. i + 1 \in 1..n /\ (i + 1) - 1 = i /\ to[i] = at[i + 1] /\ to[i - 1] = at[i] /\ less[i] = list[i + 1]
    BY <1>2
  <2> HIDE DEF to
  <2>2. /\ list[i + 1].pos = at[(i + 1) - 1][list[i + 1].sessId]
        /\ at[i + 1] = After(at[(i + 1) - 1], list[i + 1])
    BY <1>1, <2>1
  <2> QED BY <2>1, <2>2
<1> HIDE DEF to
<1>6. /\ to \in [0..Len(less) -> Positions] /\ to[0] = After(a, Head(list)) /\ to[Len(less)] = b
      /\ \A i \in 1..Len(less) : less[i].pos = to[i - 1][less[i].sessId] /\ to[i] = After(to[i - 1], less[i])
  BY <1>2, <1>3, <1>4, <1>5
<1>7. Chained(After(a, Head(list)), less, b)
  BY <1>6, Zenon DEF Chained
<1> QED BY <1>3, <1>7 DEF less

\* A segment is put in front.
LEMMA ChainFront ==
  ASSUME NEW a \in Positions, NEW b, NEW list \in Seq(Seg), NEW g \in Seg,
         g.pos = a[g.sessId], Chained(After(a, g), list, b)
  PROVE  Chained(a, << g >> \o list, b)
<1> DEFINE n == Len(list)
           more == << g >> \o list
<1>1. PICK at \in [0..n -> Positions] :
        /\ at[0] = After(a, g) /\ at[n] = b
        /\ \A i \in 1..n : list[i].pos = at[i - 1][list[i].sessId] /\ at[i] = After(at[i - 1], list[i])
  BY DEF Chained
<1> DEFINE to == [i \in 0..(n + 1) |-> IF i = 0 THEN a ELSE at[i - 1]]
<1>2. /\ n \in Nat /\ Len(more) = n + 1 /\ more[1] = g
      /\ \A i \in 2..(n + 1) : more[i] = list[i - 1]
  OBVIOUS
<1> HIDE DEF more, n
<1>3. to \in [0..(n + 1) -> Positions] /\ to[0] = a /\ to[1] = After(a, g) /\ to[n + 1] = b
  BY <1>1, <1>2
<1>4. ASSUME NEW i \in 1..(n + 1)
      PROVE  more[i].pos = to[i - 1][more[i].sessId] /\ to[i] = After(to[i - 1], more[i])
  <2>1. CASE i = 1
    <3>1. i - 1 = 0
      BY <2>1
    <3> HIDE DEF to
    <3> QED BY <1>2, <1>3, <2>1, <3>1
  <2>2. CASE i # 1
    <3>1. i \in 2..(n + 1) /\ i - 1 \in 1..n /\ (i - 1) - 1 \in 0..n /\ i # 0 /\ i - 1 # 0
      BY <1>2, <2>2
    <3>2. to[i] = at[i - 1] /\ to[i - 1] = at[(i - 1) - 1]
      BY <1>2, <3>1
    <3> HIDE DEF to
    <3> QED BY <1>1, <1>2, <3>1, <3>2
  <2> QED BY <2>1, <2>2
<1> HIDE DEF to
<1> QED BY <1>2, <1>3, <1>4 DEF Chained, more

\* A chunk is cut from the segment in front.
LEMMA ChainCut ==
  ASSUME NEW a, NEW b, NEW list \in Seq(Seg), NEW g \in Seg, Chained(a, With(g, list), b)
  PROVE  /\ g.pos = a[g.sessId]
         /\ Chained([a EXCEPT ![g.sessId] = g.pos + LenOfChunk(g.left)], With(RestOf[g], list), b)
<1>1. With(g, list) = << g >> \o list /\ With(g, list) \in Seq(Seg)
  BY NoSegApart, WithSeq DEF With, WithFront, SomeSeg
<1>2. Head(<< g >> \o list) = g /\ Tail(<< g >> \o list) = list /\ << g >> \o list # << >>
  OBVIOUS
<1>3. g.pos = a[g.sessId] /\ Chained(After(a, g), list, b) /\ a \in Positions
  BY <1>1, <1>2, ChainHead, ChainEnds
<1>4. g.left \in Nat /\ g.pos \in Nat /\ g.sessId \in SessIds
  BY DEF Seg
<1>5. CASE g.left <= ARW_BYTES
  <2>1. RestOf[g] = NoSeg /\ LenOfChunk(g.left) = g.left
    BY <1>5, RestFields
  <2> QED BY <1>3, <2>1 DEF With, WithFront, After
<1>6. CASE g.left > ARW_BYTES
  <2> DEFINE r == RestOf[g]
             p == [a EXCEPT ![g.sessId] = g.pos + LenOfChunk(g.left)]
  <2>1. /\ r = SegOf(g.sessId, g.pos + ARW_BYTES, g.left - ARW_BYTES) /\ r \in Seg
        /\ LenOfChunk(g.left) = ARW_BYTES
    BY <1>6, RestFields
  <2>2. r.sessId = g.sessId /\ r.pos = g.pos + ARW_BYTES /\ r.left = g.left - ARW_BYTES
    BY <2>1 DEF SegOf
  <2>3. p \in Positions /\ p[g.sessId] = g.pos + ARW_BYTES
    BY <1>3, <1>4, <2>1 DEF Positions, ARW_BYTES
  <2>4. After(p, r) = After(a, g)
    <3>1. r.pos + r.left = g.pos + g.left
      BY <1>4, <2>2 DEF ARW_BYTES
    <3> HIDE DEF r
    <3> QED BY <1>3, <2>2, <3>1 DEF After, Positions
  <2> HIDE DEF r, p
  <2>5. Chained(p, << r >> \o list, b)
    BY <1>3, <2>1, <2>2, <2>3, <2>4, ChainFront
  <2>6. With(r, list) = << r >> \o list
    BY <2>1, NoSegApart DEF With, WithFront
  <2> QED BY <1>3, <2>5, <2>6 DEF r, p
<1> QED BY <1>3, <1>4, <1>5, <1>6 DEF ARW_BYTES

-----------------------------------------------------------------------------
(* The flow of the segments.                                                *)

SessOf == [g \in Seg |-> g.sessId]
LeftOf == [g \in Seg |-> g.left]
ReqOf == [g \in Seg |-> [sessId |-> g.sessId, datLen |-> g.left]]
ReqOfCmd == [c \in ForwardCmd |-> [sessId |-> c.sessId, datLen |-> c.datLen]]

\* The streams of the sessions TAF reads; it never reads of the others.
Kept(p) == [s \in SessIds |-> IF Dropped(s) THEN 0 ELSE p[s]]

Forwarding == rdp_fsmState = "RDP_FWD_STREAM"

\* m is what is left of the segment RDp is in the middle of, if any.
RdpAt(m) ==
  /\ m \in SomeSeg
  /\ m = NoSeg <=> rdp_fsmState = "RDP_IDLE"
  /\ m # NoSeg => m.sessId = rdp_sessId /\ rdp_fwdCmd.sessId = rdp_sessId
  /\ rdp_fsmState = "RDP_FWD_META" => m.left = rdp_fwdCmd.datLen

\* What comes to RDp is m and the segments whose metadata come with it; their
\* commands and those of the requests under way wait for RDp.  'to' are the
\* positions behind what TAF has been told of.
InStage(m, to, segs) ==
  /\ Cut(ssIRbToRDp_Data \o siSHL_Data, With(m, segs), NoSeg)
  /\ Image(SessOf, segs) = ssIRbToRDp_Meta \o siSHL_Meta
  /\ Image(ReqOfCmd, ssRRhToRDp_FwdCmd) =
       Image(ReqOf, segs) \o (soSHL_DReq \o ssRRhToRRm_DReq)
  /\ Chained(to, With(On(~Forwarding, m), segs), toeRd)
InFlow(m, to) == \E segs \in Seq(Seg) : InStage(m, to, segs)

\* t is what is left of the segment TAF is in the middle of, if any.
TafAt(t) ==
  /\ t \in SomeSeg
  /\ IF t = NoSeg THEN tafLeft = 0 ELSE tafLeft = t.left /\ tafSess = t.sessId

\* What goes to TAF is t and the segments it has been told of; RDp is still to
\* send what it has in hand of the last one.
OutStage(m, t, to, ann) ==
  /\ Cut(soTAF_Data, With(t, ann), On(Forwarding, m))
  /\ Image(SessOf, ann) = soTAF_SessId
  /\ Image(LeftOf, ann) = soTAF_DatLen
  /\ Chained(tafPos, With(t, ann), Kept(to))
OutFlow(m, t, to) == \E ann \in Seq(Seg) : OutStage(m, t, to, ann)

FlowBy(m, t, to) == RdpAt(m) /\ InFlow(m, to) /\ TafAt(t) /\ OutFlow(m, t, to)
FlowInv == \E m \in SomeSeg, t \in SomeSeg, to \in Positions : FlowBy(m, t, to)

\* The values these sequences have.
LEMMA SegImages ==
  /\ \A g \in Seg : /\ SessOf[g] = g.sessId /\ LeftOf[g] = g.left
                    /\ ReqOf[g] = [sessId |-> g.sessId, datLen |-> g.left] /\ ReqOf[g] \in DReq
  /\ \A c \in ForwardCmd : ReqOfCmd[c] = [sessId |-> c.sessId, datLen |-> c.datLen]
                           /\ ReqOfCmd[c] \in DReq
  /\ \A segs \in Seq(Seg) : Image(ReqOf, segs) \in Seq(DReq)
<1>1. /\ \A g \in Seg : SessOf[g] = g.sessId /\ LeftOf[g] = g.left
                        /\ ReqOf[g] = [sessId |-> g.sessId, datLen |-> g.left] /\ ReqOf[g] \in DReq
      /\ \A c \in ForwardCmd : ReqOfCmd[c] = [sessId |-> c.sessId, datLen |-> c.datLen]
                               /\ ReqOfCmd[c] \in DReq
  BY DEF SessOf, LeftOf, ReqOf, ReqOfCmd, Seg, DReq, ForwardCmd
<1>2. ASSUME NEW segs \in Seq(Seg) PROVE Image(ReqOf, segs) \in Seq(DReq)
  <2>1. Len(segs) \in Nat /\ \A i \in 1..Len(segs) : segs[i] \in Seg
    OBVIOUS
  <2>2. \A i \in 1..Len(segs) : ReqOf[segs[i]] \in DReq
    BY <1>1, <2>1
  <2> QED BY <2>1, <2>2, IsASeq DEF Image
<1> QED BY <1>1, <1>2

LEMMA FlowInit == Init => FlowInv
<1> SUFFICES ASSUME Init PROVE FlowInv
  OBVIOUS
<1> DEFINE zero == [s \in SessIds |-> 0]
<1>1. Cut(<< >>, << >>, NoSeg) /\ With(NoSeg, << >>) = << >> /\ << >> \o << >> = << >>
  BY SegEmpty DEF Cut, With, WithFront
<1>2. \A f : Image(f, << >>) = << >>
  BY DEF Image
<1>3. zero \in Positions /\ Kept(zero) = zero /\ Chained(zero, << >>, zero)
  <2>1. zero \in Positions
    BY DEF Positions
  <2>2. Kept(zero) = zero
    BY DEF Kept
  <2> HIDE DEF zero
  <2> QED BY <2>1, <2>2, ChainEmpty
<1>4. /\ rdp_fsmState = "RDP_IDLE" /\ ~Forwarding /\ tafLeft = 0 /\ toeRd = zero /\ tafPos = zero
      /\ ssIRbToRDp_Data = << >> /\ siSHL_Data = << >> /\ ssIRbToRDp_Meta = << >>
      /\ siSHL_Meta = << >> /\ ssRRhToRDp_FwdCmd = << >> /\ soSHL_DReq = << >>
      /\ ssRRhToRRm_DReq = << >> /\ soTAF_Data = << >> /\ soTAF_SessId = << >>
      /\ soTAF_DatLen = << >>
  BY DEF Init, Forwarding
<1> HIDE DEF zero
<1>5. NoSeg \in SomeSeg /\ On(TRUE, NoSeg) = NoSeg /\ On(FALSE, NoSeg) = NoSeg /\ << >> \in Seq(Seg)
  BY DEF SomeSeg, On
<1>6. RdpAt(NoSeg) /\ TafAt(NoSeg)
  BY <1>4, <1>5 DEF RdpAt, TafAt
<1>7. InStage(NoSeg, zero, << >>)
  BY <1>1, <1>2, <1>3, <1>4, <1>5 DEF InStage, On
<1>8. OutStage(NoSeg, NoSeg, zero, << >>)
  BY <1>1, <1>2, <1>3, <1>4, <1>5 DEF OutStage, On
<1> QED BY <1>3, <1>5, <1>6, <1>7, <1>8 DEF FlowInv, FlowBy, InFlow, OutFlow

\* A step leaves alone what none of its streams and registers changes.
inVars == << ssIRbToRDp_Data, siSHL_Data, ssIRbToRDp_Meta, siSHL_Meta, ssRRhToRDp_FwdCmd,
             soSHL_DReq, ssRRhToRRm_DReq, toeRd >>
outVars == << soTAF_Data, soTAF_SessId, soTAF_DatLen, tafPos >>

LEMMA FlowParts ==
  ASSUME NEW m, NEW t, NEW to, FlowBy(m, t, to)
  PROVE  /\ UNCHANGED rdpVars => RdpAt(m)'
         /\ UNCHANGED << tafLeft, tafSess >> => TafAt(t)'
         /\ UNCHANGED << inVars, rdp_fsmState >> => InFlow(m, to)'
         /\ UNCHANGED << outVars, rdp_fsmState >> => OutFlow(m, t, to)'
<1>1. UNCHANGED rdpVars => RdpAt(m)'
  BY DEF FlowBy, RdpAt, rdpVars
<1>2. UNCHANGED << tafLeft, tafSess >> => TafAt(t)'
  BY DEF FlowBy, TafAt
<1>3. ASSUME UNCHANGED << inVars, rdp_fsmState >> PROVE InFlow(m, to)'
  <2>1. PICK segs \in Seq(Seg) : InStage(m, to, segs)
    BY DEF FlowBy, InFlow
  <2>2. InStage(m, to, segs)'
    BY <1>3, <2>1 DEF InStage, inVars, Forwarding
  <2> QED BY <2>2 DEF InFlow
<1>4. ASSUME UNCHANGED << outVars, rdp_fsmState >> PROVE OutFlow(m, t, to)'
  <2>1. PICK ann \in Seq(Seg) : OutStage(m, t, to, ann)
    BY DEF FlowBy, OutFlow
  <2>2. OutStage(m, t, to, ann)'
    BY <1>4, <2>1 DEF OutStage, outVars, Forwarding
  <2> QED BY <2>2 DEF OutFlow
<1> QED BY <1>1, <1>2, <1>3, <1>4

\* The new front segments and positions of a step.
LEMMA FlowNext ==
  ASSUME NEW m \in SomeSeg, NEW t \in SomeSeg, NEW to \in Positions,
         RdpAt(m)', InFlow(m, to)', TafAt(t)', OutFlow(m, t, to)'
  PROVE  FlowInv'
BY DEF FlowInv, FlowBy

LEMMA FlowTypes ==
  ASSUME TypeOK
  PROVE  /\ ssIRbToRDp_Data \in Seq(Chunk) /\ siSHL_Data \in Seq(Chunk)
         /\ ssIRbToRDp_Data \o siSHL_Data \in Seq(Chunk)
         /\ ssIRbToRDp_Meta \in Seq(SessIds) /\ siSHL_Meta \in Seq(SessIds)
         /\ ssIRbToRDp_Meta \o siSHL_Meta \in Seq(SessIds)
         /\ soSHL_DReq \in Seq(DReq) /\ ssRRhToRRm_DReq \in Seq(DReq)
         /\ soSHL_DReq \o ssRRhToRRm_DReq \in Seq(DReq)
         /\ ssRRhToRDp_FwdCmd \in Seq(ForwardCmd)
<1>1. /\ ssIRbToRDp_Data \in Seq(Chunk) /\ siSHL_Data \in Seq(Chunk)
      /\ ssIRbToRDp_Meta \in Seq(SessIds) /\ siSHL_Meta \in Seq(SessIds)
      /\ soSHL_DReq \in Seq(DReq) /\ ssRRhToRRm_DReq \in Seq(DReq)
      /\ ssRRhToRDp_FwdCmd \in Seq(ForwardCmd)
  BY DEF TypeOK, ShlTypeOK, IrbTypeOK, ReqTypeOK
<1> QED BY <1>1, ConcatProperties

\* The TOE serves a request: its segment joins what comes to RDp.
LEMMA FlowToeServe ==
  ASSUME TypeOK, FlowInv, ToeServe
  PROVE  FlowInv'
<1>1. PICK m \in SomeSeg, t \in SomeSeg, to \in Positions : FlowBy(m, t, to)
  BY DEF FlowInv
<1>2. PICK segs \in Seq(Seg) : InStage(m, to, segs)
  BY <1>1 DEF FlowBy, InFlow
<1> DEFINE req == Head(soSHL_DReq)
           from == toeRd[req.sessId]
<1>3. /\ soSHL_DReq # << >> /\ req.datLen > 0 /\ soSHL_DReq' = Tail(soSHL_DReq)
      /\ siSHL_Meta' = Append(siSHL_Meta, req.sessId)
      /\ siSHL_Data' = siSHL_Data \o Segment(req.sessId, from, req.datLen)
      /\ toeRd' = [toeRd EXCEPT ![req.sessId] = @ + req.datLen]
      /\ UNCHANGED << ssIRbToRDp_Data, ssIRbToRDp_Meta, ssRRhToRRm_DReq, ssRRhToRDp_FwdCmd >>
      /\ UNCHANGED << rdpVars, tafLeft, tafSess, outVars >>
  BY DEF ToeServe, Dequeue, irbVars, reqVars, tafVars, outVars
<1>4. RdpAt(m)' /\ TafAt(t)' /\ OutFlow(m, t, to)'
  BY <1>1, <1>3, FlowParts DEF rdpVars
<1>5. /\ req \in DReq /\ req.sessId \in SessIds /\ req.datLen \in Nat \ {0}
      /\ toeRd \in Positions /\ from \in Nat
  <2>1. req \in DReq
    BY <1>3, FlowTypes
  <2>2. toeRd \in Positions
    BY DEF TypeOK, ShlTypeOK, Positions
  <2> QED BY <1>3, <2>1, <2>2 DEF DReq, Positions
<1>6. PICK g \in Seg :
        /\ g = SegOf(req.sessId, from, req.datLen)
        /\ g.sessId = req.sessId /\ g.pos = from /\ g.left = req.datLen /\ ReqOf[g] = req
  <2> DEFINE g == SegOf(req.sessId, from, req.datLen)
  <2>1. g \in Seg /\ g.sessId = req.sessId /\ g.pos = from /\ g.left = req.datLen
    BY <1>5 DEF Seg, SegOf
  <2>2. req = [sessId |-> req.sessId, datLen |-> req.datLen]
    BY <1>5 DEF DReq
  <2>3. ReqOf[g] = [sessId |-> g.sessId, datLen |-> g.left]
    BY <2>1, SegImages
  <2>4. ReqOf[g] = req
    BY <2>1, <2>2, <2>3
  <2> HIDE DEF g
  <2> QED BY <2>1, <2>4 DEF g
<1>7. Cut(ssIRbToRDp_Data' \o siSHL_Data', With(m, Append(segs, g)), NoSeg)
  <2>1. (ssIRbToRDp_Data \o siSHL_Data) \o Segment(req.sessId, from, req.datLen)
          = ssIRbToRDp_Data \o (siSHL_Data \o Segment(req.sessId, from, req.datLen))
    <3>1. PICK w \in Seq(Chunk) : w = Segment(req.sessId, from, req.datLen)
      BY <1>5, SegmentOK
    <3>2. (ssIRbToRDp_Data \o siSHL_Data) \o w = ssIRbToRDp_Data \o (siSHL_Data \o w)
      <4>1. ssIRbToRDp_Data \in Seq(Chunk) /\ siSHL_Data \in Seq(Chunk)
        BY FlowTypes
      <4> QED BY <4>1
    <3> QED BY <3>1, <3>2
  <2>2. Cut((ssIRbToRDp_Data \o siSHL_Data) \o Segment(req.sessId, from, req.datLen),
            With(m, Append(segs, g)), NoSeg)
    BY <1>2, <1>5, <1>6, SegmentIsCut DEF InStage
  <2> QED BY <1>3, <2>1, <2>2
<1>8. Image(SessOf, Append(segs, g)) = ssIRbToRDp_Meta' \o siSHL_Meta'
  <2>1. Image(SessOf, Append(segs, g)) = Append(ssIRbToRDp_Meta \o siSHL_Meta, req.sessId)
    <3>1. Image(SessOf, Append(segs, g)) = Append(Image(SessOf, segs), SessOf[g])
      BY ImageOps
    <3> QED BY <1>2, <1>6, <3>1, SegImages DEF InStage
  <2>2. ssIRbToRDp_Meta \o Append(siSHL_Meta, req.sessId) = Append(ssIRbToRDp_Meta \o siSHL_Meta, req.sessId)
    <3>1. PICK s \in SessIds : s = req.sessId
      BY <1>5
    <3>2. ssIRbToRDp_Meta \o Append(siSHL_Meta, s) = Append(ssIRbToRDp_Meta \o siSHL_Meta, s)
      BY FlowTypes, ConcatAppend
    <3> QED BY <3>1, <3>2
  <2> QED BY <1>3, <2>1, <2>2
<1>9. Image(ReqOfCmd, ssRRhToRDp_FwdCmd') =
        Image(ReqOf, Append(segs, g)) \o (soSHL_DReq' \o ssRRhToRRm_DReq')
  <2> DEFINE rs == Image(ReqOf, segs)
             ds == soSHL_DReq \o ssRRhToRRm_DReq
  <2>1. rs \in Seq(DReq) /\ Image(ReqOf, Append(segs, g)) = Append(rs, req)
    BY <1>6, ImageOps, SegImages
  <2>2. ds \in Seq(DReq) /\ ds # << >> /\ Head(ds) = req
        /\ Tail(ds) = Tail(soSHL_DReq) \o ssRRhToRRm_DReq
    BY <1>3, FlowTypes, HeadTailConcat
  <2> HIDE DEF rs, ds
  <2>3. Append(rs, Head(ds)) \o Tail(ds) = rs \o ds
    BY <2>1, <2>2, ShiftHead
  <2>4. Image(ReqOfCmd, ssRRhToRDp_FwdCmd) = rs \o ds
    BY <1>2 DEF InStage, rs, ds
  <2> QED BY <1>3, <2>1, <2>2, <2>3, <2>4
<1>10. Chained(to, With(On(~Forwarding', m), Append(segs, g)), toeRd')
  <2> DEFINE f == On(~Forwarding, m)
  <2>1. f \in SomeSeg /\ f = On(~Forwarding', m)
    BY <1>3 DEF On, SomeSeg, Forwarding, rdpVars
  <2> HIDE DEF f
  <2>2. With(f, Append(segs, g)) = Append(With(f, segs), g) /\ With(f, segs) \in Seq(Seg)
    BY <1>6, <2>1, WithSeq
  <2>3. Chained(to, With(f, segs), toeRd)
    BY <1>2 DEF InStage, f
  <2>4. toeRd' = After(toeRd, g)
    BY <1>3, <1>5, <1>6 DEF After, Positions
  <2>5. Chained(to, Append(With(f, segs), g), After(toeRd, g))
    BY <1>6, <2>2, <2>3, ChainAppend
  <2> QED BY <2>1, <2>2, <2>4, <2>5
<1>11. PICK more \in Seq(Seg) : more = Append(segs, g)
  BY QueueOps
<1>12. InFlow(m, to)'
  <2>1. InStage(m, to, more)'
    BY <1>7, <1>8, <1>9, <1>10, <1>11 DEF InStage
  <2> QED BY <2>1 DEF InFlow
<1> QED BY <1>4, <1>12, FlowNext

\* IRb moves a metadata and a chunk nearer to RDp, RRm a request to the TOE.
LEMMA FlowMovers ==
  ASSUME TypeOK, FlowInv, IRb \/ RRm
  PROVE  FlowInv'
<1>1. PICK m \in SomeSeg, t \in SomeSeg, to \in Positions : FlowBy(m, t, to)
  BY DEF FlowInv
<1>2. PICK segs \in Seq(Seg) : InStage(m, to, segs)
  BY <1>1 DEF FlowBy, InFlow
<1>3. /\ UNCHANGED << rdpVars, tafLeft, tafSess, outVars, ssRRhToRDp_FwdCmd, toeRd >>
      /\ ssIRbToRDp_Data' \o siSHL_Data' = ssIRbToRDp_Data \o siSHL_Data
      /\ ssIRbToRDp_Meta' \o siSHL_Meta' = ssIRbToRDp_Meta \o siSHL_Meta
      /\ soSHL_DReq' \o ssRRhToRRm_DReq' = soSHL_DReq \o ssRRhToRRm_DReq
  <2>1. CASE IRb
    <3>1. /\ \/ siSHL_Meta # << >> /\ siSHL_Meta' = Tail(siSHL_Meta)
                /\ ssIRbToRDp_Meta' = Append(ssIRbToRDp_Meta, Head(siSHL_Meta))
             \/ UNCHANGED << ssIRbToRDp_Meta, siSHL_Meta >>
          /\ \/ siSHL_Data # << >> /\ siSHL_Data' = Tail(siSHL_Data)
                /\ ssIRbToRDp_Data' = Append(ssIRbToRDp_Data, Head(siSHL_Data))
             \/ UNCHANGED << ssIRbToRDp_Data, siSHL_Data >>
          /\ UNCHANGED << rdpVars, tafLeft, tafSess, outVars, reqVars, soSHL_DReq, toeRd >>
      BY <2>1 DEF IRb, IRbMovesMeta, IRbMovesData, Dequeue, tafVars, outVars
    <3>2. ssIRbToRDp_Data' \o siSHL_Data' = ssIRbToRDp_Data \o siSHL_Data
      BY <3>1, FlowTypes, ShiftHead
    <3>3. ssIRbToRDp_Meta' \o siSHL_Meta' = ssIRbToRDp_Meta \o siSHL_Meta
      BY <3>1, FlowTypes, ShiftHead
    <3> QED BY <3>1, <3>2, <3>3 DEF reqVars
  <2>2. CASE RRm
    <3>1. /\ ssRRhToRRm_DReq # << >> /\ ssRRhToRRm_DReq' = Tail(ssRRhToRRm_DReq)
          /\ soSHL_DReq' = Append(soSHL_DReq, Head(ssRRhToRRm_DReq))
          /\ UNCHANGED << rdpVars, tafLeft, tafSess, outVars, ssRRhToRDp_FwdCmd, toeRd >>
          /\ UNCHANGED << irbVars, siSHL_Data, siSHL_Meta >>
      BY <2>2 DEF RRm, Dequeue, tafVars, outVars
    <3>2. soSHL_DReq' \o ssRRhToRRm_DReq' = soSHL_DReq \o ssRRhToRRm_DReq
      BY <3>1, FlowTypes, ShiftHead
    <3> QED BY <3>1, <3>2 DEF irbVars
  <2> QED BY <2>1, <2>2
<1>4. RdpAt(m)' /\ TafAt(t)' /\ OutFlow(m, t, to)'
  BY <1>1, <1>3, FlowParts DEF rdpVars
<1>5. InStage(m, to, segs)'
  BY <1>2, <1>3 DEF InStage, Forwarding, rdpVars
<1>6. InFlow(m, to)'
  BY <1>5 DEF InFlow
<1> QED BY <1>4, <1>6, FlowNext

\* RRh sends a request and the command for it.
LEMMA FlowSendDReq ==
  ASSUME TypeOK, FlowInv, RRhSendDReq
  PROVE  FlowInv'
<1>1. PICK m \in SomeSeg, t \in SomeSeg, to \in Positions : FlowBy(m, t, to)
  BY DEF FlowInv
<1>2. PICK segs \in Seq(Seg) : InStage(m, to, segs)
  BY <1>1 DEF FlowBy, InFlow
<1> DEFINE req == [sessId |-> rrh_notif.sessId, datLen |-> rrh_datLenReq]
           cmd == FwdCmdFor(rrh_notif.sessId, rrh_datLenReq)
<1>3. /\ UNCHANGED << rdpVars, tafLeft, tafSess, outVars, irbVars, siSHL_Data, siSHL_Meta,
                      soSHL_DReq, toeRd >>
      /\ \/ UNCHANGED reqVars
         \/ /\ ssRRhToRRm_DReq' = Append(ssRRhToRRm_DReq, req)
            /\ ssRRhToRDp_FwdCmd' = Append(ssRRhToRDp_FwdCmd, cmd)
  BY DEF RRhSendDReq, RRhUnchanged, shlVars, tafVars, outVars, reqVars
<1>4. RdpAt(m)' /\ TafAt(t)' /\ OutFlow(m, t, to)'
  BY <1>1, <1>3, FlowParts DEF rdpVars
<1>5. CASE UNCHANGED reqVars
  BY <1>1, <1>3, <1>4, <1>5, FlowParts, FlowNext DEF reqVars, irbVars, inVars, rdpVars
<1>6. CASE ~UNCHANGED reqVars
  <2>1. /\ rrh_notif.sessId \in SessIds /\ rrh_datLenReq \in Nat
        /\ req \in DReq /\ cmd \in ForwardCmd /\ ReqOfCmd[cmd] = req
    <3>1. rrh_notif.sessId \in SessIds /\ rrh_datLenReq \in Nat
      BY DEF TypeOK, RrhTypeOK, Notif
    <3>2. cmd \in ForwardCmd /\ cmd.sessId = rrh_notif.sessId /\ cmd.datLen = rrh_datLenReq
      BY <3>1, FwdCmdOK DEF FwdCmdFor
    <3> QED BY <3>1, <3>2, SegImages DEF DReq
  <2> HIDE DEF req, cmd
  <2> DEFINE rs == Image(ReqOf, segs)
             ds == soSHL_DReq \o ssRRhToRRm_DReq
  <2>2. Image(ReqOfCmd, ssRRhToRDp_FwdCmd') = Append(Image(ReqOfCmd, ssRRhToRDp_FwdCmd), req)
    <3>1. Image(ReqOfCmd, Append(ssRRhToRDp_FwdCmd, cmd)) =
            Append(Image(ReqOfCmd, ssRRhToRDp_FwdCmd), ReqOfCmd[cmd])
      BY <2>1, FlowTypes, ImageOps
    <3> QED BY <1>3, <1>6, <2>1, <3>1
  <2>3. soSHL_DReq' \o ssRRhToRRm_DReq' = Append(ds, req) /\ ds \in Seq(DReq)
    <3>1. soSHL_DReq \o Append(ssRRhToRRm_DReq, req) = Append(soSHL_DReq \o ssRRhToRRm_DReq, req)
      BY <2>1, FlowTypes, ConcatAppend
    <3> QED BY <1>3, <1>6, <3>1, FlowTypes
  <2>4. rs \in Seq(DReq) /\ Image(ReqOfCmd, ssRRhToRDp_FwdCmd) = rs \o ds
    BY <1>2, SegImages DEF InStage
  <2> HIDE DEF rs, ds
  <2>5. rs \o Append(ds, req) = Append(rs \o ds, req)
    BY SMTT(30), <2>1, <2>3, <2>4, ConcatAppend
  <2>6. Image(ReqOfCmd, ssRRhToRDp_FwdCmd') =
          Image(ReqOf, segs) \o (soSHL_DReq' \o ssRRhToRRm_DReq')
    BY <2>2, <2>3, <2>4, <2>5 DEF rs
  <2>7. InStage(m, to, segs)'
    BY <1>2, <1>3, <2>6 DEF InStage, Forwarding, rdpVars, irbVars
  <2> QED BY <1>4, <2>7, FlowNext DEF InFlow
<1> QED BY <1>5, <1>6

\* RDp begins the segment of the metadata and the command it reads.
LEMMA FlowIdle ==
  ASSUME TypeOK, FlowInv, RDpIdle
  PROVE  FlowInv'
<1>1. PICK m \in SomeSeg, t \in SomeSeg, to \in Positions : FlowBy(m, t, to)
  BY DEF FlowInv
<1>2. PICK segs \in Seq(Seg) : InStage(m, to, segs)
  BY <1>1 DEF FlowBy, InFlow
<1>3. /\ rdp_fsmState = "RDP_IDLE" /\ ssRRhToRDp_FwdCmd # << >> /\ ssIRbToRDp_Meta # << >>
      /\ rdp_fwdCmd' = Head(ssRRhToRDp_FwdCmd) /\ ssRRhToRDp_FwdCmd' = Tail(ssRRhToRDp_FwdCmd)
      /\ rdp_sessId' = Head(ssIRbToRDp_Meta) /\ ssIRbToRDp_Meta' = Tail(ssIRbToRDp_Meta)
      /\ rdp_fsmState' \in {"RDP_FWD_META", "RDP_SINK_META"}
      /\ UNCHANGED << ssIRbToRDp_Data, siSHL_Data, siSHL_Meta, soSHL_DReq, ssRRhToRRm_DReq, toeRd >>
      /\ UNCHANGED << outVars, tafLeft, tafSess >>
  BY DEF RDpIdle, RDpUnchanged, Dequeue, shlVars, outVars
<1>4. m = NoSeg
  BY <1>1, <1>3 DEF FlowBy, RdpAt
<1> DEFINE metas == ssIRbToRDp_Meta \o siSHL_Meta
           rs == Image(ReqOf, segs)
           ds == soSHL_DReq \o ssRRhToRRm_DReq
<1>5. /\ metas # << >> /\ Head(metas) = Head(ssIRbToRDp_Meta)
      /\ Tail(metas) = Tail(ssIRbToRDp_Meta) \o siSHL_Meta
  BY <1>3, FlowTypes, HeadTailConcat
<1>6. segs # << >> /\ Head(segs) \in Seg /\ Tail(segs) \in Seq(Seg)
      /\ With(NoSeg, segs) = With(Head(segs), Tail(segs))
  <2>1. Image(SessOf, segs) = metas
    BY <1>2 DEF InStage
  <2>2. segs # << >>
    BY <1>5, <2>1, ImageOps
  <2> QED BY <2>2, CutBegin
<1>7. /\ Head(metas) = Head(segs).sessId
      /\ Image(SessOf, Tail(segs)) = Tail(metas)
  <2>1. /\ Head(Image(SessOf, segs)) = SessOf[Head(segs)]
        /\ Tail(Image(SessOf, segs)) = Image(SessOf, Tail(segs))
    BY <1>6, ImageOps
  <2> QED BY <1>2, <1>6, <2>1, SegImages DEF InStage
<1>8. /\ rs \in Seq(DReq) /\ ds \in Seq(DReq) /\ rs # << >>
      /\ Head(rs) = ReqOf[Head(segs)] /\ Tail(rs) = Image(ReqOf, Tail(segs))
  BY <1>6, ImageOps, SegImages, FlowTypes
<1>9. /\ Head(rs \o ds) = Head(rs) /\ Tail(rs \o ds) = Tail(rs) \o ds
  <2> HIDE DEF rs, ds
  <2> QED BY <1>8, HeadTailConcat
<1>10. /\ Head(ssRRhToRDp_FwdCmd) \in ForwardCmd
       /\ ReqOfCmd[Head(ssRRhToRDp_FwdCmd)] = ReqOf[Head(segs)]
       /\ Image(ReqOfCmd, Tail(ssRRhToRDp_FwdCmd)) = Image(ReqOf, Tail(segs)) \o ds
  <2>1. Head(ssRRhToRDp_FwdCmd) \in ForwardCmd
    BY <1>3, FlowTypes
  <2>2. /\ Head(Image(ReqOfCmd, ssRRhToRDp_FwdCmd)) = ReqOfCmd[Head(ssRRhToRDp_FwdCmd)]
        /\ Tail(Image(ReqOfCmd, ssRRhToRDp_FwdCmd)) = Image(ReqOfCmd, Tail(ssRRhToRDp_FwdCmd))
    <3>1. ssRRhToRDp_FwdCmd \in Seq(ForwardCmd)
      BY FlowTypes
    <3> QED BY <1>3, <3>1, ImageOps
  <2>3. Image(ReqOfCmd, ssRRhToRDp_FwdCmd) = rs \o ds
    BY <1>2 DEF InStage
  <2> HIDE DEF rs, ds
  <2> QED BY <1>8, <1>9, <2>1, <2>2, <2>3
<1>11. PICK h \in Seg, less \in Seq(Seg) : h = Head(segs) /\ less = Tail(segs)
  BY <1>6
<1>12. RdpAt(h)'
  <2>1. rdp_fwdCmd'.sessId = h.sessId /\ rdp_fwdCmd'.datLen = h.left
    <3>1. [sessId |-> rdp_fwdCmd'.sessId, datLen |-> rdp_fwdCmd'.datLen] =
            [sessId |-> h.sessId, datLen |-> h.left]
      BY <1>3, <1>10, <1>11, SegImages
    <3> DEFINE a == [sessId |-> rdp_fwdCmd'.sessId, datLen |-> rdp_fwdCmd'.datLen]
               b == [sessId |-> h.sessId, datLen |-> h.left]
    <3>2. a.sessId = b.sessId /\ a.datLen = b.datLen
      BY <3>1
    <3> QED BY <3>2
  <2>2. rdp_sessId' = h.sessId
    BY <1>3, <1>5, <1>7, <1>11
  <2> QED BY <1>3, <1>11, <2>1, <2>2, NoSegApart DEF RdpAt, SomeSeg
<1>13. InStage(h, to, less)'
  <2>1. ~Forwarding /\ ~Forwarding' /\ On(TRUE, m) = NoSeg /\ On(TRUE, h) = h
    BY <1>3, <1>4 DEF Forwarding, On
  <2>2. Cut(ssIRbToRDp_Data' \o siSHL_Data', With(h, less), NoSeg)
    BY <1>2, <1>3, <1>4, <1>6, <1>11 DEF InStage
  <2>3. Image(SessOf, less) = ssIRbToRDp_Meta' \o siSHL_Meta'
    BY <1>3, <1>5, <1>7, <1>11
  <2>4. Image(ReqOfCmd, ssRRhToRDp_FwdCmd') = Image(ReqOf, less) \o (soSHL_DReq' \o ssRRhToRRm_DReq')
    BY <1>3, <1>10, <1>11
  <2>5. Chained(to, With(On(~Forwarding', h), less), toeRd')
    BY <1>2, <1>3, <1>6, <1>11, <2>1 DEF InStage, On
  <2> QED BY <2>2, <2>3, <2>4, <2>5 DEF InStage
<1>14. OutFlow(h, t, to)'
  <2>1. PICK ann \in Seq(Seg) : OutStage(m, t, to, ann)
    BY <1>1 DEF FlowBy, OutFlow
  <2>2. On(Forwarding, m) = NoSeg /\ On(Forwarding', h) = NoSeg
    BY <1>3, <1>4 DEF Forwarding, On
  <2>3. OutStage(h, t, to, ann)'
    BY <1>3, <2>1, <2>2 DEF OutStage, outVars
  <2> QED BY <2>3 DEF OutFlow
<1>15. TafAt(t)'
  BY <1>1, <1>3, FlowParts
<1>16. InFlow(h, to)' /\ h \in SomeSeg
  BY <1>13 DEF InFlow, SomeSeg
<1> QED BY <1>12, <1>14, <1>15, <1>16, FlowNext

\* RDp tells TAF of the segment in hand.
LEMMA FlowFwdMeta ==
  ASSUME TypeOK, OrderInv, FlowInv, RDpFwdMeta
  PROVE  FlowInv'
<1>1. PICK m \in SomeSeg, t \in SomeSeg, to \in Positions : FlowBy(m, t, to)
  BY DEF FlowInv
<1>2. PICK segs \in Seq(Seg) : InStage(m, to, segs)
  BY <1>1 DEF FlowBy, InFlow
<1>3. PICK ann \in Seq(Seg) : OutStage(m, t, to, ann)
  BY <1>1 DEF FlowBy, OutFlow
<1>4. /\ rdp_fsmState = "RDP_FWD_META" /\ rdp_fsmState' = "RDP_FWD_STREAM"
      /\ soTAF_SessId' = Append(soTAF_SessId, rdp_sessId)
      /\ soTAF_DatLen' = Append(soTAF_DatLen, rdp_fwdCmd.datLen)
      /\ UNCHANGED << inVars, soTAF_Data, tafPos, tafLeft, tafSess, rdp_fwdCmd, rdp_sessId >>
  BY DEF RDpFwdMeta, RDpUnchanged, shlVars, irbVars, inVars
<1>5. /\ ~Forwarding /\ Forwarding' /\ m \in Seg /\ m.sessId = rdp_sessId /\ m.left = rdp_fwdCmd.datLen
      /\ On(~Forwarding, m) = m /\ On(Forwarding, m) = NoSeg
      /\ On(~Forwarding', m) = NoSeg /\ On(Forwarding', m) = m
  BY <1>1, <1>4 DEF FlowBy, RdpAt, Forwarding, On, SomeSeg
<1>6. ~Dropped(m.sessId) /\ m.sessId \in SessIds
  BY <1>4, <1>5 DEF OrderInv, RightDisposition, Seg
<1>7. /\ m.pos = to[m.sessId] /\ Chained(After(to, m), segs, toeRd) /\ After(to, m) \in Positions
  <2>1. Chained(to, << m >> \o segs, toeRd)
    BY <1>2, <1>5, NoSegApart DEF InStage, With, WithFront
  <2>2. /\ << m >> \o segs \in Seq(Seg) /\ << m >> \o segs # << >>
        /\ Head(<< m >> \o segs) = m /\ Tail(<< m >> \o segs) = segs
    BY <1>5
  <2> QED BY <1>5, <2>1, <2>2, ChainHead, AfterOK
<1>8. PICK on \in Positions : on = After(to, m)
  BY <1>7
<1>9. InStage(m, on, segs)'
  BY <1>2, <1>4, <1>5, <1>7, <1>8 DEF InStage, inVars, With, WithFront
<1>10. PICK more \in Seq(Seg) : more = Append(ann, m)
  BY <1>5, QueueOps
<1>11. Cut(soTAF_Data', With(t, more), On(Forwarding', m))
  BY <1>3, <1>4, <1>5, <1>10, CutAnnounce DEF OutStage
<1>12. Image(SessOf, more) = soTAF_SessId' /\ Image(LeftOf, more) = soTAF_DatLen'
  <2>1. /\ Image(SessOf, more) = Append(Image(SessOf, ann), SessOf[m])
        /\ Image(LeftOf, more) = Append(Image(LeftOf, ann), LeftOf[m])
    BY <1>5, <1>10, ImageOps
  <2> QED BY <1>3, <1>4, <1>5, <2>1, SegImages DEF OutStage
<1>13. Chained(tafPos', With(t, more), Kept(on))
  <2>1. Chained(tafPos, With(t, ann), Kept(to)) /\ With(t, ann) \in Seq(Seg)
        /\ With(t, more) = Append(With(t, ann), m)
    BY <1>3, <1>5, <1>10, WithSeq DEF OutStage
  <2>2. m.pos = Kept(to)[m.sessId]
    BY <1>6, <1>7 DEF Kept
  <2>3. After(Kept(to), m) = Kept(on)
    BY <1>6, <1>8 DEF Kept, After, Positions
  <2>4. Chained(tafPos, Append(With(t, ann), m), After(Kept(to), m))
    BY <1>5, <2>1, <2>2, ChainAppend
  <2> QED BY <1>4, <2>1, <2>3, <2>4
<1>14. OutStage(m, t, on, more)'
  BY <1>11, <1>12, <1>13 DEF OutStage, Kept, Dropped
<1>15. RdpAt(m)' /\ TafAt(t)'
  BY <1>1, <1>4, <1>5, NoSegApart DEF FlowBy, RdpAt, TafAt
<1> QED BY <1>9, <1>14, <1>15, FlowNext DEF InFlow, OutFlow

\* The chunk RDp takes is that of its segment.
LEMMA TakesOwn ==
  ASSUME TypeOK, NEW m \in Seg, NEW to, NEW segs \in Seq(Seg), InStage(m, to, segs),
         ssIRbToRDp_Data # << >>
  PROVE  /\ Head(ssIRbToRDp_Data) = ChunkAt[m]
         /\ Cut(Tail(ssIRbToRDp_Data) \o siSHL_Data, With(RestOf[m], segs), NoSeg)
<1> DEFINE q == ssIRbToRDp_Data \o siSHL_Data
<1>1. /\ q # << >> /\ Head(q) = Head(ssIRbToRDp_Data)
      /\ Tail(q) = Tail(ssIRbToRDp_Data) \o siSHL_Data
  BY FlowTypes, HeadTailConcat
<1>2. Cut(q, With(m, segs), NoSeg)
  BY DEF InStage
<1> HIDE DEF q
<1> QED BY <1>1, <1>2, CutTake

\* RDp passes a chunk on to TAF.
LEMMA FlowFwdStream ==
  ASSUME TypeOK, FlowInv, RDpFwdStream
  PROVE  FlowInv'
<1>1. PICK m \in SomeSeg, t \in SomeSeg, to \in Positions : FlowBy(m, t, to)
  BY DEF FlowInv
<1>2. PICK segs \in Seq(Seg) : InStage(m, to, segs)
  BY <1>1 DEF FlowBy, InFlow
<1>3. PICK ann \in Seq(Seg) : OutStage(m, t, to, ann)
  BY <1>1 DEF FlowBy, OutFlow
<1> DEFINE c == Head(ssIRbToRDp_Data)
<1>4. /\ rdp_fsmState = "RDP_FWD_STREAM" /\ ssIRbToRDp_Data # << >>
      /\ rdp_fsmState' = IF c.tlast THEN "RDP_IDLE" ELSE "RDP_FWD_STREAM"
      /\ ssIRbToRDp_Data' = Tail(ssIRbToRDp_Data) /\ soTAF_Data' = Append(soTAF_Data, c)
      /\ UNCHANGED << siSHL_Data, ssIRbToRDp_Meta, siSHL_Meta, ssRRhToRDp_FwdCmd, soSHL_DReq,
                      ssRRhToRRm_DReq, toeRd, soTAF_SessId, soTAF_DatLen, tafPos, tafLeft,
                      tafSess, rdp_fwdCmd, rdp_sessId >>
  BY DEF RDpFwdStream, RDpTakesChunk, RDpUnchanged, Dequeue, shlVars
<1>5. m \in Seg /\ m.sessId = rdp_sessId /\ rdp_fwdCmd.sessId = rdp_sessId
  BY <1>1, <1>4 DEF FlowBy, RdpAt, SomeSeg
<1>6. c = ChunkAt[m] /\ Cut(ssIRbToRDp_Data' \o siSHL_Data', With(RestOf[m], segs), NoSeg)
  BY <1>2, <1>4, <1>5, TakesOwn
<1>7. PICK r \in SomeSeg : r = RestOf[m]
  BY <1>5, RestFields
<1>8. /\ r = NoSeg <=> c.tlast
      /\ r # NoSeg => r \in Seg /\ r.sessId = m.sessId
  <2>1. r = NoSeg <=> c.tlast
    BY <1>5, <1>6, <1>7, ChunkFields, RestFields
  <2>2. ASSUME r # NoSeg PROVE r \in Seg /\ r.sessId = m.sessId
    <3>1. m.left > ARW_BYTES
      BY <1>5, <1>7, <2>2, RestFields DEF Seg, ARW_BYTES
    <3>2. r = SegOf(m.sessId, m.pos + ARW_BYTES, m.left - ARW_BYTES) /\ r \in Seg
      BY <1>5, <1>7, <3>1, RestFields
    <3> QED BY <3>2 DEF SegOf
  <2> QED BY <2>1, <2>2
<1>9. RdpAt(r)'
  BY <1>4, <1>5, <1>8 DEF RdpAt, SomeSeg
<1>10. Forwarding /\ On(~Forwarding, m) = NoSeg /\ On(Forwarding, m) = m
       /\ On(~Forwarding', r) = NoSeg /\ On(Forwarding', r) = r
  BY <1>4, <1>8 DEF Forwarding, On
<1>11. InStage(r, to, segs)'
  BY <1>2, <1>4, <1>6, <1>7, <1>10 DEF InStage
<1>12. Cut(Append(soTAF_Data, c), With(t, ann), r)
  BY <1>3, <1>5, <1>6, <1>7, <1>10, CutPut DEF OutStage
<1>13. OutStage(r, t, to, ann)'
  BY <1>3, <1>4, <1>10, <1>12 DEF OutStage
<1>14. TafAt(t)'
  BY <1>1, <1>4, FlowParts
<1> QED BY <1>9, <1>11, <1>13, <1>14, FlowNext DEF InFlow, OutFlow

\* RDp turns to a segment that is not for TAF.
LEMMA FlowSinkMeta ==
  ASSUME FlowInv, RDpSinkMeta
  PROVE  FlowInv'
<1>1. PICK m \in SomeSeg, t \in SomeSeg, to \in Positions : FlowBy(m, t, to)
  BY DEF FlowInv
<1>2. PICK segs \in Seq(Seg), ann \in Seq(Seg) : InStage(m, to, segs) /\ OutStage(m, t, to, ann)
  BY <1>1 DEF FlowBy, InFlow, OutFlow
<1>3. /\ rdp_fsmState = "RDP_SINK_META" /\ rdp_fsmState' \in {"RDP_8801", "RDP_SINK_STREAM"}
      /\ UNCHANGED << inVars, outVars, tafLeft, tafSess, rdp_fwdCmd, rdp_sessId >>
  BY DEF RDpSinkMeta, RDpUnchanged, shlVars, irbVars, inVars, outVars
<1>4. ~Forwarding /\ ~Forwarding'
  BY <1>3 DEF Forwarding
<1>5. InStage(m, to, segs)' /\ OutStage(m, t, to, ann)'
  BY <1>2, <1>3, <1>4 DEF InStage, OutStage, On, inVars, outVars
<1>6. RdpAt(m)' /\ TafAt(t)'
  BY <1>1, <1>3 DEF FlowBy, RdpAt, TafAt
<1> QED BY <1>5, <1>6, FlowNext DEF InFlow, OutFlow

\* RDp sinks a chunk, or makes a command of it.
LEMMA FlowSink ==
  ASSUME TypeOK, OrderInv, FlowInv,
         RDpSinkStream \/ \E sock \in Socks, count \in TxCounts : RDp8801(sock, count)
  PROVE  FlowInv'
<1>1. PICK m \in SomeSeg, t \in SomeSeg, to \in Positions : FlowBy(m, t, to)
  BY DEF FlowInv
<1>2. PICK segs \in Seq(Seg) : InStage(m, to, segs)
  BY <1>1 DEF FlowBy, InFlow
<1>3. PICK ann \in Seq(Seg) : OutStage(m, t, to, ann)
  BY <1>1 DEF FlowBy, OutFlow
<1> DEFINE c == Head(ssIRbToRDp_Data)
<1>4. /\ rdp_fsmState \in {"RDP_SINK_STREAM", "RDP_8801"} /\ ssIRbToRDp_Data # << >>
      /\ rdp_fsmState' = IF c.tlast THEN "RDP_IDLE" ELSE "RDP_SINK_STREAM"
      /\ ssIRbToRDp_Data' = Tail(ssIRbToRDp_Data)
      /\ UNCHANGED << siSHL_Data, ssIRbToRDp_Meta, siSHL_Meta, ssRRhToRDp_FwdCmd, soSHL_DReq,
                      ssRRhToRRm_DReq, toeRd, outVars, tafLeft, tafSess, rdp_fwdCmd, rdp_sessId >>
  <2>1. CASE RDpSinkStream
    BY <2>1 DEF RDpSinkStream, RDpTakesChunk, RDpUnchanged, Dequeue, shlVars, outVars
  <2>2. CASE \E sock \in Socks, count \in TxCounts : RDp8801(sock, count)
    BY <2>2 DEF RDp8801, AfterCmdChunk, RDpTakesChunk, RDpUnchanged, Dequeue, shlVars, outVars
  <2> QED BY <2>1, <2>2
<1>5. m \in Seg /\ m.sessId = rdp_sessId /\ rdp_fwdCmd.sessId = rdp_sessId
  BY <1>1, <1>4 DEF FlowBy, RdpAt, SomeSeg
<1>6. c = ChunkAt[m] /\ Cut(ssIRbToRDp_Data' \o siSHL_Data', With(RestOf[m], segs), NoSeg)
  BY <1>2, <1>4, <1>5, TakesOwn
<1>7. PICK r \in SomeSeg : r = RestOf[m]
  BY <1>5, RestFields
<1>8. /\ r = NoSeg <=> c.tlast
      /\ r # NoSeg => r \in Seg /\ r.sessId = m.sessId
  <2>1. r = NoSeg <=> c.tlast
    BY <1>5, <1>6, <1>7, ChunkFields, RestFields
  <2>2. ASSUME r # NoSeg PROVE r \in Seg /\ r.sessId = m.sessId
    <3>1. m.left > ARW_BYTES
      BY <1>5, <1>7, <2>2, RestFields DEF Seg, ARW_BYTES
    <3>2. r = SegOf(m.sessId, m.pos + ARW_BYTES, m.left - ARW_BYTES) /\ r \in Seg
      BY <1>5, <1>7, <3>1, RestFields
    <3> QED BY <3>2 DEF SegOf
  <2> QED BY <2>1, <2>2
<1>9. RdpAt(r)'
  BY <1>4, <1>5, <1>8 DEF RdpAt, SomeSeg
<1>10. ~Forwarding /\ ~Forwarding' /\ On(~Forwarding, m) = m /\ On(~Forwarding', r) = r
       /\ On(Forwarding, m) = NoSeg /\ On(Forwarding', r) = NoSeg
  BY <1>4 DEF Forwarding, On
<1>11. Dropped(m.sessId) /\ m.sessId \in SessIds
  BY <1>4, <1>5 DEF OrderInv, RightDisposition, Seg
<1>12. PICK on \in Positions : on = [to EXCEPT ![m.sessId] = m.pos + LenOfChunk(m.left)]
  <2>1. m.pos + LenOfChunk(m.left) \in Nat
    BY <1>5 DEF Seg, LenOfChunk, ARW_BYTES
  <2> QED BY <2>1 DEF Positions
<1>13. Chained(on, With(r, segs), toeRd)
  <2>1. Chained(to, With(m, segs), toeRd)
    BY <1>2, <1>10 DEF InStage
  <2> QED BY <1>5, <1>7, <1>12, <2>1, ChainCut
<1>14. InStage(r, on, segs)'
  BY <1>2, <1>4, <1>6, <1>7, <1>10, <1>13 DEF InStage
<1>15. Kept(on) = Kept(to)
  BY <1>11, <1>12 DEF Kept, Positions
<1>16. OutStage(r, t, on, ann)'
  BY <1>3, <1>4, <1>10, <1>15 DEF OutStage, outVars, Kept, Dropped
<1>17. TafAt(t)'
  BY <1>1, <1>4, FlowParts
<1> QED BY <1>9, <1>14, <1>16, <1>17, FlowNext DEF InFlow, OutFlow

\* TAF begins the next segment it has been told of.
LEMMA FlowTafMeta ==
  ASSUME FlowInv, TafReadMeta
  PROVE  FlowInv'
<1>1. PICK m \in SomeSeg, t \in SomeSeg, to \in Positions : FlowBy(m, t, to)
  BY DEF FlowInv
<1>2. PICK ann \in Seq(Seg) : OutStage(m, t, to, ann)
  BY <1>1 DEF FlowBy, OutFlow
<1>3. /\ tafLeft = 0 /\ soTAF_SessId # << >>
      /\ tafSess' = Head(soTAF_SessId) /\ tafLeft' = Head(soTAF_DatLen)
      /\ soTAF_SessId' = Tail(soTAF_SessId) /\ soTAF_DatLen' = Tail(soTAF_DatLen)
      /\ UNCHANGED << inVars, rdpVars, soTAF_Data, tafPos >>
  BY DEF TafReadMeta, Dequeue, shlVars, reqVars, irbVars, inVars
<1>4. t = NoSeg
  BY <1>1, <1>3 DEF FlowBy, TafAt, SomeSeg, Seg
<1>5. ann # << >> /\ Head(ann) \in Seg /\ Tail(ann) \in Seq(Seg)
      /\ With(NoSeg, ann) = With(Head(ann), Tail(ann))
  <2>1. ann # << >>
    BY <1>2, <1>3, ImageOps DEF OutStage
  <2> QED BY <2>1, CutBegin
<1>6. PICK h \in Seg, less \in Seq(Seg) : h = Head(ann) /\ less = Tail(ann)
  BY <1>5
<1>7. /\ tafSess' = h.sessId /\ tafLeft' = h.left
      /\ Image(SessOf, less) = soTAF_SessId' /\ Image(LeftOf, less) = soTAF_DatLen'
  <2>1. /\ Head(Image(SessOf, ann)) = SessOf[h] /\ Tail(Image(SessOf, ann)) = Image(SessOf, less)
        /\ Head(Image(LeftOf, ann)) = LeftOf[h] /\ Tail(Image(LeftOf, ann)) = Image(LeftOf, less)
    BY <1>5, <1>6, ImageOps
  <2> QED BY <1>2, <1>3, <2>1, SegImages DEF OutStage
<1>8. TafAt(h)'
  BY <1>7, NoSegApart DEF TafAt, SomeSeg
<1>9. OutStage(m, h, to, less)'
  BY <1>2, <1>3, <1>4, <1>5, <1>6, <1>7 DEF OutStage, rdpVars, Forwarding
<1>10. RdpAt(m)' /\ InFlow(m, to)'
  BY <1>1, <1>3, FlowParts DEF rdpVars
<1> QED BY <1>8, <1>9, <1>10, FlowNext DEF OutFlow, SomeSeg

\* The chunk TAF reads is that of its segment.
LEMMA ReadsOwn ==
  ASSUME FlowInv, tafLeft > 0, soTAF_Data # << >>
  PROVE  \E m \in SomeSeg, t \in Seg, to \in Positions, ann \in Seq(Seg) :
           /\ FlowBy(m, t, to) /\ OutStage(m, t, to, ann)
           /\ tafLeft = t.left /\ tafSess = t.sessId
           /\ Head(soTAF_Data) = ChunkAt[t] /\ t.pos = tafPos[t.sessId]
<1>1. PICK m \in SomeSeg, t \in SomeSeg, to \in Positions : FlowBy(m, t, to)
  BY DEF FlowInv
<1>2. PICK ann \in Seq(Seg) : OutStage(m, t, to, ann)
  BY <1>1 DEF FlowBy, OutFlow
<1>3. t \in Seg /\ tafLeft = t.left /\ tafSess = t.sessId
  BY <1>1 DEF FlowBy, TafAt, SomeSeg
<1>4. Head(soTAF_Data) = ChunkAt[t]
  BY <1>2, <1>3, CutTake DEF OutStage
<1>5. t.pos = tafPos[t.sessId]
  BY <1>2, <1>3, ChainCut DEF OutStage
<1> QED BY <1>1, <1>2, <1>3, <1>4, <1>5

LEMMA FlowTafData ==
  ASSUME TypeOK, FlowInv, TafReadData
  PROVE  FlowInv'
<1> DEFINE c == Head(soTAF_Data)
<1>1. /\ tafLeft > 0 /\ soTAF_Data # << >> /\ soTAF_Data' = Tail(soTAF_Data)
      /\ tafLeft' = IF c.tlast THEN 0 ELSE tafLeft - c.len
      /\ tafPos' = [tafPos EXCEPT ![c.sessId] = c.pos + c.len]
      /\ UNCHANGED << inVars, rdpVars, soTAF_SessId, soTAF_DatLen, tafSess >>
  BY DEF TafReadData, Dequeue, shlVars, reqVars, irbVars, inVars
<1>2. PICK m \in SomeSeg, t \in Seg, to \in Positions, ann \in Seq(Seg) :
        /\ FlowBy(m, t, to) /\ OutStage(m, t, to, ann)
        /\ tafLeft = t.left /\ tafSess = t.sessId /\ c = ChunkAt[t]
  BY <1>1, ReadsOwn
<1>3. PICK r \in SomeSeg : r = RestOf[t]
  BY RestFields
<1>4. /\ c.sessId = t.sessId /\ c.pos = t.pos /\ c.len = LenOfChunk(t.left)
      /\ c.tlast <=> t.left <= ARW_BYTES
  BY <1>2, ChunkFields
<1>5. TafAt(r)'
  <2>1. CASE t.left <= ARW_BYTES
    BY <1>1, <1>3, <1>4, <2>1, RestFields DEF TafAt
  <2>2. CASE ~(t.left <= ARW_BYTES)
    <3>1. t.left > ARW_BYTES
      BY <2>2 DEF Seg, ARW_BYTES
    <3>2. /\ r = SegOf(t.sessId, t.pos + ARW_BYTES, t.left - ARW_BYTES) /\ r # NoSeg
          /\ LenOfChunk(t.left) = ARW_BYTES
      BY <1>3, <2>2, <3>1, RestFields
    <3>3. r.sessId = t.sessId /\ r.left = t.left - ARW_BYTES
      BY <3>2 DEF SegOf
    <3> QED BY <1>1, <1>2, <1>3, <1>4, <2>2, <3>2, <3>3 DEF TafAt
  <2> QED BY <2>1, <2>2
<1>6. Cut(Tail(soTAF_Data), With(r, ann), On(Forwarding, m))
  BY <1>1, <1>2, <1>3, CutTake DEF OutStage
<1>7. Chained([tafPos EXCEPT ![t.sessId] = t.pos + LenOfChunk(t.left)], With(r, ann), Kept(to))
  BY <1>2, <1>3, ChainCut DEF OutStage
<1>8. OutStage(m, r, to, ann)'
  BY <1>1, <1>2, <1>4, <1>6, <1>7 DEF OutStage, rdpVars, Forwarding, Kept, Dropped
<1>9. RdpAt(m)' /\ InFlow(m, to)'
  BY <1>1, <1>2, FlowParts DEF rdpVars
<1> QED BY <1>5, <1>8, <1>9, FlowNext DEF OutFlow

LEMMA FlowStep ==
  ASSUME TypeOK, OrderInv, FlowInv, [Next]_vars
  PROVE  FlowInv'
<1>1. ASSUME \/ MmioEnable \/ COnRead \/ RNh
             \/ RRhIdle \/ RRhRequestPart \/ RRhRequestAll \/ RRhWaitSpace
             \/ \E s \in SessIds, n \in SegLens : ToeNotify(s, n)
             \/ UNCHANGED vars
      PROVE  FlowInv'
  <2>1. UNCHANGED << inVars, outVars, rdpVars, tafLeft, tafSess >>
    <3> USE DEF shlVars, irbVars, reqVars, rdpVars, tafVars, inVars, outVars
    <3>1. CASE MmioEnable \/ COnRead \/ RNh
      BY <3>1 DEF MmioEnable, COnRead, RNh
    <3>2. CASE RRhIdle \/ RRhRequestPart \/ RRhRequestAll \/ RRhWaitSpace
      BY <3>2 DEF RRhIdle, RRhRequestPart, RRhRequestAll, RRhWaitSpace, RRhUnchanged
    <3>3. CASE \E s \in SessIds, n \in SegLens : ToeNotify(s, n)
      BY <3>3 DEF ToeNotify
    <3>4. CASE UNCHANGED vars
      BY <3>4 DEF vars
    <3> QED BY <1>1, <3>1, <3>2, <3>3, <3>4
  <2>2. PICK m \in SomeSeg, t \in SomeSeg, to \in Positions : FlowBy(m, t, to)
    BY DEF FlowInv
  <2> QED BY <2>1, <2>2, FlowParts, FlowNext DEF rdpVars
<1>2. CASE RDp
  BY <1>2, FlowIdle, FlowFwdMeta, FlowFwdStream, FlowSinkMeta, FlowSink DEF RDp
<1>3. CASE ToeServe \/ IRb \/ RRm \/ RRhSendDReq \/ TafRead
  BY <1>3, FlowToeServe, FlowMovers, FlowSendDReq, FlowTafMeta, FlowTafData DEF TafRead
<1> QED BY <1>1, <1>2, <1>3 DEF Next, RRh

LEMMA FlowIsInvariant == Spec => [](TypeOK /\ OrderInv /\ FlowInv)
<1>1. Init => OrderInv
  BY DEF Init, OrderInv, SessionsInOrder, SessionsOf, CommandsMatchPort, RightDisposition
<1>2. TypeOK /\ OrderInv /\ [Next]_vars => OrderInv'
  BY OrderStep
<1>3. TypeOK /\ OrderInv /\ FlowInv /\ [Next]_vars => FlowInv'
  BY FlowStep
<1> QED BY <1>1, <1>2, <1>3, FlowInit, TypeInvariant, PTL DEF Spec

\* tcp_shell_if.cpp:1320-1443: the chunk RDp takes belongs to the segment whose
\* command it executes, for segments of any length split into any requests,
\* whatever the interleaving of RRh, RRm, the TOE, IRb and RDp.
THEOREM DataFollowsCommand == Spec => []DataMatchesCommand
<1>1. TypeOK /\ OrderInv /\ FlowInv => DataMatchesCommand
  <2> SUFFICES ASSUME TypeOK, FlowInv, ssIRbToRDp_Data # << >>,
                      rdp_fsmState \in {"RDP_FWD_STREAM", "RDP_SINK_STREAM", "RDP_8801"}
               PROVE  Head(ssIRbToRDp_Data).sessId = rdp_fwdCmd.sessId
    BY DEF DataMatchesCommand
  <2>1. PICK m \in SomeSeg, t \in SomeSeg, to \in Positions : FlowBy(m, t, to)
    BY DEF FlowInv
  <2>2. PICK segs \in Seq(Seg) : InStage(m, to, segs)
    BY <2>1 DEF FlowBy, InFlow
  <2>3. m \in Seg /\ m.sessId = rdp_fwdCmd.sessId
    BY <2>1 DEF FlowBy, RdpAt, SomeSeg
  <2> QED BY <2>2, <2>3, TakesOwn, ChunkFields
<1> QED BY <1>1, FlowIsInvariant, PTL

\* tcp_shell_if.cpp:1375-1415: what TAF reads behind a session and a length is
\* the continuation of the byte stream of that session, to the byte, with TLAST
\* on the last one, for any sessions, lengths, depths and splits of requests.
THEOREM TafReadsItsStream == Spec => []TafStreamExact
<1>1. FlowInv => TafStreamExact
  <2> SUFFICES ASSUME FlowInv, tafLeft > 0, soTAF_Data # << >>
               PROVE  LET chunk == Head(soTAF_Data)
                      IN /\ chunk.sessId = tafSess
                         /\ chunk.pos = tafPos[chunk.sessId]
                         /\ chunk.len <= tafLeft
                         /\ chunk.tlast <=> chunk.len = tafLeft
    BY DEF TafStreamExact
  <2>1. PICK t \in Seg :
          /\ tafLeft = t.left /\ tafSess = t.sessId
          /\ Head(soTAF_Data) = ChunkAt[t] /\ t.pos = tafPos[t.sessId]
    BY ReadsOwn
  <2>2. /\ ChunkAt[t].sessId = t.sessId /\ ChunkAt[t].pos = t.pos
        /\ ChunkAt[t].len = LenOfChunk(t.left)
        /\ ChunkAt[t].tlast <=> t.left <= ARW_BYTES
    BY ChunkFields
  <2>3. /\ LenOfChunk(t.left) <= t.left
        /\ t.left <= ARW_BYTES <=> LenOfChunk(t.left) = t.left
    BY DEF LenOfChunk, Seg, ARW_BYTES
  <2> QED BY <2>1, <2>2, <2>3
<1> QED BY <1>1, FlowIsInvariant, PTL

-----------------------------------------------------------------------------
(* Sums.  SumFunction adds up the values of a function on a finite domain,  *)
(* by a recursion over subsets of it that takes out any element first.      *)

AnElement(s) == CHOOSE x \in s : TRUE
SumBody(f, g, s) == IF s = {} THEN 0 ELSE f[AnElement(s)] + g[s \ {AnElement(s)}]
SumStep(f, g) == [s \in SUBSET DOMAIN f |-> SumBody(f, g, s)]
Sums(f) == CHOOSE g : g = SumStep(f, g)

LEMMA SumUnfold ==
  ASSUME NEW f
  PROVE  SumFunction(f) = Sums(f)[DOMAIN f]
  BY Zenon DEF SumFunction, SumFunctionOnSet, FoldFunctionOnSet, MapThenFoldSet, Sums, SumStep,
               SumBody, AnElement

\* What holds of a subset if it does of it without any of its elements.
LEMMA SubsetInduction ==
  ASSUME NEW D, IsFiniteSet(D), NEW P,
         \A s \in SUBSET D : (\A x \in s : s \ {x} \in P) => s \in P
  PROVE  \A s \in SUBSET D : s \in P
<1> DEFINE K == {n \in Nat : \A s \in SUBSET D : Cardinality(s) = n => s \in P}
<1>1. ASSUME NEW s \in SUBSET D
      PROVE  /\ IsFiniteSet(s) /\ Cardinality(s) \in Nat /\ (Cardinality(s) = 0 <=> s = {})
             /\ \A x \in s : s \ {x} \in SUBSET D /\ Cardinality(s \ {x}) = Cardinality(s) - 1
  <2>1. IsFiniteSet(s)
    BY FS_Subset
  <2> QED BY <2>1, FS_CardinalityType, FS_EmptySet, FS_RemoveElement
<1>2. 0 \in K
  BY <1>1
<1>3. ASSUME NEW n \in K PROVE n + 1 \in K
  <2> SUFFICES ASSUME NEW s \in SUBSET D, Cardinality(s) = n + 1 PROVE s \in P
    OBVIOUS
  <2>1. ASSUME NEW x \in s PROVE s \ {x} \in P
    <3>1. s \ {x} \in SUBSET D /\ Cardinality(s \ {x}) = n
      BY <1>1
    <3> QED BY <3>1
  <2> QED BY <2>1
<1>4. K = Nat
  <2>1. K \in SUBSET Nat
    OBVIOUS
  <2> HIDE DEF K
  <2> QED BY <1>2, <1>3, <2>1, NatSetInduction
<1> QED BY <1>1, <1>4

LEMMA AnElementIn == ASSUME NEW s, s # {} PROVE AnElement(s) \in s
  BY DEF AnElement

\* The recursion has a solution, with integers for values.
LEMMA SumsOK ==
  ASSUME NEW D, IsFiniteSet(D), NEW f \in [D -> Int]
  PROVE  /\ Sums(f) \in [SUBSET D -> Int]
         /\ \A s \in SUBSET D : Sums(f)[s] = SumBody(f, Sums(f), s)
<1> DEFINE G == [SUBSET D -> Int]
           E(n) == \E g \in G : \A s \in SUBSET D : Cardinality(s) <= n => g[s] = SumBody(f, g, s)
           K == {n \in Nat : E(n)}
<1>0. ASSUME NEW s \in SUBSET D
      PROVE  /\ Cardinality(s) \in Nat /\ (Cardinality(s) = 0 <=> s = {}) /\ Cardinality(s) <= Cardinality(D)
             /\ s # {} => /\ AnElement(s) \in s /\ s \ {AnElement(s)} \in SUBSET D
                          /\ Cardinality(s \ {AnElement(s)}) = Cardinality(s) - 1
  <2>1. IsFiniteSet(s) /\ Cardinality(s) <= Cardinality(D)
    BY FS_Subset
  <2> QED BY <2>1, AnElementIn, FS_CardinalityType, FS_EmptySet, FS_RemoveElement
<1>1. ASSUME NEW g \in G, NEW s \in SUBSET D PROVE SumBody(f, g, s) \in Int
  <2>1. CASE s = {}
    BY <2>1 DEF SumBody
  <2>2. CASE s # {}
    <3>1. f[AnElement(s)] \in Int /\ g[s \ {AnElement(s)}] \in Int
      BY <1>0, <2>2
    <3> QED BY <2>2, <3>1 DEF SumBody
  <2> QED BY <2>1, <2>2
<1>2. 0 \in K
  <2> DEFINE z == [s \in SUBSET D |-> 0]
  <2>1. ASSUME NEW s \in SUBSET D, Cardinality(s) <= 0 PROVE z[s] = SumBody(f, z, s)
    <3>1. s = {}
      <4>1. Cardinality(s) \in Nat /\ (Cardinality(s) = 0 <=> s = {})
        BY <1>0, Zenon
      <4>2. Cardinality(s) = 0
        BY <2>1, <4>1
      <4> QED BY <4>1, <4>2, Zenon
    <3>2. SumBody(f, z, s) = 0
      BY <3>1 DEF SumBody
    <3>3. z[s] = 0
      OBVIOUS
    <3> QED BY <3>2, <3>3
  <2>2. z \in G
    OBVIOUS
  <2> HIDE DEF z
  <2> QED BY <2>1, <2>2
<1>3. ASSUME NEW n \in K PROVE n + 1 \in K
  <2>1. PICK g \in G : \A s \in SUBSET D : Cardinality(s) <= n => g[s] = SumBody(f, g, s)
    OBVIOUS
  <2> DEFINE h == [s \in SUBSET D |-> SumBody(f, g, s)]
  <2>2. h \in G
    BY <1>1
  <2>3. ASSUME NEW s \in SUBSET D, Cardinality(s) <= n + 1 PROVE h[s] = SumBody(f, h, s)
    <3>1. CASE s = {}
      BY <3>1 DEF SumBody
    <3>2. CASE s # {}
      <4> DEFINE u == s \ {AnElement(s)}
      <4>1. u \in SUBSET D /\ Cardinality(u) <= n
        BY <1>0, <2>3, <3>2
      <4>2. h[u] = g[u]
        BY <2>1, <4>1
      <4>3. h[s] = SumBody(f, g, s)
        OBVIOUS
      <4> HIDE DEF h
      <4> QED BY <3>2, <4>2, <4>3 DEF SumBody
    <3> QED BY <3>1, <3>2
  <2> HIDE DEF h
  <2> QED BY <2>2, <2>3
<1>4. K = Nat
  <2>1. K \in SUBSET Nat
    OBVIOUS
  <2> HIDE DEF K
  <2> QED BY <1>2, <1>3, <2>1, NatSetInduction
<1>5. PICK g \in G : \A s \in SUBSET D : g[s] = SumBody(f, g, s)
  <2>1. Cardinality(D) \in Nat
    BY FS_CardinalityType
  <2>2. E(Cardinality(D))
    BY <1>4, <2>1
  <2> QED BY <1>0, <2>2
<1>6. g = SumStep(f, g)
  BY <1>5 DEF SumStep
<1>7. Sums(f) = SumStep(f, Sums(f))
  BY <1>6, Zenon DEF Sums
<1>8. \A s \in SUBSET D : Sums(f)[s] = SumBody(f, Sums(f), s)
  BY <1>7 DEF SumStep
<1>9. DOMAIN Sums(f) = SUBSET D /\ Sums(f) = [s \in SUBSET D |-> Sums(f)[s]]
  <2>1. Sums(f) = [s \in SUBSET D |-> SumBody(f, Sums(f), s)]
    BY <1>7 DEF SumStep
  <2> QED BY <2>1
<1>10. \A s \in SUBSET D : Sums(f)[s] \in Int
  <2> DEFINE P == {s \in SUBSET D : Sums(f)[s] \in Int}
  <2>1. ASSUME NEW s \in SUBSET D, \A x \in s : s \ {x} \in P PROVE s \in P
    <3>1. CASE s = {}
      <4>1. Sums(f)[s] = 0
        BY <1>8, <3>1 DEF SumBody
      <4> QED BY <4>1
    <3>2. CASE s # {}
      <4>1. f[AnElement(s)] \in Int /\ Sums(f)[s \ {AnElement(s)}] \in Int
        BY <1>0, <2>1, <3>2
      <4>2. Sums(f)[s] = f[AnElement(s)] + Sums(f)[s \ {AnElement(s)}]
        BY <1>8, <3>2 DEF SumBody
      <4> QED BY <4>1, <4>2
    <3> QED BY <3>1, <3>2
  <2> HIDE DEF P
  <2>2. \A s \in SUBSET D : s \in P
    BY <2>1, SubsetInduction
  <2> QED BY <2>2 DEF P
<1> QED BY <1>8, <1>9, <1>10

\* Any element can be taken out first.
TakesOut(D, f) == \A s \in SUBSET D : \A x \in s : Sums(f)[s] = f[x] + Sums(f)[s \ {x}]

LEMMA SumsTakeOut ==
  ASSUME NEW D, IsFiniteSet(D), NEW f \in [D -> Int]
  PROVE  TakesOut(D, f)
<1> DEFINE P == {s \in SUBSET D : \A x \in s : Sums(f)[s] = f[x] + Sums(f)[s \ {x}]}
<1>1. ASSUME NEW s \in SUBSET D, \A x \in s : s \ {x} \in P PROVE s \in P
  <2> SUFFICES ASSUME NEW x \in s PROVE Sums(f)[s] = f[x] + Sums(f)[s \ {x}]
    OBVIOUS
  <2> DEFINE y == AnElement(s)
  <2>1. y \in s
    BY AnElementIn
  <2>2. Sums(f)[s] = f[y] + Sums(f)[s \ {y}]
    BY ZenonT(30), SumsOK DEF SumBody
  <2>3. CASE x = y
    BY <2>2, <2>3
  <2>4. CASE x # y
    <3>1. Sums(f)[s \ {y}] = f[x] + Sums(f)[(s \ {y}) \ {x}]
      BY <1>1, <2>1, <2>4
    <3>2. Sums(f)[s \ {x}] = f[y] + Sums(f)[(s \ {x}) \ {y}]
      BY <1>1, <2>1, <2>4
    <3>3. (s \ {y}) \ {x} = (s \ {x}) \ {y} /\ (s \ {y}) \ {x} \in SUBSET D
      OBVIOUS
    <3>4. f[x] \in Int /\ f[y] \in Int /\ Sums(f)[(s \ {y}) \ {x}] \in Int
      <4>1. Sums(f) \in [SUBSET D -> Int]
        BY SumsOK
      <4>2. x \in D /\ y \in D
        BY <2>1
      <4> QED BY <3>3, <4>1, <4>2
    <3> DEFINE a == Sums(f)[s]
               b == Sums(f)[s \ {x}]
               c == Sums(f)[(s \ {y}) \ {x}]
               d == Sums(f)[s \ {y}]
    <3>5. a = f[y] + d /\ d = f[x] + c /\ b = f[y] + c /\ c \in Int
      BY <2>2, <3>1, <3>2, <3>3, <3>4
    <3> HIDE DEF a, b, c, d, y
    <3>6. a = f[x] + b
      BY <3>4, <3>5
    <3> QED BY <3>6 DEF a, b
  <2> QED BY <2>3, <2>4
<1> HIDE DEF P
<1>2. \A s \in SUBSET D : s \in P
  BY <1>1, SubsetInduction
<1> QED BY <1>2 DEF P, TakesOut

\* Sums only depend on the values they add up.
LEMMA SumsAgree ==
  ASSUME NEW D, IsFiniteSet(D), NEW f \in [D -> Int],
         NEW B, IsFiniteSet(B), NEW g \in [B -> Int],
         B \subseteq D, \A x \in B : f[x] = g[x]
  PROVE  \A s \in SUBSET B : Sums(f)[s] = Sums(g)[s]
<1> DEFINE P == {s \in SUBSET B : Sums(f)[s] = Sums(g)[s]}
<1>1. ASSUME NEW s \in SUBSET B, \A x \in s : s \ {x} \in P PROVE s \in P
  <2>1. CASE s = {}
    <3>1. Sums(f)[s] = 0 /\ Sums(g)[s] = 0
      BY <2>1, SumsOK DEF SumBody
    <3> QED BY <3>1
  <2>2. CASE s # {}
    <3>1. PICK x \in s : TRUE
      BY <2>2
    <3>2. Sums(f)[s] = f[x] + Sums(f)[s \ {x}]
      <4>1. s \in SUBSET D
        OBVIOUS
      <4>2. TakesOut(D, f)
        BY SumsTakeOut
      <4> QED BY <4>1, <4>2 DEF TakesOut
    <3>3. Sums(g)[s] = g[x] + Sums(g)[s \ {x}]
      <4>1. TakesOut(B, g)
        BY SumsTakeOut
      <4> QED BY <4>1 DEF TakesOut
    <3>4. Sums(f)[s \ {x}] = Sums(g)[s \ {x}] /\ f[x] = g[x]
      BY <1>1
    <3> QED BY <3>2, <3>3, <3>4
  <2> QED BY <2>1, <2>2
<1> HIDE DEF P
<1>2. \A s \in SUBSET B : s \in P
  BY <1>1, SubsetInduction
<1> QED BY <1>2 DEF P

LEMMA SeqDomain ==
  ASSUME NEW v \in Seq(Int)
  PROVE  /\ IsFiniteSet(DOMAIN v) /\ DOMAIN v = 1..Len(v) /\ v \in [DOMAIN v -> Int]
         /\ Len(v) \in Nat
<1>1. DOMAIN v = 1..Len(v) /\ v \in [DOMAIN v -> Int] /\ Len(v) \in Nat
  OBVIOUS
<1>2. IsFiniteSet(1..Len(v))
  <2>1. 1 \in Int /\ Len(v) \in Int
    BY <1>1
  <2> QED BY <2>1, FS_Interval, Zenon
<1> QED BY <1>1, <1>2

LEMMA SumEmpty == SumFunction(<< >>) = 0
<1>1. << >> \in Seq(Int) /\ DOMAIN << >> = {}
  OBVIOUS
<1>2. IsFiniteSet({}) /\ << >> \in [{} -> Int]
  BY <1>1, SeqDomain, FS_EmptySet
<1>3. Sums(<< >>)[{}] = SumBody(<< >>, Sums(<< >>), {})
  BY <1>2, SumsOK
<1> QED BY <1>1, <1>3, SumUnfold DEF SumBody

LEMMA SumInt == ASSUME NEW v \in Seq(Int) PROVE SumFunction(v) \in Int
<1>1. Sums(v) \in [SUBSET DOMAIN v -> Int]
  BY SeqDomain, SumsOK
<1> QED BY <1>1, SumUnfold

LEMMA SumAppend ==
  ASSUME NEW v \in Seq(Int), NEW x \in Int
  PROVE  SumFunction(Append(v, x)) = SumFunction(v) + x
<1> DEFINE w == Append(v, x)
           n == Len(v) + 1
<1>1. w \in Seq(Int) /\ DOMAIN w = (DOMAIN v) \cup {n} /\ n \notin DOMAIN v /\ w[n] = x
      /\ \A i \in DOMAIN v : w[i] = v[i]
  BY SeqDomain
<1>2. /\ IsFiniteSet(DOMAIN v) /\ v \in [DOMAIN v -> Int]
      /\ IsFiniteSet(DOMAIN w) /\ w \in [DOMAIN w -> Int]
  BY <1>1, SeqDomain
<1> HIDE DEF w, n
<1>3. Sums(w)[DOMAIN w] = w[n] + Sums(w)[DOMAIN w \ {n}]
  <2>1. TakesOut(DOMAIN w, w)
    BY <1>2, SumsTakeOut
  <2> QED BY <1>1, <2>1 DEF TakesOut
<1>4. DOMAIN w \ {n} = DOMAIN v
  BY <1>1
<1>5. Sums(w)[DOMAIN v] = Sums(v)[DOMAIN v]
  BY <1>1, <1>2, SumsAgree
<1>6. SumFunction(w) = x + SumFunction(v)
  BY <1>1, <1>3, <1>4, <1>5, SumUnfold
<1> QED BY <1>6, SumInt DEF w

LEMMA SumConcat ==
  ASSUME NEW v \in Seq(Int), NEW w \in Seq(Int)
  PROVE  SumFunction(v \o w) = SumFunction(v) + SumFunction(w)
<1> DEFINE K == {n \in Nat : \A u \in Seq(Int) :
                   Len(u) = n => SumFunction(v \o u) = SumFunction(v) + SumFunction(u)}
<1>1. 0 \in K
  <2> SUFFICES ASSUME NEW u \in Seq(Int), Len(u) = 0
               PROVE  SumFunction(v \o u) = SumFunction(v) + SumFunction(u)
    OBVIOUS
  <2>1. u = << >> /\ v \o u = v
    OBVIOUS
  <2> QED BY <2>1, SumEmpty, SumInt
<1>2. ASSUME NEW n \in K PROVE n + 1 \in K
  <2> SUFFICES ASSUME NEW u \in Seq(Int), Len(u) = n + 1
               PROVE  SumFunction(v \o u) = SumFunction(v) + SumFunction(u)
    OBVIOUS
  <2>1. PICK t \in Seq(Int), x \in Int : u = Append(t, x) /\ Len(t) = n
    <3> DEFINE t == SubSeq(u, 1, n)
    <3>1. t \in Seq(Int) /\ u[n + 1] \in Int /\ u = Append(t, u[n + 1]) /\ Len(t) = n
      OBVIOUS
    <3> QED BY <3>1
  <2>2. v \o u = Append(v \o t, x) /\ v \o t \in Seq(Int)
    BY <2>1
  <2>3. SumFunction(v \o t) = SumFunction(v) + SumFunction(t)
    BY <1>2, <2>1
  <2>4. SumFunction(v \o u) = SumFunction(v \o t) + x
    BY <2>2, SumAppend
  <2>5. SumFunction(u) = SumFunction(t) + x
    BY <2>1, SumAppend
  <2> QED BY <2>1, <2>3, <2>4, <2>5, SumInt
<1>3. K = Nat
  <2>1. K \in SUBSET Nat
    OBVIOUS
  <2> HIDE DEF K
  <2> QED BY <1>1, <1>2, <2>1, NatSetInduction
<1>4. Len(w) \in K
  BY <1>3
<1> QED BY <1>4

LEMMA SumTail ==
  ASSUME NEW v \in Seq(Int), v # << >>
  PROVE  SumFunction(v) = Head(v) + SumFunction(Tail(v))
<1>1. << Head(v) >> \in Seq(Int) /\ Tail(v) \in Seq(Int) /\ v = << Head(v) >> \o Tail(v)
      /\ Head(v) \in Int /\ << Head(v) >> = Append(<< >>, Head(v)) /\ << >> \in Seq(Int)
  OBVIOUS
<1>2. SumFunction(<< Head(v) >>) = 0 + Head(v)
  BY <1>1, SumAppend, SumEmpty
<1>3. SumFunction(v) = SumFunction(<< Head(v) >>) + SumFunction(Tail(v))
  BY <1>1, SumConcat
<1> QED BY <1>1, <1>2, <1>3, SumInt

-----------------------------------------------------------------------------
(* Totals.  The bytes or chunks that the messages of a stream stand for.    *)

Total(f, q) == SumFunction(Image(f, q))

LEMMA SumNat == ASSUME NEW v \in Seq(Nat) PROVE SumFunction(v) \in Nat
<1> DEFINE K == {n \in Nat : \A u \in Seq(Nat) : Len(u) = n => SumFunction(u) \in Nat}
<1>1. 0 \in K
  <2> SUFFICES ASSUME NEW u \in Seq(Nat), Len(u) = 0 PROVE SumFunction(u) \in Nat
    OBVIOUS
  <2>1. u = << >>
    OBVIOUS
  <2> QED BY <2>1, SumEmpty
<1>2. ASSUME NEW n \in K PROVE n + 1 \in K
  <2> SUFFICES ASSUME NEW u \in Seq(Nat), Len(u) = n + 1 PROVE SumFunction(u) \in Nat
    OBVIOUS
  <2>1. PICK t \in Seq(Nat), x \in Nat : u = Append(t, x) /\ Len(t) = n
    <3> DEFINE t == SubSeq(u, 1, n)
    <3>1. t \in Seq(Nat) /\ u[n + 1] \in Nat /\ u = Append(t, u[n + 1]) /\ Len(t) = n
      OBVIOUS
    <3> QED BY <3>1
  <2>2. t \in Seq(Int) /\ x \in Int
    BY <2>1
  <2>3. SumFunction(t) \in Nat
    BY <1>2, <2>1
  <2>4. SumFunction(u) = SumFunction(t) + x
    BY <2>1, <2>2, SumAppend
  <2> QED BY <2>1, <2>3, <2>4
<1>3. K = Nat
  <2>1. K \in SUBSET Nat
    OBVIOUS
  <2> HIDE DEF K
  <2> QED BY <1>1, <1>2, <2>1, NatSetInduction
<1>4. Len(v) \in K
  BY <1>3
<1> QED BY <1>4

LEMMA TotalOps ==
  ASSUME NEW M, NEW f \in [M -> Nat], NEW q \in Seq(M)
  PROVE  /\ Total(f, q) \in Nat
         /\ Total(f, << >>) = 0
         /\ \A m \in M : Total(f, Append(q, m)) = Total(f, q) + f[m]
         /\ q # << >> => Total(f, q) = f[Head(q)] + Total(f, Tail(q))
<1>1. Image(f, q) \in Seq(Nat) /\ Image(f, q) \in Seq(Int)
  <2>1. Len(q) \in Nat /\ \A i \in 1..Len(q) : f[q[i]] \in Nat
    OBVIOUS
  <2> QED BY <2>1 DEF Image
<1>2. Total(f, q) \in Nat
  BY <1>1, SumNat DEF Total
<1>3. Total(f, << >>) = 0
  <2>1. Image(f, << >>) = << >>
    BY DEF Image
  <2> QED BY <2>1, SumEmpty DEF Total
<1>4. ASSUME NEW m \in M PROVE Total(f, Append(q, m)) = Total(f, q) + f[m]
  <2>1. Image(f, Append(q, m)) = Append(Image(f, q), f[m])
    BY ImageOps
  <2>2. f[m] \in Int
    OBVIOUS
  <2> QED BY <1>1, <2>1, <2>2, SumAppend DEF Total
<1>5. ASSUME q # << >> PROVE Total(f, q) = f[Head(q)] + Total(f, Tail(q))
  <2>1. /\ Image(f, q) # << >> /\ Head(Image(f, q)) = f[Head(q)]
        /\ Tail(Image(f, q)) = Image(f, Tail(q))
    BY <1>5, ImageOps
  <2> QED BY <1>1, <2>1, SumTail DEF Total
<1> QED BY <1>2, <1>3, <1>4, <1>5

\* Two streams in a row.
LEMMA TotalConcat ==
  ASSUME NEW M, NEW f \in [M -> Nat], NEW q \in Seq(M), NEW r \in Seq(M)
  PROVE  Total(f, q \o r) = Total(f, q) + Total(f, r)
<1>1. /\ Image(f, q) \in Seq(Int) /\ Image(f, r) \in Seq(Int)
  <2>1. /\ Len(q) \in Nat /\ \A i \in 1..Len(q) : f[q[i]] \in Int
        /\ Len(r) \in Nat /\ \A i \in 1..Len(r) : f[r[i]] \in Int
    OBVIOUS
  <2> QED BY <2>1 DEF Image
<1>2. Image(f, q \o r) = Image(f, q) \o Image(f, r)
  BY DEF Image
<1> QED BY <1>1, <1>2, SumConcat DEF Total

-----------------------------------------------------------------------------
(* What TsifRxCredit counts, in totals.                                     *)

ChunksOf == [req \in DReq |-> Chunks(req.datLen)]
NotifOf(s) == [m \in Notif |-> IF m.sessId = s THEN m.tcpDatLen ELSE 0]
AskedOf(s) == [m \in DReq |-> IF m.sessId = s THEN m.datLen ELSE 0]
Held(s) == IF rrh_fsmState # "RRH_IDLE" /\ rrh_notif.sessId = s THEN rrh_notif.tcpDatLen ELSE 0
Asking(s) == IF rrh_fsmState = "RRH_SEND_DREQ" /\ rrh_notif.sessId = s THEN rrh_datLenReq ELSE 0

LEMMA ClaimedTotals ==
  ASSUME TypeOK, NEW s \in SessIds
  PROVE  Claimed(s) = Total(NotifOf(s), siSHL_Notif \o ssRNhToRRh_Notif)
                      + Total(AskedOf(s), ssRRhToRRm_DReq \o soSHL_DReq)
                      + Held(s) + Asking(s)
<1> DEFINE q == siSHL_Notif \o ssRNhToRRh_Notif
           r == ssRRhToRRm_DReq \o soSHL_DReq
<1>1. q \in Seq(Notif) /\ r \in Seq(DReq)
  BY DEF TypeOK, ShlTypeOK, ReqTypeOK
<1>2. Claimed(s) = SumFunction([i \in DOMAIN q |-> IF q[i].sessId = s THEN q[i].tcpDatLen ELSE 0])
                   + SumFunction([i \in DOMAIN r |-> IF r[i].sessId = s THEN r[i].datLen ELSE 0])
                   + Held(s) + Asking(s)
  BY DEF Claimed, BytesOf, SumOver, Held, Asking
<1>3. [i \in DOMAIN q |-> IF q[i].sessId = s THEN q[i].tcpDatLen ELSE 0] = Image(NotifOf(s), q)
  <2>1. ASSUME NEW i \in 1..Len(q) PROVE NotifOf(s)[q[i]] = IF q[i].sessId = s THEN q[i].tcpDatLen ELSE 0
    BY <1>1 DEF NotifOf
  <2> HIDE DEF q
  <2>2. DOMAIN q = 1..Len(q)
    BY <1>1
  <2> QED BY <2>1, <2>2 DEF Image
<1>4. [i \in DOMAIN r |-> IF r[i].sessId = s THEN r[i].datLen ELSE 0] = Image(AskedOf(s), r)
  <2>1. ASSUME NEW i \in 1..Len(r) PROVE AskedOf(s)[r[i]] = IF r[i].sessId = s THEN r[i].datLen ELSE 0
    BY <1>1 DEF AskedOf
  <2> HIDE DEF r
  <2>2. DOMAIN r = 1..Len(r)
    BY <1>1
  <2> QED BY <2>1, <2>2 DEF Image
<1> QED BY <1>2, <1>3, <1>4 DEF Total

LEMMA RequestedTotals ==
  ASSUME NEW q \in Seq(DReq)
  PROVE  ChunksRequested(q) = Total(ChunksOf, q)
<1>1. [i \in DOMAIN q |-> Chunks(q[i].datLen)] = Image(ChunksOf, q)
  BY DEF Image, ChunksOf
<1>2. ChunksRequested(q) = SumFunction([i \in DOMAIN q |-> Chunks(q[i].datLen)])
  BY DEF ChunksRequested, SumOver
<1> QED BY <1>1, <1>2 DEF Total

-----------------------------------------------------------------------------
(* CreditKept.  The chunks that a request stands for are reserved in RRh,   *)
(* under way to the TOE, or in the stream of chunks; RDp turns each into a  *)
(* signal and RRh the signal into free space.                               *)

Reserved == IF rrh_fsmState = "RRH_SEND_DREQ" THEN Chunks(rrh_datLenReq) ELSE 0
Asked == Total(ChunksOf, ssRRhToRRm_DReq) + Total(ChunksOf, soSHL_DReq)
Stored == Len(siSHL_Data) + Len(ssIRbToRDp_Data)

LEMMA ChunksOK == \A n \in Nat : Chunks(n) \in Nat
  BY DEF Chunks, ARW_BYTES

LEMMA ChunksOfOK == ChunksOf \in [DReq -> Nat]
  BY ChunksOK DEF ChunksOf, DReq

LEMMA CreditParts ==
  ASSUME TypeOK
  PROVE  /\ Committed = Reserved + Asked + Stored
         /\ Reserved \in Nat /\ Asked \in Nat /\ Stored \in Nat
         /\ ssRDpToRRh_Dequeue \in Nat /\ rrh_freeSpace \in Nat
<1>1. /\ ssRRhToRRm_DReq \in Seq(DReq) /\ soSHL_DReq \in Seq(DReq)
      /\ siSHL_Data \in Seq(Chunk) /\ ssIRbToRDp_Data \in Seq(Chunk)
      /\ rrh_datLenReq \in Nat /\ ssRDpToRRh_Dequeue \in Nat /\ rrh_freeSpace \in Nat
  BY FreeSpaceModOK, DepthAssumption
     DEF TypeOK, ReqTypeOK, ShlTypeOK, IrbTypeOK, RrhTypeOK, FreeSpaceOK
<1>2. /\ Total(ChunksOf, ssRRhToRRm_DReq) \in Nat /\ Total(ChunksOf, soSHL_DReq) \in Nat
      /\ ChunksRequested(ssRRhToRRm_DReq) = Total(ChunksOf, ssRRhToRRm_DReq)
      /\ ChunksRequested(soSHL_DReq) = Total(ChunksOf, soSHL_DReq)
  BY <1>1, ChunksOfOK, TotalOps, RequestedTotals
<1>3. Reserved \in Nat /\ Len(siSHL_Data) \in Nat /\ Len(ssIRbToRDp_Data) \in Nat
  <2>1. Chunks(rrh_datLenReq) \in Nat
    BY <1>1, ChunksOK
  <2>2. Reserved \in Nat
    BY <2>1 DEF Reserved
  <2> QED BY <1>1, <2>2
<1> QED BY SMTT(30), <1>1, <1>2, <1>3 DEF Committed, Reserved, Asked, Stored

LEMMA CreditPartsNext ==
  ASSUME TypeOK'
  PROVE  /\ Committed' = Reserved' + Asked' + Stored'
         /\ Reserved' \in Nat /\ Asked' \in Nat /\ Stored' \in Nat
         /\ ssRDpToRRh_Dequeue' \in Nat /\ rrh_freeSpace' \in Nat
<1>1. /\ ssRRhToRRm_DReq' \in Seq(DReq) /\ soSHL_DReq' \in Seq(DReq)
      /\ siSHL_Data' \in Seq(Chunk) /\ ssIRbToRDp_Data' \in Seq(Chunk)
      /\ rrh_datLenReq' \in Nat /\ ssRDpToRRh_Dequeue' \in Nat /\ rrh_freeSpace' \in Nat
  BY FreeSpaceModOK, DepthAssumption
     DEF TypeOK, ReqTypeOK, ShlTypeOK, IrbTypeOK, RrhTypeOK, FreeSpaceOK
<1>2. /\ Total(ChunksOf, ssRRhToRRm_DReq') \in Nat /\ Total(ChunksOf, soSHL_DReq') \in Nat
      /\ ChunksRequested(ssRRhToRRm_DReq') = Total(ChunksOf, ssRRhToRRm_DReq')
      /\ ChunksRequested(soSHL_DReq') = Total(ChunksOf, soSHL_DReq')
  BY <1>1, ChunksOfOK, TotalOps, RequestedTotals
<1>3. Reserved' \in Nat /\ Len(siSHL_Data') \in Nat /\ Len(ssIRbToRDp_Data') \in Nat
  <2>1. Chunks(rrh_datLenReq') \in Nat
    BY <1>1, ChunksOK
  <2>2. Reserved' \in Nat
    BY <2>1 DEF Reserved
  <2> QED BY <1>1, <2>2
<1> QED BY SMTT(30), <1>1, <1>2, <1>3 DEF Committed, Reserved, Asked, Stored

\* A signal finds the count at the top of its register.
CountAtTop == ssRDpToRRh_Dequeue > 0 /\ rrh_freeSpace + ARW_BYTES >= FreeSpaceMod

\* 'after' is 'before', less the modulus of the register when the count passes its top.
SameBut(after, before) ==
  \/ after = before
  \/ CountAtTop /\ after = before - FreeSpaceMod

\* The balance in the parts that the steps change, and when a step keeps it.
LEMMA CreditGoal ==
  ASSUME TypeOK, TypeOK'
  PROVE  /\ Balance = rrh_freeSpace + ARW_BYTES * (Reserved + Asked + Stored + ssRDpToRRh_Dequeue)
         /\ Balance' = rrh_freeSpace'
                         + ARW_BYTES * (Reserved' + Asked' + Stored' + ssRDpToRRh_Dequeue')
         /\ Balance \in Nat /\ Balance' \in Nat /\ Forgotten \in Nat
<1>1. Balance = rrh_freeSpace + ARW_BYTES * (Reserved + Asked + Stored + ssRDpToRRh_Dequeue)
  BY CreditParts DEF Balance
<1>2. Balance' = rrh_freeSpace' + ARW_BYTES * (Reserved' + Asked' + Stored' + ssRDpToRRh_Dequeue')
  BY CreditPartsNext DEF Balance, ARW_BYTES
<1>3. Balance \in Nat /\ Balance' \in Nat
  BY <1>1, <1>2, CreditParts, CreditPartsNext DEF ARW_BYTES
<1>4. Forgotten \in Nat
  BY CreditParts DEF Forgotten
<1> QED BY <1>1, <1>2, <1>3, <1>4

\* A step that leaves RRh's state alone is not the one that forgets.
LEMMA NothingForgotten ==
  ASSUME rrh_fsmState' = rrh_fsmState
  PROVE  Forgotten = 0
BY DEF Forgotten, ForgetsRequest, RRhRequestPart

\* RRh counts a signal as a chunk.
LEMMA HandleDequeueKept ==
  ASSUME TypeOK, NEW space \in Nat, space <= rrh_freeSpace, NEW c \in Nat, HandleDequeue(space)
  PROVE  SameBut(rrh_freeSpace' + ARW_BYTES * (c + ssRDpToRRh_Dequeue'),
                 space + ARW_BYTES * (c + ssRDpToRRh_Dequeue))
<1>1. ssRDpToRRh_Dequeue \in Nat /\ rrh_freeSpace \in Nat /\ FreeSpaceMod \in Nat
  BY CreditParts, DepthAssumption DEF FreeSpaceMod, cIBuffBytes, ARW_BYTES
<1>2. CASE ssRDpToRRh_Dequeue = 0
  BY <1>2 DEF HandleDequeue, SameBut
<1>3. CASE ssRDpToRRh_Dequeue > 0
  <2>1. ssRDpToRRh_Dequeue' = ssRDpToRRh_Dequeue - 1 /\ rrh_freeSpace' = WrapAdd(space, ARW_BYTES)
    BY <1>3 DEF HandleDequeue
  <2>2. CASE space + ARW_BYTES < FreeSpaceMod
    <3>1. rrh_freeSpace' = space + ARW_BYTES
      BY <1>1, <2>1, <2>2 DEF WrapAdd, ARW_BYTES
    <3> QED BY <1>1, <2>1, <3>1 DEF ARW_BYTES, SameBut
  <2>3. CASE space + ARW_BYTES >= FreeSpaceMod
    <3>1. rrh_freeSpace' = space + ARW_BYTES - FreeSpaceMod
      BY <1>1, <2>1, <2>3 DEF WrapAdd, ARW_BYTES
    <3>2. CountAtTop
      BY <1>1, <1>3, <2>3 DEF CountAtTop, ARW_BYTES
    <3> QED BY <1>1, <2>1, <3>1, <3>2 DEF ARW_BYTES, SameBut
  <2> QED BY <1>1, <2>2, <2>3 DEF ARW_BYTES
<1> QED BY <1>1, <1>2, <1>3

\* The bytes of the chunks that carry n bytes.
Rounded(n) == (n - (n % ARW_BYTES)) + (IF n % ARW_BYTES = 0 THEN 0 ELSE ARW_BYTES)

LEMMA ChunkBytes ==
  ASSUME NEW n \in Nat
  PROVE  Chunks(n) \in Nat /\ 8 * Chunks(n) = Rounded(n)
<1> DEFINE q == n \div 8
           r == n % ARW_BYTES
<1>1. q \in Nat /\ r \in 0..7 /\ n = 8 * q + r
  BY DEF ARW_BYTES
<1>2. Chunks(n) = (n + 7) \div 8
  BY DEF Chunks, ARW_BYTES
<1>5. Rounded(n) = (n - r) + (IF r = 0 THEN 0 ELSE ARW_BYTES)
  BY Zenon DEF Rounded
<1> HIDE DEF q, r
<1>3. (8 * q + r + 7) \div 8 = IF r = 0 THEN q ELSE q + 1
  <2>1. CASE r = 0
    BY <1>1, <2>1
  <2>2. CASE r # 0
    BY <1>1, <2>2
  <2> QED BY <2>1, <2>2
<1>4. Chunks(n) = IF r = 0 THEN q ELSE q + 1
  BY <1>1, <1>2, <1>3
<1> QED BY <1>1, <1>4, <1>5 DEF ARW_BYTES

LEMMA CreditRRh ==
  ASSUME TypeOK, TypeOK', RRh
  PROVE  SameBut(Balance', Balance + Forgotten)
<1> DEFINE sum == rrh_freeSpace + ARW_BYTES * (Reserved + Asked + Stored + ssRDpToRRh_Dequeue)
           goal == SameBut(rrh_freeSpace' + ARW_BYTES * (Reserved' + Asked' + Stored'
                                                          + ssRDpToRRh_Dequeue'), sum)
<1>0. /\ Reserved \in Nat /\ Asked \in Nat /\ Stored \in Nat /\ ssRDpToRRh_Dequeue \in Nat
      /\ rrh_freeSpace \in Nat /\ rrh_freeSpace % 8 = 0 /\ cIBuffBytes \in Nat
      /\ rrh_datLenReq \in Nat /\ rrh_notif.tcpDatLen \in Nat
  BY CreditParts, DepthAssumption
     DEF TypeOK, FreeSpaceOK, RrhTypeOK, Notif, cIBuffBytes, ARW_BYTES
<1>1. ASSUME goal, ~ForgetsRequest
      PROVE  SameBut(Balance', Balance + Forgotten)
  <2>1. Forgotten = 0 /\ Balance = sum /\ sum \in Nat
    BY <1>1, CreditGoal DEF Forgotten
  <2> QED BY <1>1, <2>1, CreditGoal
<1>2. CASE RRhIdle \/ RRhWaitSpace
  <2>1. /\ Reserved = 0 /\ Reserved' = 0 /\ Asked' = Asked /\ Stored' = Stored
        /\ HandleDequeue(rrh_freeSpace)
    BY <1>2 DEF RRhIdle, RRhWaitSpace, RRhUnchanged, Reserved, Asked, Stored, reqVars, shlVars, irbVars
  <2>2. ~ForgetsRequest
    BY <1>0, <1>2, DepthAssumption DEF RRhIdle, RRhWaitSpace, ForgetsRequest, RRhRequestPart
  <2>3. goal
    <3> DEFINE c == Asked + Stored
    <3>1. c \in Nat
      BY <1>0
    <3>2. SameBut(rrh_freeSpace' + ARW_BYTES * (c + ssRDpToRRh_Dequeue'),
                  rrh_freeSpace + ARW_BYTES * (c + ssRDpToRRh_Dequeue))
      BY <1>0, <2>1, <3>1, HandleDequeueKept
    <3>3. /\ Reserved + Asked + Stored + ssRDpToRRh_Dequeue = c + ssRDpToRRh_Dequeue
          /\ Reserved' + Asked' + Stored' + ssRDpToRRh_Dequeue' = c + ssRDpToRRh_Dequeue'
      BY <1>0, <2>1, CreditPartsNext
    <3> QED BY <3>2, <3>3
  <2> QED BY <1>1, <2>2, <2>3
<1>3. CASE RRhRequestPart
  <2> DEFINE n == rrh_freeSpace
             k == Chunks(n)
             d == ssRDpToRRh_Dequeue
             m == FreeSpaceMod
  <2>1. /\ Reserved = 0 /\ Reserved' = k /\ Asked' = Asked /\ Stored' = Stored
    BY <1>3 DEF RRhRequestPart, RRhUnchanged, Reserved, Asked, Stored, reqVars, shlVars, irbVars
  <2>2. n \in Nat /\ k \in Nat /\ 8 * k = n /\ d \in Nat /\ m \in Nat
    <3>1. m \in Nat
      BY <1>0 DEF FreeSpaceMod
    <3>2. 8 * k = n /\ k \in Nat
      BY <1>0 DEF Chunks, ARW_BYTES
    <3> QED BY <1>0, <3>1, <3>2
  <2>3. /\ Balance = n + 8 * (Asked + Stored + d)
        /\ Balance' = rrh_freeSpace' + 8 * (k + Asked + Stored + ssRDpToRRh_Dequeue')
    BY <1>0, <2>1, CreditGoal DEF ARW_BYTES
  <2>4. CASE d = 0
    <3>1. rrh_freeSpace' = 0 /\ ssRDpToRRh_Dequeue' = 0 /\ ~ForgetsRequest
      BY <1>0, <1>3, <2>4 DEF RRhRequestPart, ForgetsRequest
    <3>2. Forgotten = 0
      BY <3>1 DEF Forgotten
    <3> HIDE DEF n, k, d, m
    <3>3. Balance' = Balance + Forgotten
      BY <1>0, <2>2, <2>3, <2>4, <3>1, <3>2
    <3> QED BY <3>3 DEF SameBut
  <2>5. CASE d > 0
    <3>1. /\ rrh_freeSpace' = WrapAdd(n, ARW_BYTES) /\ ssRDpToRRh_Dequeue' = d - 1
          /\ Forgotten = n
      BY <1>0, <1>3, <2>5 DEF RRhRequestPart, ForgetsRequest, Forgotten
    <3>2. CASE n + 8 < m
      <4>1. rrh_freeSpace' = n + 8
        BY <2>2, <3>1, <3>2 DEF WrapAdd, ARW_BYTES
      <4> HIDE DEF n, k, d, m
      <4>2. Balance' = Balance + Forgotten
        BY <1>0, <2>2, <2>3, <2>5, <3>1, <4>1
      <4> QED BY <4>2 DEF SameBut
    <3>3. CASE n + 8 >= m
      <4>1. rrh_freeSpace' = n + 8 - m
        BY <2>2, <3>1, <3>3 DEF WrapAdd, ARW_BYTES
      <4>2. CountAtTop
        BY <2>2, <2>5, <3>3 DEF CountAtTop, ARW_BYTES
      <4> HIDE DEF n, k, d
      <4>3. Balance' = (Balance + Forgotten) - m
        BY <1>0, <2>2, <2>3, <2>5, <3>1, <4>1
      <4> QED BY <4>2, <4>3 DEF SameBut
    <3> QED BY <2>2, <3>2, <3>3
  <2> QED BY <2>2, <2>4, <2>5
<1>4. CASE RRhRequestAll
  <2> DEFINE n == rrh_notif.tcpDatLen
             rest == n % ARW_BYTES
             space == rrh_freeSpace - (n - rest)
             left == IF rest = 0 THEN space ELSE space - ARW_BYTES
  <2>1. /\ Reserved = 0 /\ Reserved' = Chunks(n) /\ Asked' = Asked /\ Stored' = Stored
        /\ rrh_freeSpace >= n
    BY <1>4 DEF RRhRequestAll, RRhUnchanged, Reserved, Asked, Stored, reqVars, shlVars, irbVars
  <2>2. left \in Nat /\ left + 8 * Chunks(n) = rrh_freeSpace /\ Chunks(n) \in Nat
    <3>1. n \in Nat /\ rest \in 0..7 /\ Chunks(n) \in Nat
          /\ 8 * Chunks(n) = (n - rest) + (IF rest = 0 THEN 0 ELSE 8)
      <4>1. n \in Nat /\ Chunks(n) \in Nat /\ 8 * Chunks(n) = Rounded(n)
        BY <1>0, ChunkBytes
      <4>2. Rounded(n) = (n - rest) + (IF rest = 0 THEN 0 ELSE ARW_BYTES)
        BY Zenon DEF Rounded
      <4>3. rest \in 0..7
        BY <4>1 DEF ARW_BYTES
      <4> HIDE DEF n, rest
      <4> QED BY <4>1, <4>2, <4>3 DEF ARW_BYTES
    <3>2. n - rest <= rrh_freeSpace /\ (rest # 0 => n - rest + 8 <= rrh_freeSpace)
      BY <1>0, <2>1 DEF ARW_BYTES
    <3> HIDE DEF n, rest
    <3> QED BY <1>0, <3>1, <3>2 DEF ARW_BYTES
  <2>3. \/ rest = 0 /\ rrh_freeSpace' = left /\ ssRDpToRRh_Dequeue' = ssRDpToRRh_Dequeue
        \/ rest # 0 /\ HandleDequeue(left)
    BY <1>4 DEF RRhRequestAll
  <2> HIDE DEF n, rest, space, left
  <2>4. goal
    <3> DEFINE c == Chunks(n) + Asked + Stored
               k == Chunks(n)
    <3>1. c \in Nat /\ left <= rrh_freeSpace /\ k \in Nat /\ left + 8 * k = rrh_freeSpace
      BY <1>0, <2>2
    <3>2. SameBut(rrh_freeSpace' + ARW_BYTES * (c + ssRDpToRRh_Dequeue'),
                  left + ARW_BYTES * (c + ssRDpToRRh_Dequeue))
      <4> HIDE DEF c
      <4>1. CASE rest = 0
        BY <2>3, <4>1 DEF SameBut, HandleDequeue
      <4>2. CASE rest # 0
        BY <2>2, <2>3, <3>1, <4>2, HandleDequeueKept
      <4> QED BY <4>1, <4>2
    <3>3. left + ARW_BYTES * (c + ssRDpToRRh_Dequeue)
            = rrh_freeSpace + ARW_BYTES * (Reserved + Asked + Stored + ssRDpToRRh_Dequeue)
      <4> HIDE DEF k
      <4>1. c = k + Asked + Stored
        BY DEF k
      <4> HIDE DEF c
      <4> QED BY <1>0, <2>1, <2>2, <3>1, <4>1 DEF ARW_BYTES
    <3>4. Reserved' + Asked' + Stored' + ssRDpToRRh_Dequeue' = c + ssRDpToRRh_Dequeue'
      BY <1>0, <2>1
    <3> QED BY <3>2, <3>3, <3>4
  <2>5. ~ForgetsRequest
    BY <1>0, <2>1 DEF ForgetsRequest, RRhRequestPart, n
  <2> QED BY <1>1, <2>4, <2>5
<1>5. CASE RRhSendDReq
  <2>1. /\ HandleDequeue(rrh_freeSpace) /\ Stored' = Stored
        /\ Reserved = Chunks(rrh_datLenReq) /\ rrh_datLenReq' = rrh_datLenReq
    BY <1>5 DEF RRhSendDReq, RRhUnchanged, Reserved, Stored, shlVars, irbVars
  <2>2. Reserved' + Asked' = Reserved + Asked
    <3>1. CASE UNCHANGED << reqVars, rrh_fsmState >>
      BY <1>5, <2>1, <3>1 DEF RRhSendDReq, RRhUnchanged, Reserved, Asked, reqVars, shlVars
    <3>2. CASE ~UNCHANGED << reqVars, rrh_fsmState >>
      <4> DEFINE req == [sessId |-> rrh_notif.sessId, datLen |-> rrh_datLenReq]
      <4>1. /\ ssRRhToRRm_DReq' = Append(ssRRhToRRm_DReq, req)
            /\ soSHL_DReq' = soSHL_DReq /\ rrh_fsmState' # "RRH_SEND_DREQ"
        BY <1>5, <3>2 DEF RRhSendDReq, RRhUnchanged, shlVars
      <4>2. req \in DReq /\ ChunksOf[req] = Chunks(rrh_datLenReq)
            /\ ssRRhToRRm_DReq \in Seq(DReq)
        BY DEF TypeOK, RrhTypeOK, ReqTypeOK, Notif, DReq, ChunksOf
      <4> HIDE DEF req
      <4>3. Total(ChunksOf, ssRRhToRRm_DReq') = Total(ChunksOf, ssRRhToRRm_DReq) + Reserved
        BY <2>1, <4>1, <4>2, ChunksOfOK, TotalOps
      <4>4. Total(ChunksOf, ssRRhToRRm_DReq) \in Nat /\ Total(ChunksOf, soSHL_DReq) \in Nat
        BY <4>2, ChunksOfOK, TotalOps DEF TypeOK, ShlTypeOK
      <4>5. Reserved' = 0
        BY <4>1 DEF Reserved
      <4>6. Asked' = Total(ChunksOf, ssRRhToRRm_DReq') + Total(ChunksOf, soSHL_DReq)
        BY <4>1 DEF Asked
      <4> QED BY <1>0, <4>3, <4>4, <4>5, <4>6 DEF Asked
    <3> QED BY <3>1, <3>2
  <2>3. goal
    <3> DEFINE c == Reserved + Asked + Stored
    <3>1. c \in Nat
      BY <1>0
    <3>2. SameBut(rrh_freeSpace' + ARW_BYTES * (c + ssRDpToRRh_Dequeue'),
                  rrh_freeSpace + ARW_BYTES * (c + ssRDpToRRh_Dequeue))
      BY <1>0, <2>1, <3>1, HandleDequeueKept
    <3>3. Reserved' + Asked' + Stored' = c
      BY <1>0, <2>1, <2>2, CreditPartsNext
    <3> QED BY <3>2, <3>3
  <2>4. ~ForgetsRequest
    BY <1>5 DEF RRhSendDReq, ForgetsRequest, RRhRequestPart
  <2> QED BY <1>1, <2>3, <2>4
<1> QED BY <1>2, <1>3, <1>4, <1>5 DEF RRh

\* A step that moves chunks and leaves RRh's state and count alone.
LEMMA CreditSame ==
  ASSUME TypeOK, TypeOK', rrh_fsmState' = rrh_fsmState, rrh_freeSpace' = rrh_freeSpace,
         Reserved' + Asked' + Stored' + ssRDpToRRh_Dequeue'
           = Reserved + Asked + Stored + ssRDpToRRh_Dequeue
  PROVE  SameBut(Balance', Balance + Forgotten)
<1>1. Balance' = Balance /\ Balance \in Nat
  BY CreditGoal
<1> QED BY <1>1, NothingForgotten DEF SameBut

\* The chunks of a request come as the chunks of its segment.
LEMMA CreditToeServe ==
  ASSUME TypeOK, TypeOK', ToeServe
  PROVE  SameBut(Balance', Balance + Forgotten)
<1> DEFINE req == Head(soSHL_DReq)
           seg == Segment(req.sessId, toeRd[req.sessId], req.datLen)
<1>1. /\ soSHL_DReq # << >> /\ soSHL_DReq' = Tail(soSHL_DReq) /\ req.datLen > 0
      /\ siSHL_Data' = siSHL_Data \o seg
      /\ UNCHANGED << ssRRhToRRm_DReq, ssIRbToRDp_Data, rrh_fsmState, rrh_datLenReq,
                      rrh_freeSpace, ssRDpToRRh_Dequeue >>
  BY DEF ToeServe, Dequeue, rrhVars, reqVars, irbVars
<1>2. /\ soSHL_DReq \in Seq(DReq) /\ ssRRhToRRm_DReq \in Seq(DReq)
      /\ siSHL_Data \in Seq(Chunk) /\ ssIRbToRDp_Data \in Seq(Chunk)
      /\ toeRd \in [SessIds -> Nat]
  BY DEF TypeOK, ShlTypeOK, ReqTypeOK, IrbTypeOK
<1>3. req \in DReq /\ req.sessId \in SessIds /\ req.datLen \in Nat /\ toeRd[req.sessId] \in Nat
  <2>1. req \in DReq
    BY <1>1, <1>2
  <2> QED BY <1>2, <2>1 DEF DReq
<1>4. seg \in Seq(Chunk) /\ Len(seg) = Chunks(req.datLen) /\ Chunks(req.datLen) \in Nat
  <2>1. seg \in Seq(Chunk)
    BY <1>1, <1>3, SegmentOK
  <2>2. Chunks(req.datLen) \in Nat
    BY <1>3, ChunksOK
  <2>3. Len(seg) = Chunks(req.datLen)
    BY <2>2 DEF Segment
  <2> QED BY <2>1, <2>2, <2>3
<1>5. ChunksOf[req] = Chunks(req.datLen)
  BY <1>3 DEF ChunksOf
<1> HIDE DEF req, seg
<1>6. Total(ChunksOf, soSHL_DReq) = Chunks(req.datLen) + Total(ChunksOf, soSHL_DReq')
  BY SMTT(30), <1>1, <1>2, <1>5, ChunksOfOK, TotalOps DEF req
<1>7. Len(siSHL_Data') = Len(siSHL_Data) + Chunks(req.datLen)
  BY <1>1, <1>2, <1>4
<1>8. /\ Total(ChunksOf, soSHL_DReq) \in Nat /\ Total(ChunksOf, soSHL_DReq') \in Nat
      /\ Total(ChunksOf, ssRRhToRRm_DReq) \in Nat
      /\ Len(siSHL_Data) \in Nat /\ Len(ssIRbToRDp_Data) \in Nat
  <2>1. soSHL_DReq' \in Seq(DReq)
    BY <1>1, <1>2
  <2>2. Total(ChunksOf, soSHL_DReq') \in Nat
    BY <2>1, ChunksOfOK, TotalOps
  <2>3. Total(ChunksOf, soSHL_DReq) \in Nat /\ Total(ChunksOf, ssRRhToRRm_DReq) \in Nat
    BY <1>2, ChunksOfOK, TotalOps
  <2> QED BY <1>2, <2>2, <2>3
<1>9. Asked' = Total(ChunksOf, ssRRhToRRm_DReq) + Total(ChunksOf, soSHL_DReq')
      /\ Stored' = Len(siSHL_Data') + Len(ssIRbToRDp_Data) /\ Reserved' = Reserved
  BY <1>1 DEF Asked, Stored, Reserved
<1>10. Asked' + Stored' = Asked + Stored
  <2> DEFINE a == Total(ChunksOf, soSHL_DReq)
             b == Total(ChunksOf, soSHL_DReq')
             c == Total(ChunksOf, ssRRhToRRm_DReq)
             d == Len(siSHL_Data)
             e == Len(siSHL_Data')
             n == Chunks(req.datLen)
             g == Len(ssIRbToRDp_Data)
  <2>1. /\ a \in Nat /\ b \in Nat /\ c \in Nat /\ d \in Nat /\ n \in Nat /\ g \in Nat
        /\ a = n + b /\ e = d + n
    BY <1>4, <1>6, <1>7, <1>8
  <2>2. Asked = c + a /\ Stored = d + g /\ Asked' = c + b /\ Stored' = e + g
    BY <1>9 DEF Asked, Stored
  <2> HIDE DEF a, b, c, d, e, n, g
  <2> QED BY <2>1, <2>2
<1>11. Reserved' + Asked' + Stored' = Reserved + Asked + Stored
  <2>1. /\ Reserved \in Nat /\ Asked \in Nat /\ Stored \in Nat
        /\ Reserved' = Reserved /\ Asked' \in Nat /\ Stored' \in Nat
    BY <1>9, CreditParts, CreditPartsNext
  <2> DEFINE r == Reserved
             a == Asked
             b == Asked'
             c == Stored
             d == Stored'
  <2>2. /\ r \in Nat /\ a \in Nat /\ b \in Nat /\ c \in Nat /\ d \in Nat
        /\ b + d = a + c /\ Reserved' = r
    BY <1>10, <2>1
  <2> HIDE DEF r, a, b, c, d
  <2>3. r + b + d = r + a + c
    BY <2>2
  <2> QED BY <2>2, <2>3 DEF r, a, b, c, d
<1> QED BY <1>1, <1>11, CreditSame

LEMMA CreditMovers ==
  ASSUME TypeOK, TypeOK', IRb \/ RRm
  PROVE  SameBut(Balance', Balance + Forgotten)
<1>1. /\ soSHL_DReq \in Seq(DReq) /\ ssRRhToRRm_DReq \in Seq(DReq)
      /\ siSHL_Data \in Seq(Chunk) /\ ssIRbToRDp_Data \in Seq(Chunk)
  BY DEF TypeOK, ShlTypeOK, ReqTypeOK, IrbTypeOK
<1>2. CASE IRb
  <2>1. UNCHANGED << ssRRhToRRm_DReq, soSHL_DReq, rrh_fsmState, rrh_datLenReq,
                     rrh_freeSpace, ssRDpToRRh_Dequeue >>
    BY <1>2 DEF IRb, rrhVars, reqVars
  <2>2. Reserved' = Reserved /\ Asked' = Asked
    BY <2>1 DEF Reserved, Asked
  <2>3. Stored' = Stored
    <3>1. CASE IRbMovesData
      <4>1. /\ siSHL_Data # << >> /\ siSHL_Data' = Tail(siSHL_Data)
            /\ ssIRbToRDp_Data' = Append(ssIRbToRDp_Data, Head(siSHL_Data))
        BY <1>2, <3>1 DEF IRb, IRbMovesData, Dequeue
      <4>2. Len(siSHL_Data') = Len(siSHL_Data) - 1 /\ Len(siSHL_Data) \in Nat
        BY <1>1, <4>1
      <4>3. Len(ssIRbToRDp_Data') = Len(ssIRbToRDp_Data) + 1 /\ Len(ssIRbToRDp_Data) \in Nat
        BY <1>1, <4>1
      <4> QED BY <4>2, <4>3 DEF Stored
    <3>2. CASE ~IRbMovesData
      BY <1>2, <3>2 DEF IRb, Stored
    <3> QED BY <3>1, <3>2
  <2> QED BY <2>1, <2>2, <2>3, CreditSame
<1>3. CASE RRm
  <2>1. /\ ssRRhToRRm_DReq # << >>
        /\ soSHL_DReq' = Append(soSHL_DReq, Head(ssRRhToRRm_DReq))
        /\ ssRRhToRRm_DReq' = Tail(ssRRhToRRm_DReq)
        /\ UNCHANGED << rrh_fsmState, rrh_datLenReq, rrh_freeSpace, ssRDpToRRh_Dequeue,
                        siSHL_Data, ssIRbToRDp_Data >>
    BY <1>3 DEF RRm, Dequeue, rrhVars, irbVars
  <2>2. Head(ssRRhToRRm_DReq) \in DReq /\ Tail(ssRRhToRRm_DReq) \in Seq(DReq)
    BY <1>1, <2>1
  <2> DEFINE k == ChunksOf[Head(ssRRhToRRm_DReq)]
  <2>3. /\ Total(ChunksOf, ssRRhToRRm_DReq) = k + Total(ChunksOf, ssRRhToRRm_DReq')
        /\ Total(ChunksOf, soSHL_DReq') = Total(ChunksOf, soSHL_DReq) + k
    BY <1>1, <2>1, <2>2, ChunksOfOK, TotalOps
  <2>4. /\ k \in Nat /\ Total(ChunksOf, ssRRhToRRm_DReq') \in Nat
        /\ Total(ChunksOf, soSHL_DReq) \in Nat
    BY <1>1, <2>1, <2>2, ChunksOfOK, TotalOps
  <2>5. Reserved' = Reserved /\ Stored' = Stored
        /\ Asked' = Total(ChunksOf, ssRRhToRRm_DReq') + Total(ChunksOf, soSHL_DReq')
    BY <2>1 DEF Reserved, Stored, Asked
  <2> HIDE DEF k
  <2>6. Asked' = Asked
    BY <2>3, <2>4, <2>5 DEF Asked
  <2> QED BY <2>1, <2>5, <2>6, CreditSame
<1> QED BY <1>2, <1>3

LEMMA CreditRDp ==
  ASSUME TypeOK, TypeOK', RDp
  PROVE  SameBut(Balance', Balance + Forgotten)
<1>1. /\ UNCHANGED << ssRRhToRRm_DReq, soSHL_DReq, rrh_fsmState, rrh_datLenReq,
                      rrh_freeSpace, siSHL_Data >>
      /\ \/ RDpTakesChunk
         \/ UNCHANGED << ssIRbToRDp_Data, ssRDpToRRh_Dequeue >>
  BY DEF RDp, RDpIdle, RDpFwdMeta, RDpFwdStream, RDpSinkMeta, RDpSinkStream, RDp8801,
         RDpUnchanged, shlVars, rrhVars, irbVars
<1>2. Reserved' = Reserved /\ Asked' = Asked
  BY <1>1 DEF Reserved, Asked
<1>3. Stored' + ssRDpToRRh_Dequeue' = Stored + ssRDpToRRh_Dequeue
  <2>1. CASE RDpTakesChunk
    <3>1. siSHL_Data \in Seq(Chunk) /\ ssIRbToRDp_Data \in Seq(Chunk) /\ ssRDpToRRh_Dequeue \in Nat
      BY CreditParts DEF TypeOK, ShlTypeOK, IrbTypeOK
    <3> QED BY <1>1, <2>1, <3>1 DEF RDpTakesChunk, Stored, Dequeue
  <2>2. CASE UNCHANGED << ssIRbToRDp_Data, ssRDpToRRh_Dequeue >>
    BY <1>1, <2>2 DEF Stored
  <2> QED BY <1>1, <2>1, <2>2
<1>4. Reserved' + Asked' + Stored' + ssRDpToRRh_Dequeue'
        = Reserved + Asked + Stored + ssRDpToRRh_Dequeue
  BY <1>2, <1>3, CreditParts, CreditPartsNext
<1> QED BY <1>1, <1>4, CreditSame

LEMMA CreditStep ==
  ASSUME TypeOK, TypeOK', [Next]_vars
  PROVE  SameBut(Balance', Balance + Forgotten)
<1> DEFINE quiet == UNCHANGED << ssRRhToRRm_DReq, soSHL_DReq, rrh_fsmState, rrh_datLenReq,
                                 rrh_freeSpace, siSHL_Data, ssIRbToRDp_Data, ssRDpToRRh_Dequeue >>
<1>1. ASSUME quiet PROVE SameBut(Balance', Balance + Forgotten)
  <2>1. Reserved' = Reserved /\ Asked' = Asked /\ Stored' = Stored
    BY <1>1 DEF Reserved, Asked, Stored
  <2> QED BY <1>1, <2>1, CreditSame
<1>2. CASE MmioEnable \/ COnRead \/ TafRead \/ RNh \/ UNCHANGED vars
           \/ \E s \in SessIds, n \in SegLens : ToeNotify(s, n)
  <2>1. quiet
    BY <1>2 DEF MmioEnable, COnRead, TafRead, TafReadMeta, TafReadData, RNh, ToeNotify, vars,
                shlVars, rrhVars, reqVars, irbVars
  <2> HIDE DEF quiet
  <2> QED BY <1>1, <2>1
<1>3. CASE ToeServe \/ IRb \/ RRm \/ RRh \/ RDp
  BY <1>3, CreditToeServe, CreditMovers, CreditRRh, CreditRDp
<1> QED BY <1>2, <1>3 DEF Next

LEMMA CreditInit == Init => Balance = cIBuffBytes
<1> SUFFICES ASSUME Init PROVE Balance = cIBuffBytes
  OBVIOUS
<1>1. /\ ssRRhToRRm_DReq = << >> /\ soSHL_DReq = << >> /\ siSHL_Data = << >>
      /\ ssIRbToRDp_Data = << >> /\ rrh_fsmState = "RRH_IDLE" /\ rrh_freeSpace = cIBuffBytes
      /\ ssRDpToRRh_Dequeue = 0 /\ cIBuffBytes \in Nat
  BY SMTT(30), DepthAssumption DEF Init, cIBuffBytes, ARW_BYTES
<1>2. << >> \in Seq(DReq) /\ Len(<< >>) = 0
  OBVIOUS
<1>3. ChunksRequested(<< >>) = 0
  BY <1>2, ChunksOfOK, TotalOps, RequestedTotals
<1>4. Committed = 0
  BY <1>1, <1>2, <1>3 DEF Committed
<1> QED BY <1>1, <1>4 DEF Balance, ARW_BYTES

\* The numbers the theorems below count with.
LEMMA CreditNumbers ==
  ASSUME TypeOK, TypeOK'
  PROVE  /\ Balance \in Nat /\ Balance' \in Nat /\ Forgotten \in Nat
         /\ FreeSpaceMod \in Nat /\ cIBuffBytes \in Nat
<1>1. FreeSpaceMod \in Nat /\ cIBuffBytes \in Nat
  BY DepthAssumption DEF FreeSpaceMod, cIBuffBytes, ARW_BYTES
<1> QED BY <1>1, CreditGoal

\* tcp_shell_if.cpp:1174-1243 and 1320-1443: for any buffer, lengths, depths and
\* interleaving, every byte of the buffer stays counted once, as free, requested,
\* stored or signalled.  A step changes the balance in two ways only: the branch of
\* line 1194 adds what it requests and does not take off, and an addition passes the
\* top of the register of the count.
THEOREM BalanceIsKept == Spec => CreditKept
<1>1. ASSUME TypeOK, TypeOK', [Next]_vars
      PROVE  [Balance' \in {Balance + Forgotten, (Balance + Forgotten) - FreeSpaceMod}]_vars
  <2>1. SameBut(Balance', Balance + Forgotten)
    BY <1>1, CreditStep
  <2> QED BY <2>1 DEF SameBut
<1> QED BY <1>1, TypeInvariant, PTL DEF Spec, CreditKept

\* tcp_shell_if.cpp:1174-1243: as long as no addition passes the top of the register,
\* RRh never counts less than what is free, with the branch of line 1194 taken any
\* number of times: it never waits (line 1219) for space that the buffer has.
THEOREM NeverShortBelowTheTop == Spec /\ []~CountAtTop => []NeverShort
<1>1. Init => NeverShort
  <2>1. cIBuffBytes \in Nat
    BY DepthAssumption DEF cIBuffBytes, ARW_BYTES
  <2> QED BY <2>1, CreditInit DEF NeverShort
<1>2. TypeOK /\ TypeOK' /\ NeverShort /\ [Next]_vars /\ ~CountAtTop => NeverShort'
  <2> SUFFICES ASSUME TypeOK, TypeOK', NeverShort, [Next]_vars, ~CountAtTop
               PROVE  NeverShort'
    OBVIOUS
  <2>1. /\ Balance \in Nat /\ Balance' \in Nat /\ Forgotten \in Nat /\ cIBuffBytes \in Nat
    BY CreditNumbers
  <2>2. Balance' = Balance + Forgotten
    BY CreditStep DEF SameBut
  <2>3. Balance >= cIBuffBytes
    BY DEF NeverShort
  <2>4. Balance' >= cIBuffBytes
    BY <2>1, <2>2, <2>3
  <2> QED BY <2>4 DEF NeverShort, cIBuffBytes, ARW_BYTES
<1> QED BY <1>1, <1>2, TypeInvariant, PTL DEF Spec

\* The free space RRh counts is what is free.
CreditExact == Balance = cIBuffBytes

LEMMA ExactBelowTheTop ==
  ASSUME TypeOK, CreditExact
  PROVE  ~CountAtTop
<1>1. /\ Reserved \in Nat /\ Asked \in Nat /\ Stored \in Nat /\ ssRDpToRRh_Dequeue \in Nat
      /\ rrh_freeSpace \in Nat /\ cIBuffBytes \in Nat /\ cIBuffBytes > 0
      /\ Committed = Reserved + Asked + Stored
  BY CreditParts, DepthAssumption DEF cIBuffBytes, ARW_BYTES
<1>2. rrh_freeSpace + 8 * (Reserved + Asked + Stored + ssRDpToRRh_Dequeue) = cIBuffBytes
  BY <1>1 DEF CreditExact, Balance, ARW_BYTES
<1>3. FreeSpaceMod = 2 * cIBuffBytes
  BY DEF FreeSpaceMod
<1>4. ssRDpToRRh_Dequeue > 0 => rrh_freeSpace + 8 < FreeSpaceMod
  BY <1>1, <1>2, <1>3
<1> QED BY <1>1, <1>3, <1>4 DEF CountAtTop, ARW_BYTES

\* tcp_shell_if.cpp:1174-1243 and 1320-1443: the free space RRh counts is exact,
\* for any buffer, lengths, depths and interleaving, up to the one branch that
\* forgets what it requests (1194).
THEOREM OneBranchLeaks == Spec /\ [][~ForgetsRequest]_vars => []CreditExact
<1>1. TypeOK /\ TypeOK' /\ CreditExact /\ [Next]_vars /\ [~ForgetsRequest]_vars => CreditExact'
  <2> SUFFICES ASSUME TypeOK, TypeOK', CreditExact, [Next]_vars, [~ForgetsRequest]_vars
               PROVE  CreditExact'
    OBVIOUS
  <2>1. ~ForgetsRequest
    BY CreditParts DEF ForgetsRequest, RRhRequestPart, vars, rrhVars
  <2>2. Forgotten = 0
    BY <2>1 DEF Forgotten
  <2>3. Balance' = Balance + 0
    BY <2>2, CreditStep, ExactBelowTheTop DEF SameBut
  <2>4. Balance' = Balance
    BY <2>3, CreditNumbers
  <2> QED BY <2>4 DEF CreditExact, cIBuffBytes, ARW_BYTES
<1>2. Init => CreditExact
  BY CreditInit DEF CreditExact
<1> QED BY <1>1, <1>2, TypeInvariant, PTL DEF Spec

\* test/simu_tcp_shell_if_env.cpp:154: that branch is also the only reason why
\* the free space may not settle back to the size of the buffer.
THEOREM SettlesUnlessForgotten == Spec /\ [][~ForgetsRequest]_vars => []SettlesBack
<1>1. TypeOK /\ CreditExact => SettlesBack
  <2> SUFFICES ASSUME TypeOK, CreditExact, Quiet PROVE rrh_freeSpace = cIBuffBytes
    BY DEF SettlesBack
  <2>1. rrh_freeSpace + ARW_BYTES * (0 + 0) = cIBuffBytes /\ rrh_freeSpace \in Nat
    BY CreditParts DEF CreditExact, Balance, Quiet
  <2> QED BY <2>1 DEF ARW_BYTES
<1> QED BY <1>1, OneBranchLeaks, TypeInvariant, PTL

-----------------------------------------------------------------------------
(* BytesAccounted.  The bytes a session has received are in the TOE's       *)
(* notifications, then in the one RRh holds, then in the requests it cuts   *)
(* it into.                                                                 *)

Notified(s) == Total(NotifOf(s), siSHL_Notif) + Total(NotifOf(s), ssRNhToRRh_Notif)
Wanted(s) == Total(AskedOf(s), ssRRhToRRm_DReq) + Total(AskedOf(s), soSHL_DReq)

\* RNh finds its stream full and drops the notification.
LosesNotif == RNh /\ ~HasRoom(ssRNhToRRh_Notif, cDepth_RNhToRRh_Notif)

LEMMA OfOK ==
  ASSUME NEW s \in SessIds
  PROVE  NotifOf(s) \in [Notif -> Nat] /\ AskedOf(s) \in [DReq -> Nat]
  BY DEF NotifOf, AskedOf, Notif, DReq

LEMMA ClaimParts ==
  ASSUME TypeOK, NEW s \in SessIds
  PROVE  /\ Claimed(s) = Notified(s) + Wanted(s) + Held(s) + Asking(s)
         /\ Notified(s) \in Nat /\ Wanted(s) \in Nat /\ Held(s) \in Nat /\ Asking(s) \in Nat
         /\ toeEnd[s] \in Nat /\ toeRd[s] \in Nat
<1>1. /\ ssRRhToRRm_DReq \in Seq(DReq) /\ soSHL_DReq \in Seq(DReq)
      /\ siSHL_Notif \in Seq(Notif) /\ ssRNhToRRh_Notif \in Seq(Notif)
      /\ rrh_datLenReq \in Nat /\ rrh_notif \in Notif
      /\ toeEnd \in [SessIds -> Nat] /\ toeRd \in [SessIds -> Nat]
  BY DEF TypeOK, ReqTypeOK, ShlTypeOK, RrhTypeOK
<1>2. Held(s) \in Nat /\ Asking(s) \in Nat
  BY <1>1 DEF Held, Asking, Notif
<1>3. NotifOf(s) \in [Notif -> Nat] /\ AskedOf(s) \in [DReq -> Nat]
  BY OfOK
<1>4. /\ Total(NotifOf(s), siSHL_Notif) \in Nat /\ Total(NotifOf(s), ssRNhToRRh_Notif) \in Nat
      /\ Total(AskedOf(s), ssRRhToRRm_DReq) \in Nat /\ Total(AskedOf(s), soSHL_DReq) \in Nat
  BY <1>1, <1>3, TotalOps
<1>5. /\ Total(NotifOf(s), siSHL_Notif \o ssRNhToRRh_Notif) = Notified(s)
      /\ Total(AskedOf(s), ssRRhToRRm_DReq \o soSHL_DReq) = Wanted(s)
  BY <1>1, <1>3, TotalConcat DEF Notified, Wanted
<1>6. Notified(s) \in Nat /\ Wanted(s) \in Nat
  BY <1>4 DEF Notified, Wanted
<1> QED BY <1>1, <1>2, <1>5, <1>6, ClaimedTotals

\* What is under way of a session, of each kind.
UnderWay(s) == Notified(s) + Wanted(s) + Held(s) + Asking(s)
Unclaimed(s) == (toeEnd[s] - toeRd[s]) - UnderWay(s)

\* A step that leaves a part alone.
LEMMA ClaimKept ==
  ASSUME NEW s \in SessIds
  PROVE  /\ UNCHANGED << siSHL_Notif, ssRNhToRRh_Notif >> => Notified(s)' = Notified(s)
         /\ UNCHANGED << ssRRhToRRm_DReq, soSHL_DReq >> => Wanted(s)' = Wanted(s)
         /\ UNCHANGED << rrh_fsmState, rrh_notif, rrh_datLenReq >>
              => Held(s)' = Held(s) /\ Asking(s)' = Asking(s)
         /\ UNCHANGED << toeEnd, toeRd >> => toeEnd'[s] - toeRd'[s] = toeEnd[s] - toeRd[s]
  BY DEF Notified, Wanted, Held, Asking

\* A received segment is in its notification.
LEMMA ClaimNotify ==
  ASSUME TypeOK, NEW t \in SessIds, NEW n \in SegLens, ToeNotify(t, n), NEW s \in SessIds
  PROVE  Unclaimed(s)' = Unclaimed(s)
<1> DEFINE m == [sessId |-> t, tcpDatLen |-> n]
           k == IF t = s THEN n ELSE 0
<1>1. /\ siSHL_Notif' = Append(siSHL_Notif, m) /\ toeEnd' = [toeEnd EXCEPT ![t] = @ + n]
      /\ UNCHANGED << toeRd, ssRNhToRRh_Notif, ssRRhToRRm_DReq, soSHL_DReq, rrh_fsmState, rrh_notif,
                      rrh_datLenReq >>
  BY DEF ToeNotify, rrhVars, reqVars
<1>2. m \in Notif /\ NotifOf(s)[m] = k /\ n \in Nat
  BY LenAssumption DEF Notif, NotifOf
<1>3. /\ siSHL_Notif \in Seq(Notif) /\ ssRNhToRRh_Notif \in Seq(Notif)
      /\ toeEnd \in [SessIds -> Nat] /\ toeRd \in [SessIds -> Nat]
  BY DEF TypeOK, ShlTypeOK
<1> DEFINE a == Total(NotifOf(s), siSHL_Notif)
           b == Total(NotifOf(s), ssRNhToRRh_Notif)
<1>4. a \in Nat /\ b \in Nat /\ Total(NotifOf(s), siSHL_Notif') = a + k
  BY SMTT(30), <1>1, <1>2, <1>3, OfOK, TotalOps
<1>5. Notified(s) = a + b /\ Notified(s)' = (a + k) + b
  BY <1>1, <1>4 DEF Notified
<1>6. toeEnd'[s] = toeEnd[s] + k /\ toeRd'[s] = toeRd[s] /\ toeEnd[s] \in Nat /\ toeRd[s] \in Nat
  BY <1>1, <1>2, <1>3
<1>7. Wanted(s)' = Wanted(s) /\ Held(s)' = Held(s) /\ Asking(s)' = Asking(s) /\ k \in Nat
  BY <1>1, <1>2, ClaimKept
<1>8. Wanted(s) \in Nat /\ Held(s) \in Nat /\ Asking(s) \in Nat
  BY ClaimParts
<1> DEFINE w == Wanted(s)
           h == Held(s)
           g == Asking(s)
           e == toeEnd[s]
           r == toeRd[s]
<1>9. Unclaimed(s) = (e - r) - (a + b + w + h + g)
  BY <1>5 DEF Unclaimed, UnderWay
<1>10. Unclaimed(s)' = (e + k - r) - ((a + k) + b + w + h + g)
  BY <1>5, <1>6, <1>7 DEF Unclaimed, UnderWay
<1> HIDE DEF a, b, k, w, h, g, e, r
<1>11. /\ a \in Nat /\ b \in Nat /\ k \in Nat /\ e \in Nat /\ r \in Nat
       /\ w \in Nat /\ h \in Nat /\ g \in Nat
  BY <1>4, <1>6, <1>7, <1>8 DEF w, h, g, e, r
<1> QED BY <1>9, <1>10, <1>11

\* The TOE streams what the request it takes asks for.
LEMMA ClaimServe ==
  ASSUME TypeOK, ToeServe, NEW s \in SessIds
  PROVE  Unclaimed(s)' = Unclaimed(s)
<1> DEFINE m == Head(soSHL_DReq)
           k == IF m.sessId = s THEN m.datLen ELSE 0
<1>1. /\ soSHL_DReq # << >> /\ soSHL_DReq' = Tail(soSHL_DReq)
      /\ toeRd' = [toeRd EXCEPT ![m.sessId] = @ + m.datLen]
      /\ UNCHANGED << toeEnd, siSHL_Notif, ssRNhToRRh_Notif, ssRRhToRRm_DReq, rrh_fsmState, rrh_notif,
                      rrh_datLenReq >>
  BY DEF ToeServe, rrhVars, reqVars, Dequeue
<1>2. /\ soSHL_DReq \in Seq(DReq) /\ ssRRhToRRm_DReq \in Seq(DReq)
      /\ toeEnd \in [SessIds -> Nat] /\ toeRd \in [SessIds -> Nat]
  BY DEF TypeOK, ShlTypeOK, ReqTypeOK
<1>3. m \in DReq /\ AskedOf(s)[m] = k /\ m.sessId \in SessIds /\ m.datLen \in Nat /\ k \in Nat
  <2>1. m \in DReq
    BY <1>1, <1>2
  <2> QED BY <2>1 DEF DReq, AskedOf
<1>4. toeRd'[s] = toeRd[s] + k /\ toeEnd'[s] = toeEnd[s] /\ toeEnd[s] \in Nat /\ toeRd[s] \in Nat
  BY <1>1, <1>2, <1>3
<1> DEFINE a == Total(AskedOf(s), ssRRhToRRm_DReq)
           b == Total(AskedOf(s), Tail(soSHL_DReq))
<1> HIDE DEF m
<1>5. a \in Nat /\ b \in Nat /\ Total(AskedOf(s), soSHL_DReq) = k + b
  <2>1. Tail(soSHL_DReq) \in Seq(DReq)
    BY <1>1, <1>2
  <2>2. b \in Nat
    BY <2>1, OfOK, TotalOps
  <2>3. a \in Nat
    BY <1>2, OfOK, TotalOps
  <2>4. Total(AskedOf(s), soSHL_DReq) = AskedOf(s)[m] + b
    BY <1>1, <1>2, OfOK, TotalOps DEF m
  <2> QED BY <1>3, <2>2, <2>3, <2>4
<1>6. Wanted(s) = a + (k + b) /\ Wanted(s)' = a + b
  BY <1>1, <1>5 DEF Wanted
<1>7. Notified(s)' = Notified(s) /\ Held(s)' = Held(s) /\ Asking(s)' = Asking(s)
  BY <1>1, ClaimKept
<1>8. Notified(s) \in Nat /\ Held(s) \in Nat /\ Asking(s) \in Nat
  BY ClaimParts
<1> DEFINE w == Notified(s)
           h == Held(s)
           g == Asking(s)
           e == toeEnd[s]
           r == toeRd[s]
<1>9. Unclaimed(s) = (e - r) - (w + (a + (k + b)) + h + g)
  BY <1>6 DEF Unclaimed, UnderWay
<1>10. Unclaimed(s)' = (e - (r + k)) - (w + (a + b) + h + g)
  BY <1>4, <1>6, <1>7 DEF Unclaimed, UnderWay
<1>11. /\ a \in Nat /\ b \in Nat /\ k \in Nat /\ e \in Nat /\ r \in Nat
       /\ w \in Nat /\ h \in Nat /\ g \in Nat
  BY <1>3, <1>4, <1>5, <1>8
<1> HIDE DEF a, b, k, w, h, g, e, r
<1> QED BY <1>9, <1>10, <1>11

\* RNh moves a notification, or loses it.
LEMMA ClaimRNh ==
  ASSUME TypeOK, RNh, NEW s \in SessIds
  PROVE  /\ Unclaimed(s)' \in Int /\ Unclaimed(s)' >= Unclaimed(s)
         /\ ~LosesNotif => Unclaimed(s)' = Unclaimed(s)
<1> DEFINE m == Head(siSHL_Notif)
           k == NotifOf(s)[m]
           a == Total(NotifOf(s), Tail(siSHL_Notif))
           b == Total(NotifOf(s), ssRNhToRRh_Notif)
           b2 == Total(NotifOf(s), ssRNhToRRh_Notif')
<1>1. /\ siSHL_Notif # << >> /\ siSHL_Notif' = Tail(siSHL_Notif)
      /\ ssRNhToRRh_Notif' = IF HasRoom(ssRNhToRRh_Notif, cDepth_RNhToRRh_Notif)
                             THEN Append(ssRNhToRRh_Notif, m) ELSE ssRNhToRRh_Notif
      /\ UNCHANGED << toeEnd, toeRd, ssRRhToRRm_DReq, soSHL_DReq, rrh_fsmState, rrh_notif,
                      rrh_datLenReq >>
  BY DEF RNh, rrhVars, reqVars, Dequeue
<1>2. siSHL_Notif \in Seq(Notif) /\ ssRNhToRRh_Notif \in Seq(Notif)
  BY DEF TypeOK, ShlTypeOK
<1>3. m \in Notif /\ Tail(siSHL_Notif) \in Seq(Notif) /\ NotifOf(s) \in [Notif -> Nat]
  BY <1>1, <1>2, OfOK
<1>4. k \in Nat /\ Total(NotifOf(s), siSHL_Notif) = k + a
  BY <1>1, <1>2, <1>3, TotalOps
<1>5. a \in Nat /\ b \in Nat
  BY <1>2, <1>3, TotalOps
<1>6. IF HasRoom(ssRNhToRRh_Notif, cDepth_RNhToRRh_Notif) THEN b2 = b + k ELSE b2 = b
  BY <1>1, <1>2, <1>3, TotalOps
<1>7. Notified(s) = (k + a) + b /\ Notified(s)' = a + b2
  BY <1>1, <1>4 DEF Notified
<1>8. /\ Wanted(s)' = Wanted(s) /\ Held(s)' = Held(s) /\ Asking(s)' = Asking(s)
      /\ toeEnd'[s] = toeEnd[s] /\ toeRd'[s] = toeRd[s]
  BY <1>1, ClaimKept
<1>9. /\ Wanted(s) \in Nat /\ Held(s) \in Nat /\ Asking(s) \in Nat
      /\ toeEnd[s] \in Nat /\ toeRd[s] \in Nat
  BY ClaimParts
<1> DEFINE w == Wanted(s)
           h == Held(s)
           g == Asking(s)
           e == toeEnd[s]
           r == toeRd[s]
<1>10. /\ Unclaimed(s) = (e - r) - (((k + a) + b) + w + h + g)
       /\ Unclaimed(s)' = (e - r) - ((a + b2) + w + h + g)
  BY <1>7, <1>8 DEF Unclaimed, UnderWay
<1>11. ~LosesNotif => HasRoom(ssRNhToRRh_Notif, cDepth_RNhToRRh_Notif)
  BY DEF LosesNotif
<1>12. /\ k \in Nat /\ a \in Nat /\ b \in Nat /\ w \in Nat /\ h \in Nat /\ g \in Nat
       /\ e \in Nat /\ r \in Nat /\ (b2 = b + k \/ b2 = b)
       /\ ~LosesNotif => b2 = b + k
  BY <1>4, <1>5, <1>6, <1>9, <1>11
<1> HIDE DEF k, a, b, b2, w, h, g, e, r
<1> QED BY <1>10, <1>12

\* A step that only moves bytes between the kinds.
LEMMA ClaimMoved ==
  ASSUME NEW s \in SessIds, UNCHANGED << toeEnd, toeRd >>,
         Notified(s)' + Wanted(s)' + Held(s)' + Asking(s)'
           = Notified(s) + Wanted(s) + Held(s) + Asking(s)
  PROVE  Unclaimed(s)' = Unclaimed(s)
  BY DEF Unclaimed, UnderWay

LEMMA ClaimRRm ==
  ASSUME TypeOK, RRm, NEW s \in SessIds
  PROVE  Unclaimed(s)' = Unclaimed(s)
<1> DEFINE m == Head(ssRRhToRRm_DReq)
           k == AskedOf(s)[m]
           a == Total(AskedOf(s), Tail(ssRRhToRRm_DReq))
           b == Total(AskedOf(s), soSHL_DReq)
<1>1. /\ ssRRhToRRm_DReq # << >> /\ ssRRhToRRm_DReq' = Tail(ssRRhToRRm_DReq)
      /\ soSHL_DReq' = Append(soSHL_DReq, m)
      /\ UNCHANGED << toeEnd, toeRd, siSHL_Notif, ssRNhToRRh_Notif, rrh_fsmState, rrh_notif,
                      rrh_datLenReq >>
  BY DEF RRm, rrhVars, Dequeue
<1>2. ssRRhToRRm_DReq \in Seq(DReq) /\ soSHL_DReq \in Seq(DReq)
  BY DEF TypeOK, ShlTypeOK, ReqTypeOK
<1>3. m \in DReq /\ Tail(ssRRhToRRm_DReq) \in Seq(DReq) /\ AskedOf(s) \in [DReq -> Nat]
  BY <1>1, <1>2, OfOK
<1>4. k \in Nat /\ Total(AskedOf(s), ssRRhToRRm_DReq) = k + a
  BY <1>1, <1>2, <1>3, TotalOps
<1>5. a \in Nat /\ b \in Nat /\ Total(AskedOf(s), soSHL_DReq') = b + k
  BY <1>1, <1>2, <1>3, TotalOps
<1>6. Wanted(s) = (k + a) + b /\ Wanted(s)' = a + (b + k)
  BY <1>1, <1>4, <1>5 DEF Wanted
<1>7. Wanted(s)' = Wanted(s)
  <2> HIDE DEF k, a, b
  <2> QED BY <1>4, <1>5, <1>6
<1>8. Notified(s)' = Notified(s) /\ Held(s)' = Held(s) /\ Asking(s)' = Asking(s)
  BY <1>1, ClaimKept
<1> QED BY <1>1, <1>7, <1>8, ClaimMoved

LEMMA ClaimIdle ==
  ASSUME TypeOK, RRhIdle, NEW s \in SessIds
  PROVE  Unclaimed(s)' = Unclaimed(s)
<1>1. UNCHANGED << toeEnd, toeRd, siSHL_Notif, ssRRhToRRm_DReq, soSHL_DReq >>
  BY DEF RRhIdle, RRhUnchanged, shlVars, reqVars
<1>2. CASE ssRNhToRRh_Notif = << >>
  <2>1. UNCHANGED << ssRNhToRRh_Notif, rrh_fsmState, rrh_notif, rrh_datLenReq >>
    BY <1>2 DEF RRhIdle
  <2> QED BY <1>1, <2>1, ClaimKept, ClaimMoved
<1>3. CASE ssRNhToRRh_Notif # << >>
  <2> DEFINE m == Head(ssRNhToRRh_Notif)
             k == NotifOf(s)[m]
             a == Total(NotifOf(s), siSHL_Notif)
             b == Total(NotifOf(s), Tail(ssRNhToRRh_Notif))
  <2>1. /\ ssRNhToRRh_Notif' = Tail(ssRNhToRRh_Notif) /\ rrh_notif' = m
        /\ rrh_fsmState = "RRH_IDLE" /\ rrh_fsmState' = "RRH_GEN_DLEN"
    BY <1>3 DEF RRhIdle, Dequeue
  <2>2. siSHL_Notif \in Seq(Notif) /\ ssRNhToRRh_Notif \in Seq(Notif)
    BY DEF TypeOK, ShlTypeOK
  <2>3. m \in Notif /\ Tail(ssRNhToRRh_Notif) \in Seq(Notif) /\ NotifOf(s) \in [Notif -> Nat]
    BY <1>3, <2>2, OfOK
  <2>4. k \in Nat /\ Total(NotifOf(s), ssRNhToRRh_Notif) = k + b
    BY <1>3, <2>2, <2>3, TotalOps
  <2>5. a \in Nat /\ b \in Nat
    BY <2>2, <2>3, TotalOps
  <2>6. Notified(s) = a + (k + b) /\ Notified(s)' = a + b
    BY <1>1, <2>1, <2>4 DEF Notified
  <2>7. Held(s) = 0 /\ Asking(s) = 0 /\ Asking(s)' = 0 /\ Held(s)' = k
    BY <2>1, <2>3 DEF Held, Asking, NotifOf
  <2>8. Wanted(s)' = Wanted(s) /\ Wanted(s) \in Nat
    BY <1>1, ClaimKept, ClaimParts
  <2> DEFINE w == Wanted(s)
  <2> HIDE DEF k, a, b, w, m
  <2>9. Notified(s)' + w + Held(s)' + Asking(s)' = Notified(s) + w + Held(s) + Asking(s)
    <3>1. w \in Nat
      BY <2>8 DEF w
    <3>2. (a + b) + w + k + 0 = (a + (k + b)) + w + 0 + 0
      BY <2>4, <2>5, <3>1
    <3> QED BY <2>6, <2>7, <3>2
  <2> QED BY <1>1, <2>8, <2>9, ClaimMoved DEF w
<1> QED BY <1>2, <1>3

LEMMA ClaimRequests ==
  ASSUME TypeOK, RRhRequestPart \/ RRhRequestAll, NEW s \in SessIds
  PROVE  Unclaimed(s)' = Unclaimed(s)
<1>1. UNCHANGED << toeEnd, toeRd, siSHL_Notif, ssRNhToRRh_Notif, ssRRhToRRm_DReq, soSHL_DReq >>
  BY DEF RRhRequestPart, RRhRequestAll, RRhUnchanged, shlVars, reqVars
<1>2. rrh_freeSpace \in Nat /\ rrh_notif \in Notif /\ rrh_notif.tcpDatLen \in Nat
  BY CreditParts DEF TypeOK, RrhTypeOK, Notif
<1>3. /\ rrh_fsmState = "RRH_GEN_DLEN" /\ rrh_fsmState' = "RRH_SEND_DREQ"
      /\ rrh_notif'.sessId = rrh_notif.sessId
      /\ rrh_notif'.tcpDatLen + rrh_datLenReq' = rrh_notif.tcpDatLen
      /\ rrh_notif'.tcpDatLen \in Int /\ rrh_datLenReq' \in Int
  <2>1. CASE RRhRequestPart
    <3>1. rrh_notif' = [rrh_notif EXCEPT !.tcpDatLen = rrh_notif.tcpDatLen - rrh_freeSpace]
      BY <2>1 DEF RRhRequestPart, NotifLeft
    <3>2. rrh_notif'.tcpDatLen = rrh_notif.tcpDatLen - rrh_freeSpace /\ rrh_notif'.sessId = rrh_notif.sessId
      BY <1>2, <3>1 DEF Notif
    <3> QED BY <1>2, <2>1, <3>2 DEF RRhRequestPart
  <2>2. CASE RRhRequestAll
    <3>1. rrh_notif' = [rrh_notif EXCEPT !.tcpDatLen = 0] /\ rrh_datLenReq' = rrh_notif.tcpDatLen
      BY <2>2 DEF RRhRequestAll
    <3>2. rrh_notif'.tcpDatLen = 0 /\ rrh_notif'.sessId = rrh_notif.sessId
      BY <1>2, <3>1 DEF Notif
    <3> QED BY <1>2, <2>2, <3>1, <3>2 DEF RRhRequestAll
  <2> QED BY <2>1, <2>2
<1>4. Held(s)' + Asking(s)' = Held(s) + Asking(s) /\ Held(s)' \in Int /\ Asking(s)' \in Int
  BY <1>2, <1>3 DEF Held, Asking
<1>5. Notified(s)' = Notified(s) /\ Wanted(s)' = Wanted(s)
  BY <1>1, ClaimKept
<1> DEFINE a == Notified(s)
           w == Wanted(s)
           h == Held(s)
           g == Asking(s)
           h2 == Held(s)'
           g2 == Asking(s)'
<1>6. /\ a \in Nat /\ w \in Nat /\ h \in Nat /\ g \in Nat
      /\ h2 + g2 = h + g /\ h2 \in Int /\ g2 \in Int
  BY <1>4, ClaimParts
<1> HIDE DEF a, w, h, g, h2, g2
<1>7. a + w + h2 + g2 = a + w + h + g
  BY <1>6
<1> QED BY <1>1, <1>5, <1>7, ClaimMoved DEF a, w, h, g, h2, g2

LEMMA ClaimSends ==
  ASSUME TypeOK, RRhSendDReq, NEW s \in SessIds
  PROVE  Unclaimed(s)' = Unclaimed(s)
<1>1. UNCHANGED << toeEnd, toeRd, siSHL_Notif, ssRNhToRRh_Notif, soSHL_DReq, rrh_notif, rrh_datLenReq >>
  BY DEF RRhSendDReq, RRhUnchanged, shlVars
<1>2. CASE UNCHANGED << ssRRhToRRm_DReq, rrh_fsmState >>
  BY <1>1, <1>2, ClaimKept, ClaimMoved
<1>3. CASE ~UNCHANGED << ssRRhToRRm_DReq, rrh_fsmState >>
  <2> DEFINE m == [sessId |-> rrh_notif.sessId, datLen |-> rrh_datLenReq]
             k == AskedOf(s)[m]
             a == Total(AskedOf(s), ssRRhToRRm_DReq)
             b == Total(AskedOf(s), soSHL_DReq)
  <2>1. /\ ssRRhToRRm_DReq' = Append(ssRRhToRRm_DReq, m) /\ rrh_fsmState = "RRH_SEND_DREQ"
        /\ rrh_fsmState' = IF rrh_notif.tcpDatLen = 0 THEN "RRH_IDLE" ELSE "RRH_GEN_DLEN"
    BY <1>3 DEF RRhSendDReq, reqVars
  <2>2. ssRRhToRRm_DReq \in Seq(DReq) /\ soSHL_DReq \in Seq(DReq)
    BY DEF TypeOK, ShlTypeOK, ReqTypeOK
  <2>3. m \in DReq /\ AskedOf(s) \in [DReq -> Nat]
    BY OfOK DEF TypeOK, RrhTypeOK, Notif, DReq
  <2>4. k \in Nat /\ a \in Nat /\ b \in Nat /\ Total(AskedOf(s), ssRRhToRRm_DReq') = a + k
    BY <2>1, <2>2, <2>3, TotalOps
  <2>5. Wanted(s) = a + b /\ Wanted(s)' = (a + k) + b
    BY <1>1, <2>4 DEF Wanted
  <2>6. Asking(s) = k /\ Asking(s)' = 0 /\ Held(s)' = Held(s)
    BY <1>1, <2>1, <2>3 DEF Asking, Held, AskedOf
  <2>7. Notified(s)' = Notified(s) /\ Notified(s) \in Nat /\ Held(s) \in Nat
    BY <1>1, ClaimKept, ClaimParts
  <2> DEFINE c == Notified(s)
             h == Held(s)
  <2>8. c \in Nat /\ h \in Nat
    BY <2>7
  <2> HIDE DEF k, a, b, c, h, m
  <2>9. c + ((a + k) + b) + h + 0 = c + (a + b) + h + k
    BY <2>4, <2>8
  <2> QED BY <1>1, <2>5, <2>6, <2>7, <2>9, ClaimMoved DEF c, h
<1> QED BY <1>2, <1>3

LEMMA ClaimStep ==
  ASSUME TypeOK, [Next]_vars, NEW s \in SessIds
  PROVE  /\ Unclaimed(s)' \in Int /\ Unclaimed(s)' >= Unclaimed(s)
         /\ ~LosesNotif => Unclaimed(s)' = Unclaimed(s)
<1>0. Unclaimed(s) \in Int
  BY ClaimParts DEF Unclaimed, UnderWay
<1> DEFINE quiet == UNCHANGED << toeEnd, toeRd, siSHL_Notif, ssRNhToRRh_Notif, ssRRhToRRm_DReq,
                                 soSHL_DReq, rrh_fsmState, rrh_notif, rrh_datLenReq >>
<1>1. ASSUME quiet PROVE Unclaimed(s)' = Unclaimed(s)
  BY <1>1, ClaimKept, ClaimMoved
<1>2. CASE MmioEnable \/ COnRead \/ TafRead \/ IRb \/ RRhWaitSpace \/ RDp \/ UNCHANGED vars
  <2>1. quiet
    BY <1>2 DEF MmioEnable, COnRead, TafRead, TafReadMeta, TafReadData, IRb, RRhWaitSpace,
                RRhUnchanged, RDp, RDpIdle, RDpFwdMeta, RDpFwdStream, RDpSinkMeta, RDpSinkStream,
                RDp8801, RDpUnchanged, vars, shlVars, rrhVars, reqVars
  <2> HIDE DEF quiet
  <2> QED BY <1>0, <1>1, <2>1
<1>3. ASSUME NEW t \in SessIds, NEW n \in SegLens, ToeNotify(t, n)
      PROVE  Unclaimed(s)' = Unclaimed(s)
  BY <1>3, ClaimNotify
<1>4. CASE ToeServe \/ RRm \/ RRhIdle \/ RRhRequestPart \/ RRhRequestAll \/ RRhSendDReq
  <2>1. Unclaimed(s)' = Unclaimed(s)
    BY <1>4, ClaimServe, ClaimRRm, ClaimIdle, ClaimRequests, ClaimSends
  <2> QED BY <1>0, <2>1
<1>5. CASE RNh
  BY <1>5, ClaimRNh
<1> QED BY <1>0, <1>2, <1>3, <1>4, <1>5 DEF Next, RRh

LEMMA ClaimInit == Init => \A s \in SessIds : Unclaimed(s) = 0
<1> SUFFICES ASSUME Init, NEW s \in SessIds PROVE Unclaimed(s) = 0
  OBVIOUS
<1>1. << >> \in Seq(Notif) /\ << >> \in Seq(DReq)
  OBVIOUS
<1>2. Total(NotifOf(s), << >>) = 0 /\ Total(AskedOf(s), << >>) = 0
  BY <1>1, OfOK, TotalOps
<1>3. Notified(s) = 0 /\ Wanted(s) = 0
  BY <1>2 DEF Init, Notified, Wanted
<1>4. Held(s) = 0 /\ Asking(s) = 0 /\ toeEnd[s] = 0 /\ toeRd[s] = 0
  BY DEF Init, Held, Asking
<1> QED BY <1>3, <1>4 DEF Unclaimed, UnderWay

\* No byte is asked for that has not been received, or asked for twice.
NothingOverclaimed == \A s \in SessIds : toeRd[s] + Claimed(s) <= toeEnd[s]

\* tcp_shell_if.cpp:1092-1243: RRh never requests more of a session than the TOE
\* has received of it, for any lengths, depths and splits, whatever RNh loses.
THEOREM NoByteTwice == Spec => []NothingOverclaimed
<1> DEFINE Inv == \A s \in SessIds : Unclaimed(s) >= 0
<1>1. Init => Inv
  BY ClaimInit
<1>2. TypeOK /\ Inv /\ [Next]_vars => Inv'
  <2> SUFFICES ASSUME TypeOK, Inv, [Next]_vars, NEW s \in SessIds PROVE Unclaimed(s)' >= 0
    OBVIOUS
  <2>1. Unclaimed(s)' \in Int /\ Unclaimed(s)' >= Unclaimed(s)
    BY ClaimStep
  <2>2. Unclaimed(s) >= 0 /\ Unclaimed(s) \in Int
    BY ClaimParts DEF Unclaimed, UnderWay
  <2> QED BY <2>1, <2>2
<1>3. TypeOK /\ Inv => NothingOverclaimed
  <2> SUFFICES ASSUME TypeOK, Inv, NEW s \in SessIds PROVE toeRd[s] + Claimed(s) <= toeEnd[s]
    BY DEF NothingOverclaimed
  <2>1. (toeEnd[s] - toeRd[s]) - Claimed(s) >= 0 /\ Claimed(s) \in Nat
        /\ toeEnd[s] \in Nat /\ toeRd[s] \in Nat
    BY ClaimParts DEF Unclaimed, UnderWay
  <2> QED BY <2>1
<1> HIDE DEF Inv
<1> QED BY <1>1, <1>2, <1>3, TypeInvariant, PTL DEF Spec

\* tcp_shell_if.cpp:1092-1243: and it requests all of it, but for what RNh loses.
THEOREM OnlyRNhLoses == Spec /\ [][~LosesNotif]_vars => []BytesAccounted
<1> DEFINE Inv == \A s \in SessIds : Unclaimed(s) = 0
<1>1. Init => Inv
  BY ClaimInit
<1>2. TypeOK /\ Inv /\ [Next]_vars /\ [~LosesNotif]_vars => Inv'
  <2> SUFFICES ASSUME TypeOK, Inv, [Next]_vars, [~LosesNotif]_vars, NEW s \in SessIds
               PROVE  Unclaimed(s)' = 0
    OBVIOUS
  <2>1. ~LosesNotif
    <3>1. CASE UNCHANGED vars
      <4>1. siSHL_Notif' = siSHL_Notif /\ siSHL_Notif \in Seq(Notif)
        BY <3>1 DEF vars, shlVars, TypeOK, ShlTypeOK
      <4>2. ~RNh
        BY <4>1 DEF RNh, Dequeue
      <4> QED BY <4>2 DEF LosesNotif
    <3> QED BY <3>1
  <2> QED BY <2>1, ClaimStep
<1>3. TypeOK /\ Inv => BytesAccounted
  <2> SUFFICES ASSUME TypeOK, Inv, NEW s \in SessIds PROVE toeEnd[s] - toeRd[s] = Claimed(s)
    BY DEF BytesAccounted
  <2>1. (toeEnd[s] - toeRd[s]) - Claimed(s) = 0 /\ Claimed(s) \in Nat
        /\ toeEnd[s] \in Nat /\ toeRd[s] \in Nat
    BY ClaimParts DEF Unclaimed, UnderWay
  <2> QED BY <2>1
<1> HIDE DEF Inv
<1> QED BY <1>1, <1>2, <1>3, TypeInvariant, PTL DEF Spec

\* Notifications wait in the two streams only.
Waiting == Len(siSHL_Notif) + Len(ssRNhToRRh_Notif) <= toeNotifs

LEMMA WaitingStep ==
  ASSUME TypeOK, Waiting, [Next]_vars
  PROVE  Waiting'
<1>0. siSHL_Notif \in Seq(Notif) /\ ssRNhToRRh_Notif \in Seq(Notif) /\ toeNotifs \in Nat
  BY DepthAssumption DEF TypeOK, ShlTypeOK
<1>1. ASSUME NEW s \in SessIds, NEW n \in SegLens, ToeNotify(s, n) PROVE Waiting'
  BY <1>0, <1>1 DEF ToeNotify, Waiting
<1>2. CASE RNh
  <2>1. /\ Len(siSHL_Notif') = Len(siSHL_Notif) - 1 /\ toeNotifs' = toeNotifs
        /\ Len(ssRNhToRRh_Notif') <= Len(ssRNhToRRh_Notif) + 1 /\ Len(ssRNhToRRh_Notif') \in Nat
    BY <1>0, <1>2 DEF RNh, Dequeue
  <2>2. Len(siSHL_Notif) \in Nat /\ Len(ssRNhToRRh_Notif) \in Nat
    BY <1>0
  <2> QED BY <1>0, <2>1, <2>2 DEF Waiting
<1>3. CASE RRhIdle
  <2>1. /\ Len(ssRNhToRRh_Notif') <= Len(ssRNhToRRh_Notif) /\ Len(ssRNhToRRh_Notif') \in Nat
        /\ siSHL_Notif' = siSHL_Notif /\ toeNotifs' = toeNotifs
    BY <1>0, <1>3 DEF RRhIdle, RRhUnchanged, shlVars, Dequeue
  <2>2. Len(siSHL_Notif) \in Nat /\ Len(ssRNhToRRh_Notif) \in Nat
    BY <1>0
  <2> QED BY <1>0, <2>1, <2>2 DEF Waiting
<1>4. CASE MmioEnable \/ ToeServe \/ COnRead \/ TafRead \/ IRb \/ RRm \/ RRhWaitSpace \/ RRhSendDReq
           \/ RRhRequestPart \/ RRhRequestAll \/ RDp \/ UNCHANGED vars
  <2>1. UNCHANGED << siSHL_Notif, ssRNhToRRh_Notif, toeNotifs >>
    BY <1>4 DEF MmioEnable, ToeServe, COnRead, TafRead, TafReadMeta, TafReadData, IRb, RRm,
                RRhWaitSpace, RRhSendDReq, RRhRequestPart, RRhRequestAll, RRhUnchanged, RDp, RDpIdle,
                RDpFwdMeta, RDpFwdStream, RDpSinkMeta, RDpSinkStream, RDp8801, RDpUnchanged,
                vars, shlVars
  <2> QED BY <2>1 DEF Waiting
<1> QED BY <1>1, <1>2, <1>3, <1>4 DEF Next, RRh

\* In particular every byte is accounted for as long as no more segments arrive
\* than the stream behind RNh holds.
THEOREM EveryByteOnce ==
  ASSUME MaxNotifs <= cDepth_RNhToRRh_Notif
  PROVE  Spec => []BytesAccounted
<1>1. Init => Waiting
  BY DEF Init, Waiting
<1>2. TypeOK /\ Waiting /\ [Next]_vars => Waiting'
  BY WaitingStep
<1>3. TypeOK /\ Waiting => ~LosesNotif
  <2> SUFFICES ASSUME TypeOK, Waiting, LosesNotif PROVE FALSE
    OBVIOUS
  <2>1. siSHL_Notif # << >> /\ ~(Len(ssRNhToRRh_Notif) < cDepth_RNhToRRh_Notif)
    BY DEF LosesNotif, RNh, HasRoom
  <2>2. /\ siSHL_Notif \in Seq(Notif) /\ ssRNhToRRh_Notif \in Seq(Notif)
        /\ toeNotifs \in Nat /\ toeNotifs <= MaxNotifs
        /\ MaxNotifs \in Nat /\ cDepth_RNhToRRh_Notif \in Nat
    BY DepthAssumption DEF TypeOK, ShlTypeOK
  <2>3. Len(siSHL_Notif) > 0 /\ Len(siSHL_Notif) \in Nat /\ Len(ssRNhToRRh_Notif) \in Nat
    BY <2>1, <2>2
  <2> QED BY <2>1, <2>2, <2>3 DEF Waiting
<1>4. Spec => [](TypeOK /\ Waiting)
  BY <1>1, <1>2, TypeInvariant, PTL DEF Spec
<1>5. Spec => [][~LosesNotif]_vars
  BY <1>3, <1>4, PTL
<1> QED BY <1>5, OnlyRNhLoses, PTL
=============================================================================
