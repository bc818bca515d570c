------------------------------ MODULE Udp_proofs ------------------------------
(***************************************************************************)
(* Proofs about Udp, for every value of its constants.  Whatever the host  *)
(* does to the enable bit, every variable keeps its type: UdpInv follows   *)
(* the metadata of a datagram from the UOE through both components and     *)
(* back.  Until an interruption the datagrams stay whole and go to the     *)
(* right addressee, the generated ones alternate, and UAF is an echo of    *)
(* two lines: FlowInv says from which datagrams the chunks of every stream *)
(* are cut, and that they are those the metadata announce.                 *)
(***************************************************************************)
EXTENDS Udp, StreamLemmas

-----------------------------------------------------------------------------
(* The metadata at each stage of the way.                                   *)

EchoPorts == DstPorts \ {RECV_MODE_LSN_PORT, XMIT_MODE_LSN_PORT}

InMeta == [dgm : 1..MaxDgms, src : Hosts, dst : DstPorts, dLen : Nat]
EchoMeta == [dgm : 1..MaxDgms, src : Hosts, dst : EchoPorts]
EchoMetaDLen == [dgm : 1..MaxDgms, src : Hosts, dst : EchoPorts, dLen : Nat]
AnswerMeta == [dgm : 1..MaxDgms, src : EchoPorts, dst : Hosts, dLen : Nat]
TestMeta == [dgm : 1..MaxDgms, src : {XMIT_MODE_LSN_PORT} \cap DstPorts, dst : Hosts,
             dLen : Nat]

BitInv == piSHL_Enable \in BOOLEAN /\ interrupted \in BOOLEAN
UoeInv ==
  /\ siSHL_Data \in Seq(Chunk) /\ siSHL_Meta \in Seq(InMeta)
  /\ uoeDgms \in 0..MaxDgms /\ uoeLeft \in Nat /\ uoePort \in Nat
  /\ uoeLeft > 0 => uoeDgms > 0 /\ uoePort \in DstPorts
RdpInv ==
  /\ rdp_fsmState \in {"RDP_IDLE", "RDP_FWD_META", "RDP_FWD_STREAM", "RDP_SINK_STREAM",
                       "RDP_8801"}
  /\ rdp_appMeta \in InMeta \cup {NoDgm}
  /\ rdp_fsmState = "RDP_FWD_META" => rdp_appMeta \in InMeta /\ rdp_appMeta.dst \in EchoPorts
  /\ rdp_fsmState = "RDP_8801" =>
       rdp_appMeta \in InMeta /\ rdp_appMeta.dst = XMIT_MODE_LSN_PORT
ReqInv == ssRDpToWRp_Req \in Seq(TestMeta)
WrpInv ==
  /\ wrp_fsmState \in {"WRP_IDLE", "WRP_STREAM", "WRP_8801"}
  /\ wrp_genChunk \in Payloads \ {"RX"}
  /\ wrp_appDReq \in Nat /\ wrp_dgm \in 0..MaxDgms
  /\ wrp_fsmState = "WRP_8801" =>
       wrp_dgm > 0 /\ wrp_appDReq > 0 /\ XMIT_MODE_LSN_PORT \in DstPorts
OutInv ==
  /\ soSHL_Data \in Seq(Chunk) /\ soSHL_Meta \in Seq(AnswerMeta \cup TestMeta)
  /\ uoeMeta \in MetaDLen \cup {NoDgm} /\ uoeDue \in Int
ToUafInv ==
  /\ ssUSIFToUAF_Data \in Seq(Chunk) /\ ssUSIFToUAF_Meta \in Seq(EchoMeta)
  /\ ssUSIFToUAF_DLen \in Seq(Nat)
FromUafInv == ssUAFToUSIF_Data \in Seq(Chunk) /\ ssUAFToUSIF_Meta \in Seq(AnswerMeta)
RxpInv ==
  /\ rxp_fsmState \in {"RXP_IDLE", "RXP_META", "RXP_DATA", "RXP_DLEN",
                       "RXP_DRAIN_INPUT_FIFOS"}
  /\ rxp_echoMode \in Lines /\ rxp_byteCnt \in Nat
  /\ rxp_fsmState = "RXP_META" => rxp_appMeta \in EchoMeta
RxpOutInv ==
  /\ ssRXp_Data \in [Lines -> Seq(Chunk)]
  /\ ssRXp_Meta \in [Lines -> Seq(EchoMeta)] /\ ssRXp_DLen \in [Lines -> Seq(Nat)]
EsfOutInv == ssESfToTXp_Data \in Seq(Chunk) /\ ssESfToTXp_Meta \in Seq(EchoMetaDLen)
TxpInv ==
  /\ txp_fsmState \in {"TXP_IDLE", "TXP_META", "TXP_DATA", "TXP_DRAIN_INPUT_FIFOS"}
  /\ txp_echoMode \in Lines /\ txp_lenCnt \in Int
  /\ txp_stalled \in {"NONE", "EPt_Data", "EPt_Meta"}
  /\ txp_fsmState = "TXP_META" => txp_appMeta \in EchoMetaDLen

UdpInv ==
  /\ BitInv /\ UoeInv /\ RdpInv /\ ReqInv /\ WrpInv /\ OutInv
  /\ ToUafInv /\ FromUafInv /\ RxpInv /\ RxpOutInv /\ EsfOutInv /\ TxpInv

-----------------------------------------------------------------------------
LEMMA Ports ==
  /\ DstPorts \subseteq Nat /\ EchoPorts \subseteq DstPorts
  /\ DstPorts \subseteq Socks /\ Hosts \subseteq Socks
  BY UdpPortAssumption DEF EchoPorts, Socks

LEMMA HostOf == ASSUME NEW d \in 1..MaxDgms PROVE Senders[d] \in Hosts /\ Targets[d] \in Hosts
  BY UdpHostAssumption

\* Every kind of metadata is one.
LEMMA MetaKinds ==
  /\ InMeta \subseteq MetaDLen /\ EchoMetaDLen \subseteq MetaDLen
  /\ AnswerMeta \subseteq MetaDLen /\ TestMeta \subseteq MetaDLen
  /\ EchoMeta \subseteq Meta
  BY Ports DEF InMeta, EchoMetaDLen, AnswerMeta, TestMeta, EchoMeta, MetaDLen, Meta

\* The same of a stream that a line has of its own.
LEMMA LineOps ==
  ASSUME NEW S, NEW f \in [Lines -> Seq(S)], NEW p \in Lines
  PROVE  /\ \A x \in S : [f EXCEPT ![p] = Append(@, x)] \in [Lines -> Seq(S)]
         /\ f[p] # << >> =>
              Head(f[p]) \in S /\ [f EXCEPT ![p] = Tail(@)] \in [Lines -> Seq(S)]
  BY QueueOps

\* A chunk of a datagram of which bytes remain is one.
LEMMA ChunkOfOK ==
  ASSUME NEW d \in 1..MaxDgms, NEW p \in DstPorts, NEW x \in Payloads, NEW n \in Nat, n > 0
  PROVE  ChunkOf(d, p, x, n) \in Chunk /\ LenOfChunk(n) \in 1..n
  BY DEF ChunkOf, LenOfChunk, Chunk, ARW_BYTES

LEMMA PartsKept ==
  ASSUME UdpInv
  PROVE  /\ UNCHANGED << piSHL_Enable, interrupted >> => BitInv'
         /\ UNCHANGED uoeInVars => UoeInv'
         /\ UNCHANGED rdpVars => RdpInv'
         /\ UNCHANGED ssRDpToWRp_Req => ReqInv'
         /\ UNCHANGED wrpVars => WrpInv'
         /\ UNCHANGED << soSHL_Data, soSHL_Meta, uoeOutVars >> => OutInv'
         /\ UNCHANGED toUafVars => ToUafInv'
         /\ UNCHANGED fromUafVars => FromUafInv'
         /\ UNCHANGED rxpVars => RxpInv'
         /\ UNCHANGED rxpOutVars => RxpOutInv'
         /\ UNCHANGED esfOutVars => EsfOutInv'
         /\ UNCHANGED txpVars => TxpInv'
<1> USE DEF UdpInv
<1>1. UNCHANGED << piSHL_Enable, interrupted >> => BitInv'
  BY DEF BitInv
<1>2. UNCHANGED uoeInVars => UoeInv'
  BY DEF UoeInv, uoeInVars
<1>3. UNCHANGED rdpVars => RdpInv'
  BY DEF RdpInv, rdpVars
<1>4. UNCHANGED ssRDpToWRp_Req => ReqInv'
  BY DEF ReqInv
<1>5. UNCHANGED wrpVars => WrpInv'
  BY DEF WrpInv, wrpVars
<1>6. UNCHANGED << soSHL_Data, soSHL_Meta, uoeOutVars >> => OutInv'
  BY DEF OutInv, uoeOutVars
<1>7. UNCHANGED toUafVars => ToUafInv'
  BY DEF ToUafInv, toUafVars
<1>8. UNCHANGED fromUafVars => FromUafInv'
  BY DEF FromUafInv, fromUafVars
<1>9. UNCHANGED rxpVars => RxpInv'
  BY DEF RxpInv, rxpVars
<1>10. UNCHANGED rxpOutVars => RxpOutInv'
  BY DEF RxpOutInv, rxpOutVars
<1>11. UNCHANGED esfOutVars => EsfOutInv'
  BY DEF EsfOutInv, esfOutVars
<1>12. UNCHANGED txpVars => TxpInv'
  BY DEF TxpInv, txpVars
<1> QED
  BY <1>1, <1>2, <1>3, <1>4, <1>5, <1>6, <1>7, <1>8, <1>9, <1>10, <1>11, <1>12

LEMMA InvInit == ASSUME UdpInit PROVE UdpInv
<1> USE Ports DEF UdpInit
<1>0. BitInv
  BY Zenon DEF LinkInit, BitInv
<1>1. ToUafInv /\ FromUafInv
  BY DEF LinkInit, ToUafInv, FromUafInv
<1>2. UoeInv /\ RdpInv /\ ReqInv
  BY UdpDepthAssumption DEF UsifInit, UoeInv, RdpInv, ReqInv, ECHO_PATH_THRU_PORT
<1>3. WrpInv /\ OutInv
  BY UdpDepthAssumption DEF UsifInit, WrpInv, OutInv, Payloads
<1>4. RxpInv /\ RxpOutInv /\ EsfOutInv /\ TxpInv
  BY DEF UafInit, RxpInv, RxpOutInv, EsfOutInv, TxpInv, Lines
<1> QED BY <1>0, <1>1, <1>2, <1>3, <1>4 DEF UdpInv

-----------------------------------------------------------------------------
(* The steps of the environment.                                            *)

LEMMA MmioStep == ASSUME UdpInv, Mmio PROVE UdpInv'
<1>1. BitInv'
  <2>1. piSHL_Enable' \in BOOLEAN
    BY Zenon DEF Mmio, MmioClear, MmioSet
  <2>2. interrupted' \in BOOLEAN
    <3>1. interrupted \in BOOLEAN
      BY DEF UdpInv, BitInv
    <3>2. CASE MmioClear
      BY Zenon, <3>2 DEF MmioClear
    <3>3. CASE MmioSet
      BY Zenon, <3>1, <3>3 DEF MmioSet
    <3> QED BY Zenon, <3>2, <3>3 DEF Mmio
  <2> QED BY <2>1, <2>2 DEF BitInv
<1>2. UNCHANGED << toUafVars, fromUafVars, usifVars, uafVars >>
  BY DEF Mmio
<1> QED BY <1>1, <1>2, PartsKept DEF UdpInv, usifVars, uafVars

LEMMA UoeStep ==
  ASSUME UdpInv, UoeWrites \/ UoeData \/ UoeReads, UNCHANGED << uafVars, interrupted >>
  PROVE  UdpInv'
<1>1. ASSUME NEW port \in DstPorts, NEW n \in DatLens, UoeAnnounce(port, n)
      PROVE  UdpInv'
  <2> DEFINE meta == [dgm |-> uoeDgms', src |-> Senders[uoeDgms'], dst |-> port, dLen |-> n]
  <2>1. uoeDgms' \in 1..MaxDgms /\ n \in Nat /\ n > 0
    BY <1>1, UdpLenAssumption, UdpDepthAssumption DEF UoeAnnounce, UdpInv, UoeInv
  <2>2. meta \in InMeta
    BY <2>1, HostOf DEF InMeta
  <2>3. siSHL_Meta' \in Seq(InMeta)
    BY <1>1, <2>2, QueueOps DEF UoeAnnounce, UdpInv, UoeInv
  <2>4. UoeInv'
    BY <1>1, <2>1, <2>3, Ports DEF UoeAnnounce, UdpInv, UoeInv
  <2> QED BY <1>1, <2>4, PartsKept DEF UoeAnnounce, UdpInv, linkVars, uafVars
<1>2. CASE UoeData
  <2>1. ChunkOf(uoeDgms, uoePort, "RX", uoeLeft) \in Chunk /\ LenOfChunk(uoeLeft) \in 1..uoeLeft
    BY <1>2, ChunkOfOK DEF UoeData, UdpInv, UoeInv, Payloads
  <2>2. siSHL_Data' \in Seq(Chunk)
    BY <1>2, <2>1, QueueOps DEF UoeData, UdpInv, UoeInv
  <2>3. UoeInv'
    BY <1>2, <2>1, <2>2 DEF UoeData, UdpInv, UoeInv
  <2> QED BY <1>2, <2>3, PartsKept DEF UoeData, UdpInv, linkVars, uafVars
<1>3. CASE UoeTakesMeta
  <2>1. Head(soSHL_Meta) \in MetaDLen /\ soSHL_Meta' \in Seq(AnswerMeta \cup TestMeta)
    BY <1>3, QueueOps, MetaKinds DEF UoeTakesMeta, Dequeue, UdpInv, OutInv
  <2>2. Head(soSHL_Meta).dLen \in Int
    BY <2>1 DEF MetaDLen
  <2>3. OutInv'
    BY <1>3, <2>1, <2>2 DEF UoeTakesMeta, UdpInv, OutInv
  <2> QED BY <1>3, <2>3, PartsKept DEF UoeTakesMeta, UdpInv, linkVars, uafVars
<1>4. CASE UoeTakesData
  <2>1. Head(soSHL_Data) \in Chunk /\ soSHL_Data' \in Seq(Chunk)
    BY <1>4, QueueOps DEF UoeTakesData, Dequeue, UdpInv, OutInv
  <2>2. Head(soSHL_Data).len \in Int
    BY <2>1 DEF Chunk, ARW_BYTES
  <2>3. uoeDue' \in Int
    <3> DEFINE chunk == Head(soSHL_Data)
    <3>1. uoeDue \in Int /\ uoeDue' = IF chunk.tlast THEN 0 ELSE uoeDue - chunk.len
      BY <1>4 DEF UoeTakesData, UdpInv, OutInv
    <3> HIDE DEF chunk
    <3> QED BY <2>2, <3>1 DEF chunk
  <2>4. OutInv'
    BY <1>4, <2>1, <2>3 DEF UoeTakesData, UdpInv, OutInv
  <2> QED BY <1>4, <2>4, PartsKept DEF UoeTakesData, UdpInv, linkVars, uafVars
<1> QED BY <1>1, <1>2, <1>3, <1>4 DEF UoeWrites, UoeReads

-----------------------------------------------------------------------------
(* The steps of USIF.                                                       *)

LEMMA RDpStep ==
  ASSUME UdpInv, RDp, UNCHANGED << uafVars, interrupted >>
  PROVE  UdpInv'
<1> USE DEF RDpUnchanged, uafVars, Dequeue
<1>a. ASSUME RDpUnchanged, UoeInv', RdpInv', ReqInv', ToUafInv'
      PROVE  UdpInv'
  BY <1>a, PartsKept DEF UdpInv
<1>b. ASSUME RDpUnchanged, siSHL_Data' \in Seq(Chunk), siSHL_Meta' \in Seq(InMeta)
      PROVE  UoeInv'
  BY <1>b DEF UdpInv, UoeInv
<1>1. CASE RdpIdle
  <2>1. Head(siSHL_Meta) \in InMeta /\ Tail(siSHL_Meta) \in Seq(InMeta)
    BY <1>1, QueueOps DEF RdpIdle, UdpInv, UoeInv
  <2>2. RdpInv'
    <3>1. /\ rdp_appMeta' \in InMeta /\ rdp_appMeta'.dst \in DstPorts
          /\ rdp_fsmState' = RdpTask(rdp_appMeta'.dst)
      BY <1>1, <2>1 DEF RdpIdle, InMeta
    <3> QED BY <3>1 DEF RdpInv, RdpTask, EchoPorts
  <2>3. UoeInv' /\ ReqInv' /\ ToUafInv'
    BY <1>1, <2>1, <1>b, PartsKept DEF RdpIdle, UdpInv, UoeInv
  <2> QED BY <1>1, <1>a, <2>2, <2>3 DEF RdpIdle
<1>2. CASE RdpFwdMeta
  <2> DEFINE meta == [dgm |-> rdp_appMeta.dgm, src |-> rdp_appMeta.src,
                      dst |-> rdp_appMeta.dst]
  <2>1. meta \in EchoMeta /\ rdp_appMeta.dLen \in Nat
    BY <1>2 DEF RdpFwdMeta, UdpInv, RdpInv, InMeta, EchoMeta
  <2>2. ToUafInv'
    <3>1. ssUSIFToUAF_Meta' = Append(ssUSIFToUAF_Meta, meta)
      BY <1>2 DEF RdpFwdMeta
    <3> HIDE DEF meta
    <3> QED BY <1>2, <2>1, <3>1, QueueOps DEF RdpFwdMeta, UdpInv, ToUafInv
  <2>3. RdpInv'
    BY <1>2 DEF RdpFwdMeta, UdpInv, RdpInv
  <2>4. UoeInv' /\ ReqInv'
    BY <1>2, <1>b, PartsKept DEF RdpFwdMeta, UdpInv, UoeInv
  <2> QED BY <1>2, <1>a, <2>2, <2>3, <2>4 DEF RdpFwdMeta
<1>c. ASSUME NEW next \in {"RDP_FWD_STREAM", "RDP_SINK_STREAM"}, RdpTakesChunk(next)
      PROVE  UoeInv' /\ RdpInv' /\ Head(siSHL_Data) \in Chunk
  <2>1. Head(siSHL_Data) \in Chunk /\ siSHL_Data' \in Seq(Chunk)
    BY <1>c, QueueOps DEF RdpTakesChunk, UdpInv, UoeInv
  <2>2. UoeInv'
    BY <1>c, <2>1, <1>b DEF RdpTakesChunk, UdpInv, UoeInv
  <2>3. RdpInv'
    <3>1. rdp_fsmState' \in {"RDP_IDLE", "RDP_FWD_STREAM", "RDP_SINK_STREAM"}
      BY <1>c DEF RdpTakesChunk
    <3> QED BY <1>c, <3>1 DEF RdpTakesChunk, UdpInv, RdpInv
  <2> QED BY <2>1, <2>2, <2>3
<1>3. CASE RdpFwdStream
  <2>1. UoeInv' /\ RdpInv' /\ Head(siSHL_Data) \in Chunk
    BY <1>3, <1>c DEF RdpFwdStream
  <2>2. ToUafInv'
    BY <1>3, <2>1, QueueOps DEF RdpFwdStream, RdpTakesChunk, UdpInv, ToUafInv
  <2>3. ReqInv'
    BY <1>3, PartsKept DEF RdpFwdStream
  <2> QED BY <1>3, <1>a, <2>1, <2>2, <2>3 DEF RdpFwdStream, RdpTakesChunk
<1>4. CASE RdpSinkStream
  <2>1. UoeInv' /\ RdpInv'
    BY <1>4, <1>c DEF RdpSinkStream
  <2>2. ToUafInv' /\ ReqInv'
    BY <1>4, PartsKept DEF RdpSinkStream, RdpTakesChunk, toUafVars
  <2> QED BY <1>4, <1>a, <2>1, <2>2 DEF RdpSinkStream, RdpTakesChunk
<1>5. ASSUME NEW count \in TxCounts, Rdp8801(count) PROVE UdpInv'
  <2> DEFINE req == [dgm |-> rdp_appMeta.dgm, src |-> rdp_appMeta.dst,
                     dst |-> Targets[Head(siSHL_Data).dgm], dLen |-> count]
  <2>1. req \in TestMeta
    <3>1. Head(siSHL_Data).dgm \in 1..MaxDgms
      <4>1. siSHL_Data \in Seq(Chunk) /\ siSHL_Data # << >>
        BY <1>5 DEF Rdp8801, RdpTakesChunk, UdpInv, UoeInv
      <4>2. Head(siSHL_Data) \in Chunk
        BY <4>1, QueueOps
      <4> QED BY <4>2 DEF Chunk
    <3> QED BY <1>5, <3>1, HostOf, UdpLenAssumption DEF Rdp8801, UdpInv, RdpInv, InMeta, TestMeta
  <2>2. ReqInv'
    <3>1. ssRDpToWRp_Req' = Append(ssRDpToWRp_Req, req)
      BY <1>5 DEF Rdp8801
    <3> HIDE DEF req
    <3> QED BY <2>1, <3>1, QueueOps DEF UdpInv, ReqInv
  <2>3. UoeInv' /\ RdpInv'
    BY <1>5, <1>c DEF Rdp8801
  <2>4. ToUafInv'
    BY <1>5, PartsKept DEF Rdp8801, RdpTakesChunk, toUafVars
  <2> QED BY <1>5, <1>a, <2>2, <2>3, <2>4 DEF Rdp8801, RdpTakesChunk
<1> QED BY <1>1, <1>2, <1>3, <1>4, <1>5 DEF RDp

LEMMA WRpStep ==
  ASSUME UdpInv, WRp, UNCHANGED << uafVars, interrupted >>
  PROVE  UdpInv'
<1> USE DEF WRpUnchanged, uafVars, Dequeue
<1>a. ASSUME WRpUnchanged, ReqInv', WrpInv', OutInv', FromUafInv'
      PROVE  UdpInv'
  BY <1>a, PartsKept DEF UdpInv
<1>b. ASSUME WRpUnchanged, soSHL_Data' \in Seq(Chunk),
             soSHL_Meta' \in Seq(AnswerMeta \cup TestMeta)
      PROVE  OutInv'
  BY <1>b DEF UdpInv, OutInv, uoeOutVars
<1>1. CASE WrpIdleTest
  <2> DEFINE req == Head(ssRDpToWRp_Req)
  <2>1. req \in TestMeta /\ Tail(ssRDpToWRp_Req) \in Seq(TestMeta)
    BY <1>1, QueueOps DEF WrpIdleTest, UdpInv, ReqInv
  <2>2. /\ soSHL_Meta' = Append(soSHL_Meta, req) /\ UNCHANGED soSHL_Data
        /\ wrp_appDReq' = req.dLen /\ wrp_dgm' = req.dgm
        /\ \/ req.dLen # 0 /\ wrp_fsmState' = "WRP_8801" /\ wrp_genChunk' = "GEN_CHK0"
           \/ req.dLen = 0 /\ UNCHANGED << wrp_fsmState, wrp_genChunk >>
        /\ wrp_fsmState = "WRP_IDLE" /\ ssRDpToWRp_Req' = Tail(ssRDpToWRp_Req)
        /\ UNCHANGED fromUafVars /\ WRpUnchanged
    BY <1>1 DEF WrpIdleTest
  <2> HIDE DEF req
  <2>3. req.dLen \in Nat /\ req.dgm \in 1..MaxDgms /\ XMIT_MODE_LSN_PORT \in DstPorts
    BY <2>1 DEF TestMeta
  <2>4. OutInv'
    <3>1. soSHL_Meta' \in Seq(AnswerMeta \cup TestMeta)
      BY <2>1, <2>2, QueueOps DEF UdpInv, OutInv
    <3> QED BY <2>2, <3>1, <1>b DEF UdpInv, OutInv
  <2>5. WrpInv'
    BY <2>2, <2>3 DEF UdpInv, WrpInv, Payloads
  <2> QED BY <1>a, <2>1, <2>2, <2>4, <2>5, PartsKept DEF ReqInv
<1>2. CASE WrpIdleUaf
  <2>1. /\ Head(ssUAFToUSIF_Meta) \in AnswerMeta
        /\ Tail(ssUAFToUSIF_Meta) \in Seq(AnswerMeta)
    BY <1>2, QueueOps DEF WrpIdleUaf, UdpInv, FromUafInv
  <2>2. soSHL_Meta' \in Seq(AnswerMeta \cup TestMeta)
    BY <1>2, <2>1, QueueOps DEF WrpIdleUaf, UdpInv, OutInv
  <2>3. OutInv' /\ FromUafInv'
    BY <1>2, <2>1, <2>2, <1>b DEF WrpIdleUaf, UdpInv, OutInv, FromUafInv
  <2>4. WrpInv' /\ ReqInv'
    BY <1>2, PartsKept DEF WrpIdleUaf, UdpInv, WrpInv
  <2> QED BY <1>2, <1>a, <2>3, <2>4 DEF WrpIdleUaf
<1>3. CASE WrpStream
  <2>1. Head(ssUAFToUSIF_Data) \in Chunk /\ Tail(ssUAFToUSIF_Data) \in Seq(Chunk)
    BY <1>3, QueueOps DEF WrpStream, UdpInv, FromUafInv
  <2>2. soSHL_Data' \in Seq(Chunk)
    BY <1>3, <2>1, QueueOps DEF WrpStream, UdpInv, OutInv
  <2>3. OutInv' /\ FromUafInv'
    BY <1>3, <2>1, <2>2, <1>b DEF WrpStream, UdpInv, OutInv, FromUafInv
  <2>4. WrpInv' /\ ReqInv'
    BY <1>3, PartsKept DEF WrpStream, UdpInv, WrpInv
  <2> QED BY <1>3, <1>a, <2>3, <2>4 DEF WrpStream
<1>4. CASE Wrp8801
  <2>1. /\ wrp_dgm \in 1..MaxDgms /\ wrp_appDReq \in Nat /\ wrp_appDReq > 0
        /\ XMIT_MODE_LSN_PORT \in DstPorts /\ wrp_genChunk \in Payloads
    BY <1>4, UdpDepthAssumption DEF Wrp8801, UdpInv, WrpInv
  <2>2. ChunkOf(wrp_dgm, XMIT_MODE_LSN_PORT, wrp_genChunk, wrp_appDReq) \in Chunk
    BY <2>1, ChunkOfOK
  <2>3. OutInv'
    BY <1>4, <2>2, <1>b, QueueOps DEF Wrp8801, UdpInv, OutInv
  <2>4. WrpInv'
    <3>1. wrp_genChunk' \in Payloads \ {"RX"}
      BY <1>4 DEF Wrp8801, NextGenChunk, Payloads
    <3>2. /\ wrp_appDReq' \in Nat
          /\ wrp_fsmState' \in {"WRP_IDLE", "WRP_8801"}
          /\ wrp_fsmState' = "WRP_8801" => wrp_appDReq' > 0
      BY <1>4, <2>1 DEF Wrp8801, IsLastChunk, ARW_BYTES
    <3> QED BY <1>4, <2>1, <3>1, <3>2 DEF Wrp8801, UdpInv, WrpInv
  <2>5. FromUafInv' /\ ReqInv'
    BY <1>4, PartsKept DEF Wrp8801
  <2> QED BY <1>4, <1>a, <2>3, <2>4, <2>5 DEF Wrp8801
<1> QED BY <1>1, <1>2, <1>3, <1>4 DEF WRp

-----------------------------------------------------------------------------
(* The steps of UAF.                                                        *)

LEMMA RXpStep ==
  ASSUME UdpInv, RXp, UNCHANGED << usifVars, interrupted >>
  PROVE  UdpInv'
<1> USE DEF RXpUnchanged, usifVars, Dequeue
<1>a. ASSUME RXpUnchanged, ToUafInv', RxpInv', RxpOutInv'
      PROVE  UdpInv'
  BY <1>a, PartsKept DEF UdpInv
<1>1. CASE RxpDisabled
  <2>1. RxpInv'
    BY <1>1 DEF RxpDisabled, UdpInv, RxpInv
  <2> QED BY <1>1, <2>1, <1>a, PartsKept DEF RxpDisabled
<1>2. CASE RxpDrain
  <2>1. ToUafInv' /\ rxp_fsmState' \in {rxp_fsmState, "RXP_IDLE"}
    <3>1. ASSUME ssUSIFToUAF_Data # << >>
          PROVE  ToUafInv' /\ rxp_fsmState' = rxp_fsmState
      BY <1>2, <3>1, QueueOps DEF RxpDrain, UdpInv, ToUafInv
    <3>2. ASSUME ssUSIFToUAF_Data = << >>, ssUSIFToUAF_Meta # << >>
          PROVE  ToUafInv' /\ rxp_fsmState' = rxp_fsmState
      BY <1>2, <3>2, QueueOps DEF RxpDrain, UdpInv, ToUafInv
    <3>3. ASSUME ssUSIFToUAF_Data = << >>, ssUSIFToUAF_Meta = << >>, ssUSIFToUAF_DLen # << >>
          PROVE  ToUafInv' /\ rxp_fsmState' = rxp_fsmState
      BY <1>2, <3>3, QueueOps DEF RxpDrain, UdpInv, ToUafInv
    <3>4. ASSUME ssUSIFToUAF_Data = << >>, ssUSIFToUAF_Meta = << >>, ssUSIFToUAF_DLen = << >>
          PROVE  ToUafInv' /\ rxp_fsmState' = "RXP_IDLE"
      BY <1>2, <3>4, PartsKept DEF RxpDrain
    <3> QED BY <3>1, <3>2, <3>3, <3>4
  <2>2. RxpInv'
    BY <1>2, <2>1 DEF RxpDrain, UdpInv, RxpInv
  <2> QED BY <1>2, <2>1, <2>2, <1>a, PartsKept DEF RxpDrain
<1>3. CASE RxpIdle
  <2>1. /\ Head(ssUSIFToUAF_Meta) \in EchoMeta /\ Tail(ssUSIFToUAF_Meta) \in Seq(EchoMeta)
        /\ Tail(ssUSIFToUAF_DLen) \in Seq(Nat)
    BY <1>3, QueueOps DEF RxpIdle, UdpInv, ToUafInv
  <2>2. ToUafInv'
    BY <1>3, <2>1 DEF RxpIdle, UdpInv, ToUafInv
  <2>3. RxpInv'
    BY <1>3, <2>1 DEF RxpIdle, RxpByteCnt, EchoLine, Lines, RxpInv
  <2> QED BY <1>3, <2>2, <2>3, <1>a, PartsKept DEF RxpIdle
<1>4. CASE RxpMeta
  <2>1. rxp_echoMode \in Lines /\ rxp_appMeta \in EchoMeta
    BY <1>4 DEF RxpMeta, UdpInv, RxpInv
  <2>2. ssRXp_Meta' \in [Lines -> Seq(EchoMeta)]
    BY <1>4, <2>1, LineOps DEF RxpMeta, UdpInv, RxpOutInv
  <2>3. RxpOutInv'
    BY <1>4, <2>2 DEF RxpMeta, UdpInv, RxpOutInv
  <2>4. RxpInv'
    BY <1>4 DEF RxpMeta, UdpInv, RxpInv
  <2> QED BY <1>4, <2>3, <2>4, <1>a, PartsKept DEF RxpMeta
<1>5. CASE RxpData
  <2> DEFINE chunk == Head(ssUSIFToUAF_Data)
  <2>1. chunk \in Chunk /\ Tail(ssUSIFToUAF_Data) \in Seq(Chunk)
    BY <1>5, QueueOps DEF RxpData, UdpInv, ToUafInv
  <2>2. rxp_echoMode \in Lines /\ rxp_byteCnt \in Nat
    BY DEF UdpInv, RxpInv
  <2>3. ssRXp_Data' \in [Lines -> Seq(Chunk)]
    <3>1. ssRXp_Data' = [ssRXp_Data EXCEPT ![rxp_echoMode] = Append(@, chunk)]
      BY <1>5 DEF RxpData
    <3> HIDE DEF chunk
    <3> QED BY <3>1, <2>1, <2>2, LineOps DEF UdpInv, RxpOutInv
  <2>4. RxpOutInv'
    BY <1>5, <2>3 DEF RxpData, UdpInv, RxpOutInv
  <2>5. RxpInv'
    <3>1. chunk.len \in Nat
      BY <2>1 DEF Chunk, ARW_BYTES
    <3>2. /\ rxp_byteCnt' = rxp_byteCnt + chunk.len
          /\ rxp_fsmState' \in {"RXP_DLEN", "RXP_DATA"}
          /\ UNCHANGED rxp_echoMode
      BY <1>5 DEF RxpData
    <3> HIDE DEF chunk
    <3>3. rxp_byteCnt' \in Nat
      BY <2>2, <3>1, <3>2
    <3> QED BY <2>2, <3>2, <3>3 DEF RxpInv
  <2>6. ToUafInv'
    BY <1>5, <2>1 DEF RxpData, UdpInv, ToUafInv
  <2> QED BY <1>5, <2>4, <2>5, <2>6, <1>a DEF RxpData
<1>6. CASE RxpDLen
  <2>1. rxp_echoMode \in Lines /\ rxp_byteCnt \in Nat
    BY DEF UdpInv, RxpInv
  <2>2. ssRXp_DLen' \in [Lines -> Seq(Nat)]
    BY <1>6, <2>1, LineOps DEF RxpDLen, UdpInv, RxpOutInv
  <2>3. RxpOutInv'
    BY <1>6, <2>2 DEF RxpDLen, UdpInv, RxpOutInv
  <2>4. RxpInv'
    BY <1>6 DEF RxpDLen, UdpInv, RxpInv
  <2> QED BY <1>6, <2>3, <2>4, <1>a, PartsKept DEF RxpDLen
<1> QED BY <1>1, <1>2, <1>3, <1>4, <1>5, <1>6 DEF RXp

LEMMA ESfStep ==
  ASSUME UdpInv, ESf, UNCHANGED << usifVars, interrupted >>
  PROVE  UdpInv'
<1> USE DEF Dequeue
<1>0. "ESF" \in Lines
  BY DEF Lines
<1>1. ssRXp_Data' \in [Lines -> Seq(Chunk)] /\ ssESfToTXp_Data' \in Seq(Chunk)
  <2>1. CASE EsfMovesData
    <3>1. /\ Head(ssRXp_Data["ESF"]) \in Chunk
          /\ [ssRXp_Data EXCEPT !["ESF"] = Tail(@)] \in [Lines -> Seq(Chunk)]
      BY <2>1, <1>0, LineOps DEF EsfMovesData, UdpInv, RxpOutInv
    <3>2. /\ ssESfToTXp_Data' = Append(ssESfToTXp_Data, Head(ssRXp_Data["ESF"]))
          /\ ssRXp_Data' = [ssRXp_Data EXCEPT !["ESF"] = Tail(@)]
      BY <2>1 DEF ESf
    <3>3. ssESfToTXp_Data' \in Seq(Chunk)
      BY <3>1, <3>2, QueueOps DEF UdpInv, EsfOutInv
    <3> QED BY <3>1, <3>2, <3>3
  <2>2. CASE ~EsfMovesData
    BY <2>2 DEF ESf, UdpInv, RxpOutInv, EsfOutInv
  <2> QED BY <2>1, <2>2
<1>2. /\ ssRXp_Meta' \in [Lines -> Seq(EchoMeta)] /\ ssRXp_DLen' \in [Lines -> Seq(Nat)]
      /\ ssESfToTXp_Meta' \in Seq(EchoMetaDLen)
  <2>1. CASE EsfMovesMeta
    <3> DEFINE meta == Head(ssRXp_Meta["ESF"])
               whole == [dgm |-> meta.dgm, src |-> meta.src, dst |-> meta.dst,
                         dLen |-> Head(ssRXp_DLen["ESF"])]
    <3>1. meta \in EchoMeta /\ [ssRXp_Meta EXCEPT !["ESF"] = Tail(@)] \in [Lines -> Seq(EchoMeta)]
      BY <2>1, <1>0, LineOps DEF EsfMovesMeta, UdpInv, RxpOutInv
    <3>2. /\ Head(ssRXp_DLen["ESF"]) \in Nat
          /\ [ssRXp_DLen EXCEPT !["ESF"] = Tail(@)] \in [Lines -> Seq(Nat)]
      BY <2>1, <1>0, LineOps DEF EsfMovesMeta, UdpInv, RxpOutInv
    <3>3. whole \in EchoMetaDLen
      BY <3>1, <3>2 DEF EchoMeta, EchoMetaDLen
    <3>4. ssESfToTXp_Meta' = Append(ssESfToTXp_Meta, whole)
      BY <2>1 DEF ESf
    <3>5. ssESfToTXp_Meta' \in Seq(EchoMetaDLen)
      <4> HIDE DEF whole
      <4> QED BY <3>3, <3>4, QueueOps DEF UdpInv, EsfOutInv
    <3> QED BY <2>1, <3>1, <3>2, <3>5 DEF ESf
  <2>2. CASE ~EsfMovesMeta
    BY <2>2 DEF ESf, UdpInv, RxpOutInv, EsfOutInv
  <2> QED BY <2>1, <2>2
<1>3. RxpOutInv' /\ EsfOutInv'
  BY <1>1, <1>2 DEF RxpOutInv, EsfOutInv
<1>4. UNCHANGED << linkVars, rxpVars, txpVars >>
  BY DEF ESf
<1> QED BY <1>3, <1>4, PartsKept DEF UdpInv, linkVars, usifVars

LEMMA TXpStep ==
  ASSUME UdpInv, TXp, UNCHANGED << usifVars, interrupted >>
  PROVE  UdpInv'
<1> USE DEF TXpUnchanged, usifVars, Dequeue
<1>0. "EPT" \in Lines /\ "ESF" \in Lines
  BY DEF Lines
<1>a. ASSUME TXpUnchanged, FromUafInv', RxpOutInv', EsfOutInv', TxpInv'
      PROVE  UdpInv'
  BY <1>a, PartsKept DEF UdpInv
\* What a datagram that starts leaves in the registers.
<1>b. ASSUME NEW line \in Lines, NEW m, NEW n \in Nat, TxpStart(line, m, n),
             m.dgm \in 1..MaxDgms, m.src \in Hosts, m.dst \in EchoPorts, UNCHANGED txp_stalled
      PROVE  TxpInv'
  <2>1. txp_appMeta' \in EchoMetaDLen
    BY <1>b DEF TxpStart, EchoMetaDLen
  <2> QED BY <1>b, <2>1 DEF TxpStart, UdpInv, TxpInv
<1>1. CASE TxpDisabled
  <2>1. TxpInv'
    BY <1>1 DEF TxpDisabled, UdpInv, TxpInv
  <2> QED BY <1>1, <2>1, <1>a, PartsKept DEF TxpDisabled
<1>2. CASE TxpIdleEPt
  <2>1. /\ Head(ssRXp_Meta["EPT"]) \in EchoMeta
        /\ ssRXp_Meta' \in [Lines -> Seq(EchoMeta)]
    BY <1>2, <1>0, LineOps DEF TxpIdleEPt, EPtWaits, UdpInv, RxpOutInv
  <2>2. Head(ssRXp_DLen["EPT"]) \in Nat /\ ssRXp_DLen' \in [Lines -> Seq(Nat)]
    BY <1>2, <1>0, LineOps DEF TxpIdleEPt, EPtWaits, UdpInv, RxpOutInv
  <2>3. RxpOutInv'
    BY <1>2, <2>1, <2>2 DEF TxpIdleEPt, UdpInv, RxpOutInv
  <2>4. TxpInv'
    BY <1>2, <1>0, <2>1, <2>2, <1>b DEF TxpIdleEPt, EchoMeta
  <2> QED BY <1>2, <2>3, <2>4, <1>a, PartsKept DEF TxpIdleEPt
<1>3. CASE TxpIdleESf
  <2>1. Head(ssESfToTXp_Meta) \in EchoMetaDLen /\ Tail(ssESfToTXp_Meta) \in Seq(EchoMetaDLen)
    BY <1>3, QueueOps DEF TxpIdleESf, UdpInv, EsfOutInv
  <2>2. EsfOutInv'
    BY <1>3, <2>1 DEF TxpIdleESf, UdpInv, EsfOutInv
  <2>3. TxpInv'
    BY <1>3, <1>0, <2>1, <1>b DEF TxpIdleESf, EchoMetaDLen
  <2> QED BY <1>3, <2>2, <2>3, <1>a, PartsKept DEF TxpIdleESf
<1>4. CASE TxpMeta
  <2>1. Swapped(txp_appMeta) \in AnswerMeta
    BY <1>4 DEF TxpMeta, UdpInv, TxpInv, Swapped, EchoMetaDLen, AnswerMeta
  <2>2. FromUafInv'
    <3> DEFINE swapped == Swapped(txp_appMeta)
    <3>1. ssUAFToUSIF_Meta' = Append(ssUAFToUSIF_Meta, swapped) /\ UNCHANGED ssUAFToUSIF_Data
      BY <1>4 DEF TxpMeta
    <3> HIDE DEF swapped
    <3> QED BY <2>1, <3>1, QueueOps DEF UdpInv, FromUafInv, swapped
  <2>3. TxpInv'
    BY <1>4 DEF TxpMeta, UdpInv, TxpInv
  <2> QED BY <1>4, <2>2, <2>3, <1>a, PartsKept DEF TxpMeta
<1>5. CASE TxpData
  <2>1. ASSUME NEW chunk \in Chunk, TxpSends(chunk)
        PROVE  FromUafInv' /\ TxpInv'
    <3>1. chunk.len \in Int
      BY DEF Chunk, ARW_BYTES
    <3>2. ssUAFToUSIF_Data' \in Seq(Chunk) /\ UNCHANGED ssUAFToUSIF_Meta
      BY <1>5, <2>1, QueueOps DEF TxpData, TxpSends, UdpInv, FromUafInv
    <3>3. txp_lenCnt' \in Int /\ txp_fsmState' \in {"TXP_IDLE", "TXP_DATA"}
      BY <1>5, <2>1, <3>1 DEF TxpData, TxpSends, UdpInv, TxpInv
    <3>4. TxpInv'
      BY <1>5, <3>3 DEF TxpData, UdpInv, TxpInv
    <3> QED BY <3>2, <3>4 DEF UdpInv, FromUafInv
  <2>2. CASE txp_echoMode = "EPT"
    <3>1. Head(ssRXp_Data["EPT"]) \in Chunk /\ ssRXp_Data' \in [Lines -> Seq(Chunk)]
      <4>1. /\ ssRXp_Data["EPT"] # << >>
            /\ ssRXp_Data' = [ssRXp_Data EXCEPT !["EPT"] = Tail(@)]
        BY <1>5, <2>2 DEF TxpData
      <4> QED BY <1>0, <4>1, LineOps DEF UdpInv, RxpOutInv
    <3>2. RxpOutInv' /\ EsfOutInv'
      BY <1>5, <2>2, <3>1 DEF TxpData, UdpInv, RxpOutInv, EsfOutInv
    <3>3. TxpSends(Head(ssRXp_Data["EPT"]))
      BY <1>5, <2>2 DEF TxpData
    <3> QED BY <1>5, <3>1, <3>2, <3>3, <2>1, <1>a DEF TxpData
  <2>3. CASE txp_echoMode = "ESF"
    <3>1. Head(ssESfToTXp_Data) \in Chunk /\ ssESfToTXp_Data' \in Seq(Chunk)
      BY <1>5, <2>3, QueueOps DEF TxpData, UdpInv, EsfOutInv
    <3>2. RxpOutInv' /\ EsfOutInv'
      BY <1>5, <2>3, <3>1 DEF TxpData, UdpInv, RxpOutInv, EsfOutInv
    <3>3. TxpSends(Head(ssESfToTXp_Data))
      BY <1>5, <2>3 DEF TxpData
    <3> QED BY <1>5, <3>1, <3>2, <3>3, <2>1, <1>a DEF TxpData
  <2> QED BY <1>5, <2>2, <2>3 DEF TxpData
<1>6. CASE TxpDrain
  <2>1. ssRXp_Data' \in [Lines -> Seq(Chunk)] /\ ssRXp_Meta' \in [Lines -> Seq(EchoMeta)]
    <3>1. CASE TxpDrainData
      BY <3>1, <1>0, LineOps DEF TxpDrainData, UdpInv, RxpOutInv
    <3>2. CASE TxpDrainMeta
      BY <3>2, <1>0, LineOps DEF TxpDrainMeta, UdpInv, RxpOutInv
    <3>3. CASE TxpDrainStalls \/ TxpDrainEnds
      BY <3>3 DEF TxpDrainStalls, TxpDrainEnds, UdpInv, RxpOutInv
    <3> QED BY <1>6, <3>1, <3>2, <3>3 DEF TxpDrain
  <2>2. RxpOutInv'
    BY <1>6, <2>1 DEF TxpDrain, UdpInv, RxpOutInv
  <2>3. /\ txp_stalled' \in {"NONE", "EPt_Data", "EPt_Meta"}
        /\ txp_fsmState' \in {"TXP_IDLE", "TXP_DRAIN_INPUT_FIFOS"}
    <3>1. txp_stalled \in {"NONE", "EPt_Data", "EPt_Meta"}
      BY DEF UdpInv, TxpInv
    <3>2. txp_fsmState = "TXP_DRAIN_INPUT_FIFOS"
      BY <1>6 DEF TxpDrain
    <3>3. CASE TxpDrainData \/ TxpDrainMeta
      BY <3>1, <3>2, <3>3 DEF TxpDrainData, TxpDrainMeta
    <3>4. CASE TxpDrainStalls
      BY <3>1, <3>2, <3>4 DEF TxpDrainStalls
    <3>5. CASE TxpDrainEnds
      BY <3>1, <3>2, <3>5 DEF TxpDrainEnds
    <3> QED BY <1>6, <3>3, <3>4, <3>5 DEF TxpDrain
  <2>4. TxpInv'
    BY <1>6, <2>3 DEF TxpDrain, UdpInv, TxpInv
  <2> QED BY <1>6, <2>2, <2>4, <1>a, PartsKept DEF TxpDrain
<1> QED BY <1>1, <1>2, <1>3, <1>4, <1>5, <1>6 DEF TXp

-----------------------------------------------------------------------------
LEMMA UdpStep == ASSUME UdpInv, [UdpNext]_allVars PROVE UdpInv'
<1>1. CASE Mmio
  BY <1>1, MmioStep
<1>2. CASE (UoeWrites \/ UoeData \/ UoeReads) /\ UNCHANGED << uafVars, interrupted >>
  BY <1>2, UoeStep
<1>3. CASE USIF /\ UNCHANGED interrupted
  BY <1>3, RDpStep, WRpStep DEF USIF
<1>4. CASE UAF /\ UNCHANGED interrupted
  BY <1>4, RXpStep, ESfStep, TXpStep DEF UAF
<1>5. CASE UNCHANGED allVars
  <2>1. UNCHANGED << linkVars, usifVars, uafVars, interrupted >>
    BY <1>5 DEF allVars
  <2> QED BY <2>1, PartsKept DEF UdpInv, linkVars, usifVars, uafVars
<1> QED BY <1>1, <1>2, <1>3, <1>4, <1>5 DEF UdpNext

LEMMA InvImpliesTypes == ASSUME UdpInv PROVE TypeOK
<1> USE MetaKinds DEF UdpInv
<1>1. LinkTypeOK /\ interrupted \in BOOLEAN
  BY DEF BitInv, ToUafInv, FromUafInv, LinkTypeOK
<1>2. UsifTypeOK
  BY DEF UoeInv, RdpInv, ReqInv, WrpInv, OutInv, UsifTypeOK
<1>3. UafTypeOK
  BY DEF RxpInv, RxpOutInv, EsfOutInv, TxpInv, UafTypeOK
<1> QED BY <1>1, <1>2, <1>3 DEF TypeOK

\* udp_shell_if.cpp:321-428 and 451-562, udp_app_flash.cpp (pUdpRxPath,
\* pUdpEchoStoreAndForward, pUdpTxPath): every variable of USIF and UAF keeps its type, for every port,
\* length and depth, with the enable bit set and cleared at any time.
THEOREM UdpTypes == UdpSpec => []TypeOK
<1>1. UdpInit => UdpInv
  BY InvInit
<1>2. UdpInv /\ [UdpNext]_allVars => UdpInv'
  BY UdpStep
<1>3. UdpInv => TypeOK
  BY InvImpliesTypes
<1> QED BY <1>1, <1>2, <1>3, PTL DEF UdpSpec

-----------------------------------------------------------------------------
(* The datagrams.  Each stream of chunks carries the datagrams that streams *)
(* of metadata and lengths next to it announce, in the sense of             *)
(* StreamLemmas.  A segment is what is left of a datagram.                  *)

Seg == [dgm : 1..MaxDgms, port : DstPorts, data : Payloads, left : Nat \ {0}]
SegOf(d, p, x, n) == [dgm |-> d, port |-> p, data |-> x, left |-> n]
NoSeg == SegOf(0, 0, "RX", 0)
SomeSeg == Seg \cup {NoSeg}

\* Of a datagram received, of one to echo, of a generated one.
InSeg == {s \in Seg : s.data = "RX"}
EchoSeg == {s \in InSeg : s.port \in EchoPorts}
GenSeg == {s \in Seg : s.port = XMIT_MODE_LSN_PORT /\ s.data # "RX"}

NextData(x) == CASE x = "GEN_CHK0" -> "GEN_CHK1" [] x = "GEN_CHK1" -> "GEN_CHK0" [] OTHER -> x
ChunkAt == [s \in Seg |-> ChunkOf(s.dgm, s.port, s.data, s.left)]
RestOf ==
  [s \in Seg |-> IF s.left > ARW_BYTES
                 THEN SegOf(s.dgm, s.port, NextData(s.data), s.left - ARW_BYTES) ELSE NoSeg]

Cut(q, segs, due) == SegStream(Chunk, Seg, NoSeg, ChunkAt, RestOf, q, segs, due)
With(s, segs) == WithFront(NoSeg, s, segs)

LEMMA SegKinds ==
  /\ NoSeg \notin Seg /\ InSeg \subseteq Seg /\ EchoSeg \subseteq InSeg /\ GenSeg \subseteq Seg
  /\ Seq(InSeg) \subseteq Seq(Seg) /\ Seq(EchoSeg) \subseteq Seq(InSeg)
<1>1. NoSeg \notin Seg
  BY DEF NoSeg, SegOf, Seg
<1>2. InSeg \subseteq Seg /\ EchoSeg \subseteq InSeg /\ GenSeg \subseteq Seg
  BY DEF InSeg, EchoSeg, GenSeg
<1> QED BY <1>1, <1>2, SeqMonotonic

\* What is cut from a segment, and what is left of it.
LEMMA ChunkFields ==
  ASSUME NEW s \in Seg
  PROVE  /\ ChunkAt[s] \in Chunk /\ ChunkAt[s].dgm = s.dgm /\ ChunkAt[s].port = s.port
         /\ ChunkAt[s].data = s.data /\ ChunkAt[s].len = LenOfChunk(s.left)
         /\ ChunkAt[s].tlast <=> s.left <= ARW_BYTES
<1>1. PICK last \in BOOLEAN : last = (s.left <= ARW_BYTES)
  <2>1. s.left \in Nat /\ ARW_BYTES \in Nat
    BY DEF Seg, ARW_BYTES
  <2>2. (s.left <= ARW_BYTES) \in BOOLEAN
    BY <2>1
  <2> QED BY <2>2, Zenon
<1>2. ChunkAt[s] = [dgm |-> s.dgm, port |-> s.port, data |-> s.data,
                    len |-> LenOfChunk(s.left), tlast |-> last]
  BY <1>1, Zenon DEF ChunkAt, ChunkOf
<1>3. LenOfChunk(s.left) \in 1..ARW_BYTES
  BY DEF Seg, LenOfChunk, ARW_BYTES
<1>4. /\ ChunkAt[s] \in Chunk /\ ChunkAt[s].dgm = s.dgm /\ ChunkAt[s].port = s.port
      /\ ChunkAt[s].data = s.data /\ ChunkAt[s].len = LenOfChunk(s.left)
      /\ ChunkAt[s].tlast = last
  BY <1>2, <1>3 DEF Seg, Chunk
<1> QED BY <1>1, <1>4, Zenon

LEMMA RestFields ==
  ASSUME NEW s \in Seg
  PROVE  /\ RestOf[s] \in SomeSeg
         /\ RestOf[s] = NoSeg <=> s.left <= ARW_BYTES
         /\ s.left <= ARW_BYTES => LenOfChunk(s.left) = s.left
         /\ s.left > ARW_BYTES =>
              /\ RestOf[s] = SegOf(s.dgm, s.port, NextData(s.data), s.left - ARW_BYTES)
              /\ RestOf[s] \in Seg /\ LenOfChunk(s.left) = ARW_BYTES
         /\ s \in InSeg => RestOf[s] \in InSeg \cup {NoSeg}
         /\ s \in EchoSeg => RestOf[s] \in EchoSeg \cup {NoSeg}
<1>1. s.left \in Nat /\ s.left > 0
  BY DEF Seg
<1>2. CASE s.left <= ARW_BYTES
  BY <1>1, <1>2 DEF RestOf, SomeSeg, LenOfChunk, ARW_BYTES
<1>3. CASE s.left > ARW_BYTES
  <2>1. RestOf[s] = SegOf(s.dgm, s.port, NextData(s.data), s.left - ARW_BYTES)
    BY <1>3 DEF RestOf
  <2>2. NextData(s.data) \in Payloads /\ (s.data = "RX" => NextData(s.data) = "RX")
    BY DEF NextData, Seg, Payloads
  <2>3. s.left - ARW_BYTES \in Nat \ {0}
    BY <1>1, <1>3 DEF ARW_BYTES
  <2>4. RestOf[s] \in Seg
    BY <2>1, <2>2, <2>3 DEF Seg, SegOf
  <2>5. /\ s \in InSeg => RestOf[s] \in InSeg
        /\ s \in EchoSeg => RestOf[s] \in EchoSeg
    BY <2>1, <2>2, <2>4 DEF InSeg, EchoSeg, SegOf
  <2>6. LenOfChunk(s.left) = ARW_BYTES /\ ~(s.left <= ARW_BYTES)
    BY <1>1, <1>3 DEF LenOfChunk, ARW_BYTES
  <2> QED BY <2>1, <2>4, <2>5, <2>6, SegKinds DEF SomeSeg
<1> QED BY <1>1, <1>2, <1>3 DEF ARW_BYTES

LEMMA UdpRules == SegRules(Chunk, Seg, NoSeg, ChunkAt, RestOf)
<1>1. \A s \in Seg : ChunkAt[s] \in Chunk /\ RestOf[s] \in SomeSeg
  BY ChunkFields, RestFields
<1>2. ChunkAt \in [Seg -> Chunk]
  BY <1>1 DEF ChunkAt
<1>3. RestOf \in [Seg -> Seg \cup {NoSeg}]
  BY <1>1 DEF RestOf, SomeSeg
<1> QED BY <1>2, <1>3, SegKinds DEF SegRules

LEMMA CutTake ==
  ASSUME NEW q, NEW segs \in Seq(Seg), NEW s \in Seg, NEW due, Cut(q, With(s, segs), due), q # << >>
  PROVE  Head(q) = ChunkAt[s] /\ Cut(Tail(q), With(RestOf[s], segs), due)
BY SegTake, UdpRules DEF Cut, With

LEMMA CutPut ==
  ASSUME NEW q, NEW segs, NEW s \in Seg, Cut(q, segs, s)
  PROVE  Cut(Append(q, ChunkAt[s]), segs, RestOf[s])
BY SegWrite, UdpRules DEF Cut

LEMMA CutAnnounce ==
  ASSUME NEW q, NEW segs \in Seq(Seg), NEW s \in SomeSeg, NEW n \in Seg, Cut(q, With(s, segs), NoSeg)
  PROVE  Cut(q, With(s, Append(segs, n)), n)
BY SegAnnounce DEF Cut, With, SomeSeg

LEMMA CutBegin ==
  ASSUME NEW segs \in Seq(Seg), segs # << >>
  PROVE  With(NoSeg, segs) = With(Head(segs), Tail(segs))
BY SegBegin, SegKinds DEF With

LEMMA CutNone ==
  ASSUME NEW q, Cut(q, With(NoSeg, << >>), NoSeg)
  PROVE  q = << >>
BY SegNone, UdpRules DEF Cut, With

-----------------------------------------------------------------------------
(* The metadata that announces a segment, at each stage.                    *)

InMetaOf == [s \in Seg |-> [dgm |-> s.dgm, src |-> Senders[s.dgm], dst |-> s.port, dLen |-> s.left]]
EchoMetaOf == [s \in Seg |-> [dgm |-> s.dgm, src |-> Senders[s.dgm], dst |-> s.port]]
LeftOf == [s \in Seg |-> s.left]
SentOf ==
  [s \in Seg |-> [dgm |-> s.dgm, src |-> s.port,
                  dst |-> Addressee(s.dgm, s.port),
                  dLen |-> s.left]]

-----------------------------------------------------------------------------
(* The flow of the datagrams while nothing is interrupted.                  *)

\* The segment each process is in the middle of: r of RDp, x of RXp (and o the
\* datagram it has announced but not closed with a length), t of TXp, w of
\* WRp and y of the UOE, which reads what the role sends.
RdpAt(r) ==
  /\ r = NoSeg <=> rdp_fsmState = "RDP_IDLE"
  /\ r # NoSeg => r \in InSeg
  /\ rdp_fsmState \in {"RDP_FWD_META", "RDP_FWD_STREAM"} => r \in EchoSeg
  /\ rdp_fsmState \in {"RDP_FWD_META", "RDP_8801"} => rdp_appMeta = InMetaOf[r]
RxpAt(x, o) ==
  /\ x \in EchoSeg \cup {NoSeg} /\ o \in EchoSeg \cup {NoSeg}
  /\ x # NoSeg <=> rxp_fsmState \in {"RXP_META", "RXP_DATA"}
  /\ o # NoSeg <=> rxp_fsmState \in {"RXP_DATA", "RXP_DLEN"}
  /\ x # NoSeg => EchoLine(x.port) = rxp_echoMode
  /\ rxp_fsmState = "RXP_META" => rxp_appMeta = EchoMetaOf[x] /\ rxp_byteCnt = 0
  /\ rxp_fsmState = "RXP_DATA" => rxp_byteCnt + x.left = o.left
  /\ rxp_fsmState = "RXP_DLEN" => rxp_byteCnt = o.left
TxpAt(t) ==
  /\ t \in EchoSeg \cup {NoSeg}
  /\ t # NoSeg <=> txp_fsmState \in {"TXP_META", "TXP_DATA"}
  /\ t # NoSeg => txp_lenCnt = t.left /\ txp_appMeta.dLen # 0
  /\ txp_fsmState = "TXP_META" => txp_appMeta = InMetaOf[t]
WrpAt(w) ==
  /\ w \in SomeSeg
  /\ w = NoSeg <=> wrp_fsmState = "WRP_IDLE"
  /\ wrp_fsmState = "WRP_STREAM" => w \in EchoSeg
  /\ wrp_fsmState = "WRP_8801" =>
       w = SegOf(wrp_dgm, XMIT_MODE_LSN_PORT, wrp_genChunk, wrp_appDReq)

\* The payload of the chunk the UOE takes when 'due' bytes remain.
PayloadAt(meta, due) ==
  IF meta.src # XMIT_MODE_LSN_PORT THEN "RX"
  ELSE IF ((meta.dLen - due) \div ARW_BYTES) % 2 = 0 THEN "GEN_CHK0" ELSE "GEN_CHK1"
UoeAt(y) ==
  /\ y \in SomeSeg /\ uoeDue \in Nat
  /\ y = NoSeg <=> uoeDue = 0
  /\ y # NoSeg =>
       /\ y = SegOf(uoeMeta.dgm, uoeMeta.src, PayloadAt(uoeMeta, uoeDue), uoeDue)
       /\ uoeMeta.dLen \in Nat
       /\ uoeMeta.src # RECV_MODE_LSN_PORT
       /\ uoeMeta.dst = Addressee(uoeMeta.dgm, uoeMeta.src)

\* The streams: d is due, what the writer has still to write.
InStage(r, segs) ==
  /\ siSHL_Meta = Image(InMetaOf, segs)
  /\ Cut(siSHL_Data, With(r, segs),
         IF uoeLeft = 0 THEN NoSeg ELSE SegOf(uoeDgms, uoePort, "RX", uoeLeft))
ToUafStage(d, x, segs) ==
  /\ ssUSIFToUAF_Meta = Image(EchoMetaOf, segs) /\ ssUSIFToUAF_DLen = Image(LeftOf, segs)
  /\ Cut(ssUSIFToUAF_Data, With(x, segs), d)
FromUafStage(d, w, segs) ==
  /\ ssUAFToUSIF_Meta = Image(SentOf, segs)
  /\ Cut(ssUAFToUSIF_Data, With(w, segs), d)
OutSeg == EchoSeg \cup {s \in GenSeg : s.data = "GEN_CHK0"}
OutStage(d, y, segs) ==
  /\ soSHL_Meta = Image(SentOf, segs)
  /\ Cut(soSHL_Data, With(y, segs), d)

\* A line: 'sent' are the datagrams ESf has passed on, 'closed' the others with
\* a length, o the one without.
Plus(segs, o) == IF o = NoSeg THEN segs ELSE Append(segs, o)
LineData(p) ==
  IF p = "EPT" THEN ssRXp_Data["EPT"] ELSE ssESfToTXp_Data \o ssRXp_Data["ESF"]
LineStage(p, d, o, t, sent, closed) ==
  /\ IF p = "EPT" THEN sent = << >> ELSE ssESfToTXp_Meta = Image(InMetaOf, sent)
  /\ ssRXp_Meta[p] = Image(EchoMetaOf, Plus(closed, o))
  /\ ssRXp_DLen[p] = Image(LeftOf, closed)
  /\ Cut(LineData(p), With(t, sent \o Plus(closed, o)), d)

\* What is due, open and in front, by the state of the process.
On(cond, s) == IF cond THEN s ELSE NoSeg

InFlow(r) == \E segs \in Seq(InSeg) : InStage(r, segs)
ToUafFlow(r, x) ==
  \E segs \in Seq(EchoSeg) : ToUafStage(On(rdp_fsmState = "RDP_FWD_STREAM", r), x, segs)
LineFlow(p, x, o, t) ==
  \E sent, closed \in Seq(EchoSeg) :
    LineStage(p, On(rxp_echoMode = p /\ rxp_fsmState = "RXP_DATA", x), On(rxp_echoMode = p, o),
              On(txp_echoMode = p, t), sent, closed)
FromUafFlow(t, w) ==
  \E segs \in Seq(EchoSeg) :
    FromUafStage(On(txp_fsmState = "TXP_DATA", t), On(wrp_fsmState = "WRP_STREAM", w), segs)
OutFlow(w, y) == \E segs \in Seq(OutSeg) : OutStage(w, y, segs)

FlowBy(r, x, o, t, w, y) ==
  /\ RdpAt(r) /\ RxpAt(x, o) /\ TxpAt(t) /\ WrpAt(w) /\ UoeAt(y)
  /\ InFlow(r) /\ ToUafFlow(r, x)
  /\ \A p \in Lines : LineFlow(p, x, o, t)
  /\ FromUafFlow(t, w) /\ OutFlow(w, y)

\* While the bit is clear UAF holds nothing but the datagram TXp is sending,
\* and only then are the processes of UAF in their drain states.
Quiet ==
  /\ ~piSHL_Enable => ~UafHolds
  /\ rxp_fsmState = "RXP_DRAIN_INPUT_FIFOS" => ~piSHL_Enable
  /\ txp_fsmState = "TXP_DRAIN_INPUT_FIFOS" => ~piSHL_Enable
  /\ txp_stalled = "NONE"

Commands == {m \in TestMeta : m.dLen > 0 /\ m.dst = Targets[m.dgm]}
Requests == ssRDpToWRp_Req \in Seq(Commands)

FlowInv ==
  interrupted \/ /\ Quiet /\ Requests
                 /\ \E r, x, o, t, w, y \in SomeSeg : FlowBy(r, x, o, t, w, y)

LEMMA Concats ==
  ASSUME NEW a \in Seq(EchoSeg)
  PROVE  << >> \o a = a /\ a \o << >> = a
  OBVIOUS

LEMMA FlowInit == ASSUME UdpInit PROVE FlowInv
<1> USE DEF UdpInit
<1>1. Cut(<< >>, << >>, NoSeg) /\ With(NoSeg, << >>) = << >> /\ << >> \o << >> = << >>
  BY SegEmpty DEF Cut, With, WithFront
<1>2. \A f : Image(f, << >>) = << >>
  BY DEF Image
<1>3. << >> \in Seq(InSeg) /\ << >> \in Seq(EchoSeg) /\ << >> \in Seq(OutSeg)
  OBVIOUS
<1>4. InFlow(NoSeg) /\ ToUafFlow(NoSeg, NoSeg)
  <2>1. InStage(NoSeg, << >>)
    BY <1>1, <1>2 DEF UsifInit, InStage
  <2>2. ToUafStage(NoSeg, NoSeg, << >>)
    BY <1>1, <1>2 DEF LinkInit, ToUafStage
  <2> QED BY <1>3, <2>1, <2>2 DEF InFlow, ToUafFlow, On
<1>5. FromUafFlow(NoSeg, NoSeg) /\ OutFlow(NoSeg, NoSeg)
  <2>1. FromUafStage(NoSeg, NoSeg, << >>)
    BY <1>1, <1>2 DEF LinkInit, FromUafStage
  <2>2. OutStage(NoSeg, NoSeg, << >>)
    BY <1>1, <1>2 DEF UsifInit, OutStage
  <2> QED BY <1>3, <2>1, <2>2 DEF FromUafFlow, OutFlow, On
<1>6. ASSUME NEW p \in Lines PROVE LineFlow(p, NoSeg, NoSeg, NoSeg)
  <2>1. LineData(p) = << >> /\ Plus(<< >>, NoSeg) = << >>
    BY <1>1 DEF UafInit, LineData, Plus, Lines
  <2>2. LineStage(p, NoSeg, NoSeg, NoSeg, << >>, << >>)
    BY <1>1, <1>2, <2>1 DEF UafInit, LineStage
  <2> QED BY <1>3, <2>2 DEF LineFlow, On
<1>7. RdpAt(NoSeg) /\ RxpAt(NoSeg, NoSeg) /\ TxpAt(NoSeg) /\ WrpAt(NoSeg) /\ UoeAt(NoSeg)
  BY DEF UsifInit, UafInit, RdpAt, RxpAt, TxpAt, WrpAt, UoeAt, SomeSeg
<1>8. FlowBy(NoSeg, NoSeg, NoSeg, NoSeg, NoSeg, NoSeg)
  BY <1>4, <1>5, <1>6, <1>7 DEF FlowBy
<1>9. Quiet
  <2>1. ~UafHolds
    BY DEF LinkInit, UsifInit, UafInit, UafHolds, Lines
  <2> QED BY <2>1 DEF LinkInit, UafInit, Quiet
<1>10. Requests
  BY DEF UsifInit, Requests
<1>11. NoSeg \in SomeSeg
  BY DEF SomeSeg
<1> QED BY <1>8, <1>9, <1>10, <1>11 DEF FlowInv

\* A part of the invariant stays while what it is about stays.
LEMMA FlowKept ==
  ASSUME NEW r, NEW x, NEW o, NEW t, NEW w, NEW y, FlowBy(r, x, o, t, w, y)
  PROVE  /\ UNCHANGED rdpVars => RdpAt(r)'
         /\ UNCHANGED rxpVars => RxpAt(x, o)'
         /\ UNCHANGED txpVars => TxpAt(t)'
         /\ UNCHANGED wrpVars => WrpAt(w)'
         /\ UNCHANGED uoeOutVars => UoeAt(y)'
         /\ UNCHANGED uoeInVars => InFlow(r)'
         /\ UNCHANGED << toUafVars, rdp_fsmState >> => ToUafFlow(r, x)'
         /\ UNCHANGED << rxpOutVars, esfOutVars, rxp_fsmState, rxp_echoMode, txp_echoMode >> =>
              \A p \in Lines : LineFlow(p, x, o, t)'
         /\ UNCHANGED << fromUafVars, txp_fsmState, wrp_fsmState >> => FromUafFlow(t, w)'
         /\ UNCHANGED << soSHL_Data, soSHL_Meta >> => OutFlow(w, y)'
<1> USE DEF FlowBy
<1>1. UNCHANGED rdpVars => RdpAt(r)'
  BY DEF RdpAt, rdpVars
<1>2. UNCHANGED rxpVars => RxpAt(x, o)'
  BY DEF RxpAt, rxpVars
<1>3. UNCHANGED txpVars => TxpAt(t)'
  BY DEF TxpAt, txpVars
<1>4. UNCHANGED wrpVars => WrpAt(w)'
  BY DEF WrpAt, wrpVars
<1>5. UNCHANGED uoeOutVars => UoeAt(y)'
  BY DEF UoeAt, uoeOutVars
<1>6. UNCHANGED uoeInVars => InFlow(r)'
  BY DEF InFlow, InStage, uoeInVars
<1>7. UNCHANGED << toUafVars, rdp_fsmState >> => ToUafFlow(r, x)'
  BY DEF ToUafFlow, ToUafStage, toUafVars
<1>8. ASSUME UNCHANGED << rxpOutVars, esfOutVars, rxp_fsmState, rxp_echoMode, txp_echoMode >>,
             NEW p \in Lines
      PROVE  LineFlow(p, x, o, t)'
  <2>1. LineFlow(p, x, o, t)
    OBVIOUS
  <2>2. LineData(p)' = LineData(p)
    BY <1>8 DEF LineData, rxpOutVars, esfOutVars
  <2> QED BY <1>8, <2>1, <2>2 DEF LineFlow, LineStage, rxpOutVars, esfOutVars
<1>9. UNCHANGED << fromUafVars, txp_fsmState, wrp_fsmState >> => FromUafFlow(t, w)'
  BY DEF FromUafFlow, FromUafStage, fromUafVars
<1>10. UNCHANGED << soSHL_Data, soSHL_Meta >> => OutFlow(w, y)'
  BY DEF OutFlow, OutStage
<1> QED BY <1>1, <1>2, <1>3, <1>4, <1>5, <1>6, <1>7, <1>8, <1>9, <1>10

\* Nothing is to be said of Quiet when the bit is set and no process drains,
\* nor when what it is about stays.
LEMMA QuietKept ==
  ASSUME Quiet
  PROVE  /\ UNCHANGED << piSHL_Enable, rdp_fsmState, ssUSIFToUAF_Meta, rxp_fsmState, ssRXp_Meta,
                         ssESfToTXp_Meta, txp_fsmState, txp_stalled >> => Quiet'
         /\ /\ piSHL_Enable' /\ rxp_fsmState' # "RXP_DRAIN_INPUT_FIFOS"
            /\ txp_fsmState' # "TXP_DRAIN_INPUT_FIFOS" /\ UNCHANGED txp_stalled
            => Quiet'
<1>1. ASSUME UNCHANGED << piSHL_Enable, rdp_fsmState, ssUSIFToUAF_Meta, rxp_fsmState, ssRXp_Meta,
                          ssESfToTXp_Meta, txp_fsmState, txp_stalled >>
      PROVE  Quiet'
  BY <1>1 DEF Quiet, UafHolds
<1>2. ASSUME piSHL_Enable', rxp_fsmState' # "RXP_DRAIN_INPUT_FIFOS",
             txp_fsmState' # "TXP_DRAIN_INPUT_FIFOS", UNCHANGED txp_stalled
      PROVE  Quiet'
  BY <1>2 DEF Quiet
<1> QED BY <1>1, <1>2

\* The processes and the streams have no common variable.
LEMMA FlowParts ==
  ASSUME NEW r \in SomeSeg, NEW x \in SomeSeg, NEW o \in SomeSeg, NEW t \in SomeSeg,
         NEW w \in SomeSeg, NEW y \in SomeSeg,
         RdpAt(r), RxpAt(x, o), TxpAt(t), WrpAt(w), UoeAt(y), InFlow(r), ToUafFlow(r, x),
         \A p \in Lines : LineFlow(p, x, o, t), FromUafFlow(t, w), OutFlow(w, y),
         Quiet, Requests
  PROVE  FlowInv
BY DEF FlowInv, FlowBy

LEMMA OutSegs == OutSeg \subseteq Seg /\ EchoSeg \subseteq OutSeg /\ Seq(OutSeg) \subseteq Seq(Seg)
<1>1. OutSeg \subseteq Seg /\ EchoSeg \subseteq OutSeg
  BY SegKinds DEF OutSeg, GenSeg
<1> QED BY <1>1, SeqMonotonic

-----------------------------------------------------------------------------
(* The steps of the UOE.                                                    *)

LEMMA FlowAnnounce ==
  ASSUME UdpInv, FlowInv, ~interrupted, NEW port \in DstPorts, NEW n \in DatLens,
         UoeAnnounce(port, n), UNCHANGED << uafVars, interrupted >>
  PROVE  FlowInv'
<1>0. Quiet /\ Requests
  BY DEF FlowInv
<1>1. PICK r \in SomeSeg, x \in SomeSeg, o \in SomeSeg, t \in SomeSeg, w \in SomeSeg, y \in SomeSeg :
        FlowBy(r, x, o, t, w, y)
  BY DEF FlowInv
<1>2. UNCHANGED << rdpVars, ssRDpToWRp_Req, wrpVars, soSHL_Data, soSHL_Meta, uoeOutVars, linkVars,
                   uafVars >>
  BY DEF UoeAnnounce
<1>3. /\ RdpAt(r)' /\ RxpAt(x, o)' /\ TxpAt(t)' /\ WrpAt(w)' /\ UoeAt(y)'
      /\ ToUafFlow(r, x)' /\ (\A p \in Lines : LineFlow(p, x, o, t)') /\ FromUafFlow(t, w)'
      /\ OutFlow(w, y)'
  BY <1>1, <1>2, FlowKept DEF linkVars, rdpVars, wrpVars, uafVars, rxpVars, txpVars
<1>4. Quiet' /\ Requests'
  BY <1>0, <1>2, QuietKept DEF Requests, linkVars, toUafVars, rdpVars, uafVars, rxpVars, rxpOutVars,
     esfOutVars, txpVars
<1>5. PICK segs \in Seq(InSeg) : InStage(r, segs)
  BY <1>1 DEF FlowBy, InFlow
<1>6. /\ uoeLeft = 0 /\ uoeLeft' = n /\ uoePort' = port /\ siSHL_Data' = siSHL_Data
      /\ siSHL_Meta' = Append(siSHL_Meta, [dgm |-> uoeDgms', src |-> Senders[uoeDgms'], dst |-> port,
                                           dLen |-> n])
      /\ uoeDgms' \in 1..MaxDgms /\ n \in Nat /\ n > 0
  BY UdpLenAssumption, UdpDepthAssumption DEF UoeAnnounce, UdpInv, UoeInv
<1>7. PICK s \in InSeg : s = SegOf(uoeDgms', port, "RX", n)
  <2>1. SegOf(uoeDgms', port, "RX", n) \in InSeg
    BY <1>6 DEF InSeg, Seg, SegOf, Payloads
  <2> QED BY <2>1
<1>8. siSHL_Meta' = Image(InMetaOf, Append(segs, s)) /\ Append(segs, s) \in Seq(InSeg)
  <2>1. s \in Seg /\ segs \in Seq(Seg)
    BY SegKinds
  <2>2. InMetaOf[s] = [dgm |-> uoeDgms', src |-> Senders[uoeDgms'], dst |-> port, dLen |-> n]
    BY <1>7, <2>1 DEF InMetaOf, SegOf
  <2>3. Image(InMetaOf, Append(segs, s)) = Append(Image(InMetaOf, segs), InMetaOf[s])
    BY <2>1, ImageOps
  <2> QED BY <1>5, <1>6, <2>2, <2>3 DEF InStage
<1>9. Cut(siSHL_Data, With(r, Append(segs, s)), s)
  BY <1>5, <1>6, SegKinds, CutAnnounce DEF InStage
<1>10. InFlow(r)'
  <2>1. PICK more \in Seq(InSeg) : more = Append(segs, s)
    BY <1>8
  <2>2. InStage(r, more)'
    BY <1>6, <1>7, <1>8, <1>9, <2>1 DEF InStage
  <2> QED BY <2>2 DEF InFlow
<1> QED BY <1>3, <1>4, <1>10, FlowParts DEF FlowInv, FlowBy

LEMMA FlowUoeData ==
  ASSUME UdpInv, FlowInv, ~interrupted, UoeData, UNCHANGED << uafVars, interrupted >>
  PROVE  FlowInv'
<1>0. Quiet /\ Requests
  BY DEF FlowInv
<1>1. PICK r \in SomeSeg, x \in SomeSeg, o \in SomeSeg, t \in SomeSeg, w \in SomeSeg, y \in SomeSeg :
        FlowBy(r, x, o, t, w, y)
  BY DEF FlowInv
<1>2. UNCHANGED << siSHL_Meta, uoeDgms, uoePort, rdpVars, ssRDpToWRp_Req, wrpVars, soSHL_Data,
                   soSHL_Meta, uoeOutVars, linkVars, uafVars >>
  BY DEF UoeData
<1>3. /\ RdpAt(r)' /\ RxpAt(x, o)' /\ TxpAt(t)' /\ WrpAt(w)' /\ UoeAt(y)'
      /\ ToUafFlow(r, x)' /\ (\A p \in Lines : LineFlow(p, x, o, t)') /\ FromUafFlow(t, w)'
      /\ OutFlow(w, y)'
  BY <1>1, <1>2, FlowKept DEF linkVars, rdpVars, wrpVars, uafVars, rxpVars, txpVars
<1>4. Quiet' /\ Requests'
  BY <1>0, <1>2, QuietKept DEF Requests, linkVars, toUafVars, rdpVars, uafVars, rxpVars, rxpOutVars,
     esfOutVars, txpVars
<1>5. PICK segs \in Seq(InSeg) : InStage(r, segs)
  BY <1>1 DEF FlowBy, InFlow
<1>6. /\ uoeLeft \in Nat /\ uoeLeft > 0 /\ uoeLeft' = uoeLeft - LenOfChunk(uoeLeft)
      /\ siSHL_Data' = Append(siSHL_Data, ChunkOf(uoeDgms, uoePort, "RX", uoeLeft))
      /\ uoeDgms \in 1..MaxDgms /\ uoePort \in DstPorts
  BY UdpDepthAssumption DEF UoeData, UdpInv, UoeInv
<1>7. PICK s \in Seg : s = SegOf(uoeDgms, uoePort, "RX", uoeLeft)
  <2>1. SegOf(uoeDgms, uoePort, "RX", uoeLeft) \in Seg
    BY <1>6 DEF Seg, SegOf, Payloads
  <2> QED BY <2>1
<1>8. ChunkAt[s] = ChunkOf(uoeDgms, uoePort, "RX", uoeLeft)
  BY <1>7 DEF ChunkAt, SegOf
<1>9. Cut(Append(siSHL_Data, ChunkAt[s]), With(r, segs), RestOf[s])
  BY <1>5, <1>6, <1>7, CutPut DEF InStage
<1>10. RestOf[s] = IF uoeLeft' = 0 THEN NoSeg ELSE SegOf(uoeDgms, uoePort, "RX", uoeLeft')
  <2>1. /\ s.left = uoeLeft /\ s.dgm = uoeDgms /\ s.port = uoePort /\ NextData(s.data) = "RX"
    BY <1>7 DEF SegOf, NextData
  <2>2. CASE uoeLeft <= ARW_BYTES
    BY <1>6, <2>1, <2>2, RestFields
  <2>3. CASE ~(uoeLeft <= ARW_BYTES)
    BY <1>6, <2>1, <2>3, RestFields DEF ARW_BYTES
  <2> QED BY <2>2, <2>3
<1>11. InFlow(r)'
  BY <1>2, <1>5, <1>6, <1>8, <1>9, <1>10 DEF InFlow, InStage
<1> QED BY <1>3, <1>4, <1>11, FlowParts DEF FlowInv, FlowBy

\* The UOE takes what the role sends: metadata first.
LEMMA FlowUoeTakes ==
  ASSUME UdpInv, FlowInv, ~interrupted, UoeReads, UNCHANGED << uafVars, interrupted >>
  PROVE  FlowInv'
<1>0. Quiet /\ Requests
  BY DEF FlowInv
<1>1. PICK r \in SomeSeg, x \in SomeSeg, o \in SomeSeg, t \in SomeSeg, w \in SomeSeg, y \in SomeSeg :
        FlowBy(r, x, o, t, w, y)
  BY DEF FlowInv
<1>2. UNCHANGED << uoeInVars, rdpVars, ssRDpToWRp_Req, wrpVars, linkVars, uafVars >>
  BY DEF UoeReads, UoeTakesMeta, UoeTakesData
<1>3. /\ RdpAt(r)' /\ RxpAt(x, o)' /\ TxpAt(t)' /\ WrpAt(w)' /\ InFlow(r)'
      /\ ToUafFlow(r, x)' /\ (\A p \in Lines : LineFlow(p, x, o, t)') /\ FromUafFlow(t, w)'
  BY <1>1, <1>2, FlowKept DEF linkVars, rdpVars, wrpVars, uafVars, rxpVars, txpVars
<1>4. Quiet' /\ Requests'
  BY <1>0, <1>2, QuietKept DEF Requests, linkVars, toUafVars, rdpVars, uafVars, rxpVars, rxpOutVars,
     esfOutVars, txpVars
<1>5. PICK segs \in Seq(OutSeg) : OutStage(w, y, segs)
  BY <1>1 DEF FlowBy, OutFlow
<1>6. UoeAt(y) /\ segs \in Seq(Seg)
  BY <1>1, OutSegs DEF FlowBy
<1>7. SUFFICES \E z \in SomeSeg : UoeAt(z)' /\ OutFlow(w, z)'
  BY <1>3, <1>4 DEF FlowInv, FlowBy
<1>8. CASE UoeTakesMeta
  <2>1. /\ uoeDue = 0 /\ soSHL_Meta # << >> /\ soSHL_Data' = soSHL_Data
        /\ uoeMeta' = Head(soSHL_Meta) /\ uoeDue' = Head(soSHL_Meta).dLen
        /\ soSHL_Meta' = Tail(soSHL_Meta)
    BY <1>6, <1>8 DEF UoeTakesMeta, UoeAt, Dequeue
  <2>2. /\ segs # << >> /\ Head(soSHL_Meta) = SentOf[Head(segs)]
        /\ Tail(soSHL_Meta) = Image(SentOf, Tail(segs))
    BY <1>5, <1>6, <2>1, ImageOps DEF OutStage
  <2>3. PICK z \in OutSeg : z = Head(segs)
    BY <2>2, QueueOps
  <2>4. z \in Seg /\ Tail(segs) \in Seq(OutSeg)
    BY <2>2, OutSegs, QueueOps
  <2>5. With(NoSeg, segs) = With(z, Tail(segs))
    BY <1>6, <2>2, <2>3, CutBegin
  <2>6. OutFlow(w, z)'
    BY <1>5, <1>6, <2>1, <2>2, <2>4, <2>5 DEF OutFlow, OutStage, UoeAt
  <2>7. /\ uoeMeta'.dgm = z.dgm /\ uoeMeta'.src = z.port /\ uoeMeta'.dLen = z.left
        /\ uoeMeta'.dst = Addressee(z.dgm, z.port) /\ z.port # RECV_MODE_LSN_PORT
        /\ uoeDue' = z.left /\ z.left \in Nat /\ z.left > 0
    <3>1. /\ SentOf[z].dgm = z.dgm /\ SentOf[z].src = z.port /\ SentOf[z].dLen = z.left
          /\ SentOf[z].dst = Addressee(z.dgm, z.port) /\ z.left \in Nat /\ z.left > 0
      BY <2>4 DEF SentOf, Seg
    <3>2. z.port # RECV_MODE_LSN_PORT
      BY <2>3 DEF OutSeg, EchoSeg, EchoPorts, GenSeg, RECV_MODE_LSN_PORT, XMIT_MODE_LSN_PORT
    <3> QED BY <2>1, <2>2, <2>3, <3>1, <3>2
  <2>8. z.data = PayloadAt(uoeMeta', uoeDue')
    <3>1. CASE z \in EchoSeg
      BY <2>7, <3>1 DEF PayloadAt, EchoSeg, InSeg, EchoPorts
    <3>2. CASE z \notin EchoSeg
      <4>1. z.port = XMIT_MODE_LSN_PORT /\ z.data = "GEN_CHK0"
        BY <2>3, <3>2 DEF OutSeg, GenSeg
      <4>2. ((uoeMeta'.dLen - uoeDue') \div ARW_BYTES) % 2 = 0
        BY <2>7 DEF ARW_BYTES
      <4> QED BY <2>7, <4>1, <4>2 DEF PayloadAt
    <3> QED BY <3>1, <3>2
  <2>9. UoeAt(z)'
    <3>1. z = SegOf(z.dgm, z.port, z.data, z.left)
      BY <2>4 DEF Seg, SegOf
    <3> QED BY <2>4, <2>7, <2>8, <3>1, SegKinds DEF UoeAt, SomeSeg
  <2> QED BY <2>4, <2>6, <2>9 DEF SomeSeg
<1>9. CASE UoeTakesData
  <2>1. /\ uoeDue > 0 /\ soSHL_Data # << >> /\ soSHL_Data' = Tail(soSHL_Data)
        /\ UNCHANGED << soSHL_Meta, uoeMeta >>
        /\ uoeDue' = IF Head(soSHL_Data).tlast THEN 0 ELSE uoeDue - Head(soSHL_Data).len
    BY <1>9 DEF UoeTakesData, Dequeue
  <2>2. /\ y \in Seg /\ y = SegOf(uoeMeta.dgm, uoeMeta.src, PayloadAt(uoeMeta, uoeDue), uoeDue)
        /\ uoeDue \in Nat /\ uoeMeta.dLen \in Nat /\ uoeMeta.src # RECV_MODE_LSN_PORT
        /\ uoeMeta.dst = Addressee(uoeMeta.dgm, uoeMeta.src)
    BY <1>6, <2>1 DEF UoeAt, SomeSeg
  <2>3. Head(soSHL_Data) = ChunkAt[y] /\ Cut(Tail(soSHL_Data), With(RestOf[y], segs), w)
    BY <1>5, <1>6, <2>1, <2>2, CutTake DEF OutStage
  <2>4. PICK z \in SomeSeg : z = RestOf[y]
    BY <2>2, RestFields
  <2>5. OutFlow(w, z)'
    BY <1>5, <2>1, <2>3, <2>4 DEF OutFlow, OutStage
  <2>6. /\ y.left = uoeDue /\ y.dgm = uoeMeta.dgm /\ y.port = uoeMeta.src
        /\ y.data = PayloadAt(uoeMeta, uoeDue)
    BY <2>2 DEF SegOf
  <2>7. CASE uoeDue <= ARW_BYTES
    <3>1. uoeDue' = 0 /\ z = NoSeg
      BY <2>1, <2>2, <2>3, <2>4, <2>6, <2>7, ChunkFields, RestFields
    <3> QED BY <2>5, <3>1 DEF UoeAt, SomeSeg
  <2>8. CASE ~(uoeDue <= ARW_BYTES)
    <3>1. /\ uoeDue' = uoeDue - ARW_BYTES /\ z \in Seg
          /\ z = SegOf(uoeMeta.dgm, uoeMeta.src, NextData(PayloadAt(uoeMeta, uoeDue)), uoeDue')
      <4>1. uoeDue > ARW_BYTES
        BY <2>2, <2>8 DEF ARW_BYTES
      <4> QED BY <2>1, <2>2, <2>3, <2>4, <2>6, <4>1, ChunkFields, RestFields
    <3>2. NextData(PayloadAt(uoeMeta, uoeDue)) = PayloadAt(uoeMeta, uoeDue')
      <4> DEFINE k == (uoeMeta.dLen - uoeDue) \div ARW_BYTES
      <4>1. k \in Int /\ (uoeMeta.dLen - uoeDue') \div ARW_BYTES = k + 1
        BY SMTT(30), <2>2, <3>1 DEF ARW_BYTES
      <4> HIDE DEF k
      <4>2. k % 2 = 0 <=> (k + 1) % 2 # 0
        BY <4>1
      <4> QED BY <4>1, <4>2 DEF NextData, PayloadAt, k
    <3>3. uoeDue' \in Nat /\ uoeDue' # 0
      BY <2>2, <2>8, <3>1 DEF ARW_BYTES
    <3> QED BY <2>1, <2>2, <2>5, <3>1, <3>2, <3>3, SegKinds DEF UoeAt, SomeSeg
  <2> QED BY <2>7, <2>8
<1> QED BY <1>8, <1>9 DEF UoeReads

-----------------------------------------------------------------------------
(* The steps of RDp.                                                        *)

\* The processes that need the bit leave Quiet as it is.
LEMMA QuietEnabled ==
  ASSUME Quiet, piSHL_Enable, UNCHANGED << piSHL_Enable, rxp_fsmState, txp_fsmState, txp_stalled >>
  PROVE  Quiet'
BY QuietKept DEF Quiet

LEMMA FlowRdpIdle ==
  ASSUME UdpInv, FlowInv, ~interrupted, RdpIdle, UNCHANGED << uafVars, interrupted >>
  PROVE  FlowInv'
<1>0. Quiet /\ Requests
  BY DEF FlowInv
<1>1. PICK r \in SomeSeg, x \in SomeSeg, o \in SomeSeg, t \in SomeSeg, w \in SomeSeg, y \in SomeSeg :
        FlowBy(r, x, o, t, w, y)
  BY DEF FlowInv
<1>2. /\ UNCHANGED << siSHL_Data, toUafVars, ssRDpToWRp_Req, piSHL_Enable, fromUafVars, uoeDgms,
                      uoeLeft, uoePort, wrpVars, soSHL_Data, soSHL_Meta, uoeOutVars, uafVars >>
      /\ piSHL_Enable /\ rdp_fsmState = "RDP_IDLE" /\ siSHL_Meta # << >>
      /\ rdp_appMeta' = Head(siSHL_Meta) /\ siSHL_Meta' = Tail(siSHL_Meta)
      /\ rdp_fsmState' = RdpTask(rdp_appMeta'.dst)
  BY DEF RdpIdle, RDpUnchanged, Dequeue
<1>3. /\ RxpAt(x, o)' /\ TxpAt(t)' /\ WrpAt(w)' /\ UoeAt(y)'
      /\ (\A p \in Lines : LineFlow(p, x, o, t)') /\ FromUafFlow(t, w)' /\ OutFlow(w, y)'
  BY <1>1, <1>2, FlowKept DEF wrpVars, uafVars, rxpVars, txpVars
<1>4. Quiet' /\ Requests'
  BY <1>0, <1>2, QuietEnabled DEF Requests, uafVars, rxpVars, txpVars
<1>5. PICK segs \in Seq(InSeg) : InStage(r, segs)
  BY <1>1 DEF FlowBy, InFlow
<1>6. r = NoSeg
  BY <1>1, <1>2 DEF FlowBy, RdpAt
<1>7. /\ segs # << >> /\ Head(siSHL_Meta) = InMetaOf[Head(segs)]
      /\ Tail(siSHL_Meta) = Image(InMetaOf, Tail(segs))
  BY <1>2, <1>5, ImageOps DEF InStage
<1>8. PICK z \in InSeg : z = Head(segs)
  BY <1>7, QueueOps
<1>9. z \in Seg /\ Tail(segs) \in Seq(InSeg) /\ segs \in Seq(Seg)
  BY <1>7, SegKinds, QueueOps
<1>10. With(NoSeg, segs) = With(z, Tail(segs))
  BY <1>7, <1>8, <1>9, CutBegin
<1>11. InFlow(z)'
  BY <1>2, <1>5, <1>6, <1>7, <1>9, <1>10 DEF InFlow, InStage
<1>12. /\ rdp_appMeta'.dgm = z.dgm /\ rdp_appMeta'.dst = z.port /\ rdp_appMeta'.dLen = z.left
  BY <1>2, <1>7, <1>8, <1>9 DEF InMetaOf
<1>16. rdp_appMeta' = InMetaOf[z]
  BY <1>2, <1>7, <1>8
<1>13. RdpAt(z)'
  <2>1. z # NoSeg /\ rdp_fsmState' # "RDP_IDLE" /\ rdp_fsmState' # "RDP_FWD_STREAM"
    BY <1>2, <1>9, SegKinds DEF RdpTask
  <2>2. rdp_fsmState' = "RDP_FWD_META" => z \in EchoSeg
    BY <1>2, <1>8, <1>9, <1>12 DEF RdpTask, EchoSeg, EchoPorts, Seg
  <2> QED BY <1>8, <1>16, <2>1, <2>2 DEF RdpAt
<1>14. ToUafFlow(z, x)'
  <2>1. ToUafFlow(r, x) /\ rdp_fsmState' # "RDP_FWD_STREAM"
    BY <1>1, <1>2 DEF FlowBy, RdpTask
  <2> QED BY <1>2, <1>6, <2>1 DEF ToUafFlow, ToUafStage, toUafVars, On
<1>15. z \in SomeSeg
  BY <1>9 DEF SomeSeg
<1> QED BY <1>3, <1>4, <1>11, <1>13, <1>14, <1>15, FlowParts DEF FlowInv, FlowBy

LEMMA FlowRdpFwdMeta ==
  ASSUME UdpInv, FlowInv, ~interrupted, RdpFwdMeta, UNCHANGED << uafVars, interrupted >>
  PROVE  FlowInv'
<1>0. Quiet /\ Requests
  BY DEF FlowInv
<1>1. PICK r \in SomeSeg, x \in SomeSeg, o \in SomeSeg, t \in SomeSeg, w \in SomeSeg, y \in SomeSeg :
        FlowBy(r, x, o, t, w, y)
  BY DEF FlowInv
<1>2. /\ UNCHANGED << uoeInVars, rdp_appMeta, ssUSIFToUAF_Data, ssRDpToWRp_Req, piSHL_Enable,
                      fromUafVars, wrpVars, soSHL_Data, soSHL_Meta, uoeOutVars, uafVars >>
      /\ piSHL_Enable /\ rdp_fsmState = "RDP_FWD_META" /\ rdp_fsmState' = "RDP_FWD_STREAM"
      /\ ssUSIFToUAF_Meta' = Append(ssUSIFToUAF_Meta, [dgm |-> rdp_appMeta.dgm,
                                  src |-> rdp_appMeta.src, dst |-> rdp_appMeta.dst])
      /\ ssUSIFToUAF_DLen' = Append(ssUSIFToUAF_DLen, rdp_appMeta.dLen)
  BY DEF RdpFwdMeta, RDpUnchanged, uoeInVars
<1>3. /\ RxpAt(x, o)' /\ TxpAt(t)' /\ WrpAt(w)' /\ UoeAt(y)' /\ InFlow(r)'
      /\ (\A p \in Lines : LineFlow(p, x, o, t)') /\ FromUafFlow(t, w)' /\ OutFlow(w, y)'
  BY <1>1, <1>2, FlowKept DEF wrpVars, uafVars, rxpVars, txpVars
<1>4. Quiet' /\ Requests'
  BY <1>0, <1>2, QuietEnabled DEF Requests, uafVars, rxpVars, txpVars
<1>5. /\ r \in EchoSeg /\ r # NoSeg /\ rdp_appMeta.src = Senders[r.dgm]
      /\ rdp_appMeta.dgm = r.dgm /\ rdp_appMeta.dst = r.port /\ rdp_appMeta.dLen = r.left
  <2>1. r \in EchoSeg /\ r # NoSeg /\ rdp_appMeta = InMetaOf[r]
    BY <1>1, <1>2 DEF FlowBy, RdpAt
  <2> QED BY <2>1, SegKinds DEF InMetaOf
<1>6. RdpAt(r)'
  BY <1>1, <1>2, <1>5 DEF FlowBy, RdpAt
<1>7. PICK segs \in Seq(EchoSeg) : ToUafStage(NoSeg, x, segs)
  BY <1>1, <1>2 DEF FlowBy, ToUafFlow, On
<1>8. r \in Seg /\ segs \in Seq(Seg) /\ Append(segs, r) \in Seq(EchoSeg)
  BY <1>5, SegKinds, QueueOps
<1>9. Cut(ssUSIFToUAF_Data, With(x, Append(segs, r)), r)
  BY <1>7, <1>8, CutAnnounce DEF ToUafStage
<1>10. /\ ssUSIFToUAF_Meta' = Image(EchoMetaOf, Append(segs, r))
       /\ ssUSIFToUAF_DLen' = Image(LeftOf, Append(segs, r))
  <2>1. EchoMetaOf[r] = [dgm |-> r.dgm, src |-> Senders[r.dgm], dst |-> r.port] /\ LeftOf[r] = r.left
    BY <1>8 DEF EchoMetaOf, LeftOf
  <2>2. /\ Image(EchoMetaOf, Append(segs, r)) = Append(Image(EchoMetaOf, segs), EchoMetaOf[r])
        /\ Image(LeftOf, Append(segs, r)) = Append(Image(LeftOf, segs), LeftOf[r])
    BY <1>8, ImageOps
  <2> QED BY <1>2, <1>5, <1>7, <2>1, <2>2 DEF ToUafStage
<1>11. ToUafFlow(r, x)'
  BY <1>2, <1>8, <1>9, <1>10 DEF ToUafFlow, ToUafStage, On
<1> QED BY <1>3, <1>4, <1>6, <1>11, FlowParts DEF FlowInv, FlowBy

LEMMA FlowRdpFwdStream ==
  ASSUME UdpInv, FlowInv, ~interrupted, RdpFwdStream, UNCHANGED << uafVars, interrupted >>
  PROVE  FlowInv'
<1>0. Quiet /\ Requests
  BY DEF FlowInv
<1>1. PICK r \in SomeSeg, x \in SomeSeg, o \in SomeSeg, t \in SomeSeg, w \in SomeSeg, y \in SomeSeg :
        FlowBy(r, x, o, t, w, y)
  BY DEF FlowInv
<1>2. /\ UNCHANGED << siSHL_Meta, rdp_appMeta, ssUSIFToUAF_Meta, ssUSIFToUAF_DLen,
                      ssRDpToWRp_Req, piSHL_Enable, fromUafVars, uoeDgms, uoeLeft, uoePort, wrpVars,
                      soSHL_Data, soSHL_Meta, uoeOutVars, uafVars >>
      /\ piSHL_Enable /\ rdp_fsmState = "RDP_FWD_STREAM" /\ siSHL_Data # << >>
      /\ siSHL_Data' = Tail(siSHL_Data)
      /\ ssUSIFToUAF_Data' = Append(ssUSIFToUAF_Data, Head(siSHL_Data))
      /\ rdp_fsmState' = IF Head(siSHL_Data).tlast THEN "RDP_IDLE" ELSE "RDP_FWD_STREAM"
  BY DEF RdpFwdStream, RdpTakesChunk, RDpUnchanged, Dequeue
<1>3. /\ RxpAt(x, o)' /\ TxpAt(t)' /\ WrpAt(w)' /\ UoeAt(y)'
      /\ (\A p \in Lines : LineFlow(p, x, o, t)') /\ FromUafFlow(t, w)' /\ OutFlow(w, y)'
  BY <1>1, <1>2, FlowKept DEF wrpVars, uafVars, rxpVars, txpVars
<1>4. Quiet' /\ Requests'
  BY <1>0, <1>2, QuietEnabled DEF Requests, uafVars, rxpVars, txpVars
<1>5. r \in EchoSeg /\ r \in Seg
  BY <1>1, <1>2, SegKinds DEF FlowBy, RdpAt
<1>6. PICK segs \in Seq(InSeg) : InStage(r, segs)
  BY <1>1 DEF FlowBy, InFlow
<1>7. PICK z \in EchoSeg \cup {NoSeg} : z = RestOf[r]
  BY <1>5, RestFields
<1>8. Head(siSHL_Data) = ChunkAt[r] /\ InFlow(z)'
  <2>1. PICK due : due = IF uoeLeft = 0 THEN NoSeg ELSE SegOf(uoeDgms, uoePort, "RX", uoeLeft)
    OBVIOUS
  <2>2. Head(siSHL_Data) = ChunkAt[r] /\ Cut(Tail(siSHL_Data), With(z, segs), due)
    BY <1>2, <1>5, <1>6, <1>7, <2>1, SegKinds, CutTake DEF InStage
  <2> QED BY <1>2, <1>6, <2>1, <2>2 DEF InFlow, InStage
<1>9. z \in SomeSeg /\ (z = NoSeg <=> rdp_fsmState' = "RDP_IDLE")
  BY <1>2, <1>5, <1>7, <1>8, ChunkFields, RestFields
<1>10. RdpAt(z)'
  BY <1>2, <1>7, <1>9, SegKinds DEF RdpAt
<1>11. ToUafFlow(z, x)'
  <2>1. PICK some \in Seq(EchoSeg) : ToUafStage(r, x, some)
    BY <1>1, <1>2 DEF FlowBy, ToUafFlow, On
  <2>2. Cut(Append(ssUSIFToUAF_Data, ChunkAt[r]), With(x, some), z)
    BY <1>5, <1>7, <2>1, CutPut DEF ToUafStage
  <2>3. On(rdp_fsmState' = "RDP_FWD_STREAM", z) = z
    BY <1>2, <1>9 DEF On
  <2> QED BY <1>2, <1>8, <2>1, <2>2, <2>3 DEF ToUafFlow, ToUafStage, On
<1> QED BY <1>3, <1>4, <1>8, <1>9, <1>10, <1>11, FlowParts DEF FlowInv, FlowBy

\* The chunks that do not go on to UAF: they are sunk, or are test commands.
LEMMA FlowRdpSinks ==
  ASSUME UdpInv, FlowInv, ~interrupted, UNCHANGED << uafVars, interrupted >>,
         RdpSinkStream \/ \E count \in TxCounts : Rdp8801(count)
  PROVE  FlowInv'
<1>0. Quiet /\ Requests
  BY DEF FlowInv
<1>1. PICK r \in SomeSeg, x \in SomeSeg, o \in SomeSeg, t \in SomeSeg, w \in SomeSeg, y \in SomeSeg :
        FlowBy(r, x, o, t, w, y)
  BY DEF FlowInv
<1>2. /\ UNCHANGED << siSHL_Meta, rdp_appMeta, toUafVars, piSHL_Enable, fromUafVars, uoeDgms,
                      uoeLeft, uoePort, wrpVars, soSHL_Data, soSHL_Meta, uoeOutVars, uafVars >>
      /\ piSHL_Enable /\ rdp_fsmState \in {"RDP_SINK_STREAM", "RDP_8801"} /\ siSHL_Data # << >>
      /\ siSHL_Data' = Tail(siSHL_Data)
      /\ rdp_fsmState' = IF Head(siSHL_Data).tlast THEN "RDP_IDLE" ELSE "RDP_SINK_STREAM"
  BY DEF RdpSinkStream, Rdp8801, RdpTakesChunk, RDpUnchanged, Dequeue, toUafVars
<1>3. /\ RxpAt(x, o)' /\ TxpAt(t)' /\ WrpAt(w)' /\ UoeAt(y)'
      /\ (\A p \in Lines : LineFlow(p, x, o, t)') /\ FromUafFlow(t, w)' /\ OutFlow(w, y)'
  BY <1>1, <1>2, FlowKept DEF wrpVars, uafVars, rxpVars, txpVars
<1>4. Quiet'
  BY <1>0, <1>2, QuietEnabled DEF uafVars, rxpVars, txpVars
<1>6. r \in InSeg /\ r \in Seg
  BY <1>1, <1>2, SegKinds DEF FlowBy, RdpAt
<1>7. PICK segs \in Seq(InSeg) : InStage(r, segs)
  BY <1>1 DEF FlowBy, InFlow
<1>8. PICK z \in InSeg \cup {NoSeg} : z = RestOf[r]
  BY <1>6, RestFields
<1>9. Head(siSHL_Data) = ChunkAt[r] /\ InFlow(z)'
  <2>1. PICK due : due = IF uoeLeft = 0 THEN NoSeg ELSE SegOf(uoeDgms, uoePort, "RX", uoeLeft)
    OBVIOUS
  <2>2. Head(siSHL_Data) = ChunkAt[r] /\ Cut(Tail(siSHL_Data), With(z, segs), due)
    BY <1>2, <1>6, <1>7, <1>8, <2>1, SegKinds, CutTake DEF InStage
  <2> QED BY <1>2, <1>7, <2>1, <2>2 DEF InFlow, InStage
<1>5. Requests'
  <2>1. CASE RdpSinkStream
    BY <1>0, <2>1 DEF RdpSinkStream, Requests
  <2>2. ASSUME NEW count \in TxCounts, Rdp8801(count) PROVE Requests'
    <3>1. PICK req : req = [dgm |-> rdp_appMeta.dgm, src |-> rdp_appMeta.dst,
                            dst |-> Targets[Head(siSHL_Data).dgm], dLen |-> count]
      OBVIOUS
    <3>2. ssRDpToWRp_Req' = Append(ssRDpToWRp_Req, req)
      BY <2>2, <3>1 DEF Rdp8801
    <3>3. Head(siSHL_Data).dgm = rdp_appMeta.dgm
      <4>1. rdp_appMeta = InMetaOf[r]
        BY <1>1, <2>2 DEF Rdp8801, FlowBy, RdpAt
      <4> QED BY <1>6, <1>9, <4>1, ChunkFields DEF InMetaOf
    <3>4. rdp_appMeta \in InMeta /\ rdp_appMeta.dst = XMIT_MODE_LSN_PORT
      BY <2>2 DEF Rdp8801, UdpInv, RdpInv
    <3>5. req \in Commands
      BY <3>1, <3>3, <3>4, HostOf, UdpLenAssumption DEF InMeta, TestMeta, Commands
    <3> QED BY <1>0, <3>2, <3>5, QueueOps DEF Requests
  <2> QED BY <2>1, <2>2
<1>10. z \in SomeSeg /\ RdpAt(z)'
  <2>1. z \in SomeSeg /\ (z = NoSeg <=> rdp_fsmState' = "RDP_IDLE")
    BY <1>2, <1>6, <1>8, <1>9, ChunkFields, RestFields
  <2> QED BY <1>2, <1>8, <2>1, SegKinds DEF RdpAt
<1>11. ToUafFlow(z, x)'
  <2>1. PICK some \in Seq(EchoSeg) : ToUafStage(NoSeg, x, some)
    BY <1>1, <1>2 DEF FlowBy, ToUafFlow, On
  <2>2. On(rdp_fsmState' = "RDP_FWD_STREAM", z) = NoSeg
    BY <1>2 DEF On
  <2> QED BY <1>2, <2>1, <2>2 DEF ToUafFlow, ToUafStage, toUafVars
<1> QED BY <1>3, <1>4, <1>5, <1>9, <1>10, <1>11, FlowParts DEF FlowInv, FlowBy

-----------------------------------------------------------------------------
(* The steps of WRp.                                                        *)

LEMMA FlowWrpIdleTest ==
  ASSUME UdpInv, FlowInv, ~interrupted, WrpIdleTest, UNCHANGED << uafVars, interrupted >>
  PROVE  FlowInv'
<1>0. Quiet /\ Requests
  BY DEF FlowInv
<1>1. PICK r \in SomeSeg, x \in SomeSeg, o \in SomeSeg, t \in SomeSeg, w \in SomeSeg, y \in SomeSeg :
        FlowBy(r, x, o, t, w, y)
  BY DEF FlowInv
<1>2. PICK req \in Commands :
        /\ req = Head(ssRDpToWRp_Req)
        /\ Tail(ssRDpToWRp_Req) \in Seq(Commands)
  BY <1>0, QueueOps DEF WrpIdleTest, Requests
<1>3. /\ UNCHANGED << linkVars, uoeInVars, rdpVars, soSHL_Data, uoeOutVars, uafVars >>
      /\ piSHL_Enable /\ wrp_fsmState = "WRP_IDLE"
      /\ soSHL_Meta' = Append(soSHL_Meta, req) /\ wrp_appDReq' = req.dLen /\ wrp_dgm' = req.dgm
      /\ wrp_fsmState' = "WRP_8801" /\ wrp_genChunk' = "GEN_CHK0"
      /\ ssRDpToWRp_Req' = Tail(ssRDpToWRp_Req)
  BY <1>2 DEF WrpIdleTest, WRpUnchanged, linkVars, Dequeue, Commands
<1>4. /\ RdpAt(r)' /\ RxpAt(x, o)' /\ TxpAt(t)' /\ UoeAt(y)' /\ InFlow(r)' /\ ToUafFlow(r, x)'
      /\ (\A p \in Lines : LineFlow(p, x, o, t)')
  BY <1>1, <1>3, FlowKept DEF linkVars, rdpVars, uafVars, rxpVars, txpVars
<1>5. Quiet' /\ Requests'
  BY <1>0, <1>2, <1>3, QuietEnabled DEF Requests, linkVars, uafVars, rxpVars, txpVars
<1>6. PICK z \in OutSeg : /\ z = SegOf(req.dgm, XMIT_MODE_LSN_PORT, "GEN_CHK0", req.dLen)
                          /\ z \in Seg /\ SentOf[z] = req
  <2>1. SegOf(req.dgm, XMIT_MODE_LSN_PORT, "GEN_CHK0", req.dLen) \in Seg
    BY <1>2 DEF Commands, TestMeta, Seg, SegOf, Payloads
  <2>2. PICK z \in Seg : z = SegOf(req.dgm, XMIT_MODE_LSN_PORT, "GEN_CHK0", req.dLen)
    BY <2>1
  <2>3. z \in OutSeg
    BY <2>2 DEF OutSeg, GenSeg, SegOf
  <2>4. SentOf[z] = req
    BY <1>2, <2>2 DEF SentOf, SegOf, Commands, TestMeta, Addressee
  <2> QED BY <2>2, <2>3, <2>4
<1>7. WrpAt(z)' /\ z \in SomeSeg
  BY <1>3, <1>6, SegKinds DEF WrpAt, SomeSeg
<1>8. w = NoSeg
  BY <1>1, <1>3 DEF FlowBy, WrpAt
<1>9. FromUafFlow(t, z)'
  <2>1. FromUafFlow(t, w)
    BY <1>1 DEF FlowBy
  <2>2. On(wrp_fsmState' = "WRP_STREAM", z) = NoSeg /\ On(wrp_fsmState = "WRP_STREAM", w) = NoSeg
    BY <1>3, <1>8 DEF On
  <2> QED BY <1>3, <2>1, <2>2 DEF FromUafFlow, FromUafStage, linkVars, fromUafVars, uafVars, txpVars
<1>10. OutFlow(z, y)'
  <2>1. PICK segs \in Seq(OutSeg) : OutStage(NoSeg, y, segs)
    BY <1>1, <1>8 DEF FlowBy, OutFlow
  <2>2. segs \in Seq(Seg) /\ Append(segs, z) \in Seq(OutSeg)
    BY <1>6, OutSegs, QueueOps
  <2>3. Cut(soSHL_Data, With(y, Append(segs, z)), z)
    BY <1>6, <2>1, <2>2, CutAnnounce DEF OutStage
  <2>4. soSHL_Meta' = Image(SentOf, Append(segs, z))
    BY <1>3, <1>6, <2>1, <2>2, ImageOps DEF OutStage
  <2> QED BY <1>3, <2>2, <2>3, <2>4 DEF OutFlow, OutStage
<1> QED BY <1>4, <1>5, <1>7, <1>9, <1>10, FlowParts DEF FlowInv, FlowBy

LEMMA FlowWrpIdleUaf ==
  ASSUME UdpInv, FlowInv, ~interrupted, WrpIdleUaf, UNCHANGED << uafVars, interrupted >>
  PROVE  FlowInv'
<1>0. Quiet /\ Requests
  BY DEF FlowInv
<1>1. PICK r \in SomeSeg, x \in SomeSeg, o \in SomeSeg, t \in SomeSeg, w \in SomeSeg, y \in SomeSeg :
        FlowBy(r, x, o, t, w, y)
  BY DEF FlowInv
<1>2. /\ UNCHANGED << piSHL_Enable, toUafVars, ssUAFToUSIF_Data, ssRDpToWRp_Req, uoeInVars, rdpVars,
                      soSHL_Data, uoeOutVars, uafVars >>
      /\ piSHL_Enable /\ wrp_fsmState = "WRP_IDLE" /\ wrp_fsmState' = "WRP_STREAM"
      /\ ssUAFToUSIF_Meta # << >> /\ ssUAFToUSIF_Meta' = Tail(ssUAFToUSIF_Meta)
      /\ soSHL_Meta' = Append(soSHL_Meta, Head(ssUAFToUSIF_Meta))
  BY DEF WrpIdleUaf, WRpUnchanged, Dequeue
<1>3. /\ RdpAt(r)' /\ RxpAt(x, o)' /\ TxpAt(t)' /\ UoeAt(y)' /\ InFlow(r)' /\ ToUafFlow(r, x)'
      /\ (\A p \in Lines : LineFlow(p, x, o, t)')
  BY <1>1, <1>2, FlowKept DEF rdpVars, uafVars, rxpVars, txpVars
<1>4. Quiet' /\ Requests'
  BY <1>0, <1>2, QuietEnabled DEF Requests, uafVars, rxpVars, txpVars
<1>5. w = NoSeg
  BY <1>1, <1>2 DEF FlowBy, WrpAt
<1>6. PICK segs \in Seq(EchoSeg) : FromUafStage(On(txp_fsmState = "TXP_DATA", t), NoSeg, segs)
  BY <1>1, <1>2 DEF FlowBy, FromUafFlow, On
<1>7. /\ segs # << >> /\ Head(ssUAFToUSIF_Meta) = SentOf[Head(segs)]
      /\ Tail(ssUAFToUSIF_Meta) = Image(SentOf, Tail(segs))
  BY <1>2, <1>6, ImageOps DEF FromUafStage
<1>8. PICK z \in EchoSeg : z = Head(segs)
  BY <1>7, QueueOps
<1>9. z \in Seg /\ z \in OutSeg /\ Tail(segs) \in Seq(EchoSeg) /\ segs \in Seq(Seg)
  BY <1>7, SegKinds, OutSegs, QueueOps
<1>10. With(NoSeg, segs) = With(z, Tail(segs))
  BY <1>7, <1>8, <1>9, CutBegin
<1>11. WrpAt(z)' /\ z \in SomeSeg
  BY <1>2, <1>8, <1>9, SegKinds DEF WrpAt, SomeSeg
<1>12. FromUafFlow(t, z)'
  <2>1. On(wrp_fsmState' = "WRP_STREAM", z) = z /\ UNCHANGED txp_fsmState
    BY <1>2 DEF On, uafVars, txpVars
  <2> QED BY <1>2, <1>6, <1>7, <1>9, <1>10, <2>1 DEF FromUafFlow, FromUafStage
<1>13. OutFlow(z, y)'
  <2>1. PICK some \in Seq(OutSeg) : OutStage(NoSeg, y, some)
    BY <1>1, <1>5 DEF FlowBy, OutFlow
  <2>2. some \in Seq(Seg) /\ Append(some, z) \in Seq(OutSeg)
    BY <1>9, OutSegs, QueueOps
  <2>3. Cut(soSHL_Data, With(y, Append(some, z)), z)
    BY <1>9, <2>1, <2>2, CutAnnounce DEF OutStage
  <2>4. soSHL_Meta' = Image(SentOf, Append(some, z))
    BY <1>2, <1>7, <1>8, <1>9, <2>1, <2>2, ImageOps DEF OutStage
  <2> QED BY <1>2, <2>2, <2>3, <2>4 DEF OutFlow, OutStage
<1> QED BY <1>3, <1>4, <1>11, <1>12, <1>13, FlowParts DEF FlowInv, FlowBy

LEMMA FlowWrpStream ==
  ASSUME UdpInv, FlowInv, ~interrupted, WrpStream, UNCHANGED << uafVars, interrupted >>
  PROVE  FlowInv'
<1>0. Quiet /\ Requests
  BY DEF FlowInv
<1>1. PICK r \in SomeSeg, x \in SomeSeg, o \in SomeSeg, t \in SomeSeg, w \in SomeSeg, y \in SomeSeg :
        FlowBy(r, x, o, t, w, y)
  BY DEF FlowInv
<1>2. /\ UNCHANGED << piSHL_Enable, toUafVars, ssUAFToUSIF_Meta, ssRDpToWRp_Req, uoeInVars, rdpVars,
                      soSHL_Meta, uoeOutVars, uafVars >>
      /\ piSHL_Enable /\ wrp_fsmState = "WRP_STREAM"
      /\ ssUAFToUSIF_Data # << >> /\ ssUAFToUSIF_Data' = Tail(ssUAFToUSIF_Data)
      /\ soSHL_Data' = Append(soSHL_Data, Head(ssUAFToUSIF_Data))
      /\ wrp_fsmState' = IF Head(ssUAFToUSIF_Data).tlast THEN "WRP_IDLE" ELSE "WRP_STREAM"
  BY DEF WrpStream, WRpUnchanged, Dequeue
<1>3. /\ RdpAt(r)' /\ RxpAt(x, o)' /\ TxpAt(t)' /\ UoeAt(y)' /\ InFlow(r)' /\ ToUafFlow(r, x)'
      /\ (\A p \in Lines : LineFlow(p, x, o, t)')
  BY <1>1, <1>2, FlowKept DEF rdpVars, uafVars, rxpVars, txpVars
<1>4. Quiet' /\ Requests'
  BY <1>0, <1>2, QuietEnabled DEF Requests, uafVars, rxpVars, txpVars
<1>5. w \in EchoSeg /\ w \in Seg
  BY <1>1, <1>2, SegKinds DEF FlowBy, WrpAt
<1>6. PICK segs \in Seq(EchoSeg) : FromUafStage(On(txp_fsmState = "TXP_DATA", t), w, segs)
  BY <1>1, <1>2 DEF FlowBy, FromUafFlow, On
<1>7. PICK z \in EchoSeg \cup {NoSeg} : z = RestOf[w]
  BY <1>5, RestFields
<1>8. /\ Head(ssUAFToUSIF_Data) = ChunkAt[w]
      /\ Cut(Tail(ssUAFToUSIF_Data), With(z, segs), On(txp_fsmState = "TXP_DATA", t))
  <2>1. PICK due : due = On(txp_fsmState = "TXP_DATA", t)
    OBVIOUS
  <2> QED BY <1>2, <1>5, <1>6, <1>7, <2>1, SegKinds, CutTake DEF FromUafStage
<1>9. z \in SomeSeg /\ (z = NoSeg <=> wrp_fsmState' = "WRP_IDLE")
  BY <1>2, <1>5, <1>7, <1>8, ChunkFields, RestFields
<1>10. WrpAt(z)'
  BY <1>2, <1>7, <1>9 DEF WrpAt
<1>11. FromUafFlow(t, z)'
  <2>1. On(wrp_fsmState' = "WRP_STREAM", z) = z /\ UNCHANGED txp_fsmState
    BY <1>2, <1>9 DEF On, uafVars, txpVars
  <2> QED BY <1>2, <1>6, <1>8, <2>1 DEF FromUafFlow, FromUafStage
<1>12. OutFlow(z, y)'
  <2>1. PICK some \in Seq(OutSeg) : OutStage(w, y, some)
    BY <1>1 DEF FlowBy, OutFlow
  <2>2. Cut(Append(soSHL_Data, ChunkAt[w]), With(y, some), z)
    BY <1>5, <1>7, <2>1, CutPut DEF OutStage
  <2> QED BY <1>2, <1>8, <2>1, <2>2 DEF OutFlow, OutStage
<1> QED BY <1>3, <1>4, <1>9, <1>10, <1>11, <1>12, FlowParts DEF FlowInv, FlowBy

LEMMA FlowWrp8801 ==
  ASSUME UdpInv, FlowInv, ~interrupted, Wrp8801, UNCHANGED << uafVars, interrupted >>
  PROVE  FlowInv'
<1>0. Quiet /\ Requests
  BY DEF FlowInv
<1>1. PICK r \in SomeSeg, x \in SomeSeg, o \in SomeSeg, t \in SomeSeg, w \in SomeSeg, y \in SomeSeg :
        FlowBy(r, x, o, t, w, y)
  BY DEF FlowInv
<1>2. /\ UNCHANGED << linkVars, ssRDpToWRp_Req, uoeInVars, rdpVars, wrp_dgm, soSHL_Meta, uoeOutVars,
                      uafVars >>
      /\ piSHL_Enable /\ wrp_fsmState = "WRP_8801"
      /\ wrp_genChunk \in {"GEN_CHK0", "GEN_CHK1"} /\ wrp_appDReq \in Nat
      /\ soSHL_Data' = Append(soSHL_Data,
                              ChunkOf(wrp_dgm, XMIT_MODE_LSN_PORT, wrp_genChunk, wrp_appDReq))
      /\ wrp_genChunk' = NextData(wrp_genChunk)
      /\ wrp_appDReq > ARW_BYTES => wrp_appDReq' = wrp_appDReq - ARW_BYTES /\ UNCHANGED wrp_fsmState
      /\ wrp_appDReq <= ARW_BYTES => wrp_fsmState' = "WRP_IDLE"
  BY DEF Wrp8801, WRpUnchanged, linkVars, UdpInv, WrpInv, Payloads, NextGenChunk, NextData,
     IsLastChunk, ARW_BYTES
<1>3. /\ RdpAt(r)' /\ RxpAt(x, o)' /\ TxpAt(t)' /\ UoeAt(y)' /\ InFlow(r)' /\ ToUafFlow(r, x)'
      /\ (\A p \in Lines : LineFlow(p, x, o, t)')
  BY <1>1, <1>2, FlowKept DEF linkVars, rdpVars, uafVars, rxpVars, txpVars
<1>4. Quiet' /\ Requests'
  BY <1>0, <1>2, QuietEnabled DEF Requests, linkVars, uafVars, rxpVars, txpVars
<1>5. /\ w = SegOf(wrp_dgm, XMIT_MODE_LSN_PORT, wrp_genChunk, wrp_appDReq) /\ w \in Seg
      /\ w.dgm = wrp_dgm /\ w.port = XMIT_MODE_LSN_PORT /\ w.data = wrp_genChunk
      /\ w.left = wrp_appDReq
  BY <1>1, <1>2 DEF FlowBy, WrpAt, SegOf, SomeSeg
<1>6. ChunkAt[w] = ChunkOf(wrp_dgm, XMIT_MODE_LSN_PORT, wrp_genChunk, wrp_appDReq)
  BY <1>5 DEF ChunkAt
<1>7. PICK z \in SomeSeg : z = RestOf[w]
  BY <1>5, RestFields
<1>8. WrpAt(z)' /\ wrp_fsmState' # "WRP_STREAM"
  <2>1. CASE wrp_appDReq <= ARW_BYTES
    BY <1>2, <1>5, <1>7, <2>1, RestFields DEF WrpAt
  <2>2. CASE wrp_appDReq > ARW_BYTES
    <3>1. /\ z \in Seg
          /\ z = SegOf(wrp_dgm, XMIT_MODE_LSN_PORT, NextData(wrp_genChunk), wrp_appDReq - ARW_BYTES)
      BY <1>5, <1>7, <2>2, RestFields
    <3> QED BY <1>2, <1>7, <2>2, <3>1, SegKinds DEF WrpAt
  <2> QED BY <1>2, <2>1, <2>2 DEF ARW_BYTES
<1>9. FromUafFlow(t, z)'
  <2>1. FromUafFlow(t, w)
    BY <1>1 DEF FlowBy
  <2>2. On(wrp_fsmState' = "WRP_STREAM", z) = NoSeg /\ On(wrp_fsmState = "WRP_STREAM", w) = NoSeg
    BY <1>2, <1>8 DEF On
  <2> QED BY <1>2, <2>1, <2>2 DEF FromUafFlow, FromUafStage, linkVars, fromUafVars, uafVars, txpVars
<1>10. OutFlow(z, y)'
  <2>1. PICK some \in Seq(OutSeg) : OutStage(w, y, some)
    BY <1>1 DEF FlowBy, OutFlow
  <2>2. Cut(Append(soSHL_Data, ChunkAt[w]), With(y, some), z)
    BY <1>5, <1>7, <2>1, CutPut DEF OutStage
  <2> QED BY <1>2, <1>6, <2>1, <2>2 DEF OutFlow, OutStage
<1> QED BY <1>3, <1>4, <1>7, <1>8, <1>9, <1>10, FlowParts DEF FlowInv, FlowBy

-----------------------------------------------------------------------------
(* The steps of RXp.                                                        *)

\* A line stays while what it has due, open and in front stays, and its streams.
LEMMA LineKept ==
  ASSUME NEW p \in Lines, NEW x, NEW o, NEW t, LineFlow(p, x, o, t), NEW x2, NEW o2, NEW t2,
         On(rxp_echoMode' = p /\ rxp_fsmState' = "RXP_DATA", x2) =
           On(rxp_echoMode = p /\ rxp_fsmState = "RXP_DATA", x),
         On(rxp_echoMode' = p, o2) = On(rxp_echoMode = p, o),
         On(txp_echoMode' = p, t2) = On(txp_echoMode = p, t),
         ssRXp_Data'[p] = ssRXp_Data[p], ssRXp_Meta'[p] = ssRXp_Meta[p],
         ssRXp_DLen'[p] = ssRXp_DLen[p], p = "ESF" => UNCHANGED esfOutVars
  PROVE  LineFlow(p, x2, o2, t2)'
<1>1. UNCHANGED LineData(p) /\ (p # "EPT" => UNCHANGED ssESfToTXp_Meta)
  BY DEF LineData, Lines, esfOutVars
<1>2. PICK sent \in Seq(EchoSeg), closed \in Seq(EchoSeg) :
        LineStage(p, On(rxp_echoMode = p /\ rxp_fsmState = "RXP_DATA", x), On(rxp_echoMode = p, o),
                  On(txp_echoMode = p, t), sent, closed)
  BY DEF LineFlow
<1>3. LineStage(p, On(rxp_echoMode = p /\ rxp_fsmState = "RXP_DATA", x), On(rxp_echoMode = p, o),
                On(txp_echoMode = p, t), sent, closed)
        => LineStage(p, On(rxp_echoMode = p /\ rxp_fsmState = "RXP_DATA", x2),
                     On(rxp_echoMode = p, o2), On(txp_echoMode = p, t2), sent, closed)'
  BY <1>1 DEF LineStage
<1> QED BY <1>2, <1>3 DEF LineFlow

\* RXp goes to its drain state and back: there is nothing to drain.
LEMMA RxpDrainsNothing ==
  ASSUME UdpInv, FlowInv, ~interrupted, RxpDrain
  PROVE  rxp_fsmState' = "RXP_IDLE" /\ UNCHANGED toUafVars
<1>0. Quiet
  BY DEF FlowInv
<1>1. PICK r \in SomeSeg, x \in SomeSeg, o \in SomeSeg, t \in SomeSeg, w \in SomeSeg, y \in SomeSeg :
        FlowBy(r, x, o, t, w, y)
  BY DEF FlowInv
<1>2. rxp_fsmState = "RXP_DRAIN_INPUT_FIFOS" /\ ~UafHolds
  BY <1>0 DEF RxpDrain, Quiet
<1>3. rdp_fsmState # "RDP_FWD_STREAM" /\ ssUSIFToUAF_Meta = << >>
  BY <1>2 DEF UafHolds
<1>4. x = NoSeg
  BY <1>1, <1>2 DEF FlowBy, RxpAt
<1>5. PICK segs \in Seq(EchoSeg) : ToUafStage(NoSeg, NoSeg, segs)
  BY <1>1, <1>3, <1>4 DEF FlowBy, ToUafFlow, On
<1>6. segs \in Seq(Seg)
  BY SegKinds
<1>7. segs = << >> /\ ssUSIFToUAF_DLen = << >>
  BY <1>3, <1>5, <1>6, ImageOps DEF ToUafStage
<1>8. ssUSIFToUAF_Data = << >>
  BY <1>5, <1>7, CutNone DEF ToUafStage
<1> QED BY <1>3, <1>7, <1>8 DEF RxpDrain

LEMMA FlowRxpRests ==
  ASSUME UdpInv, FlowInv, ~interrupted, RxpDisabled \/ RxpDrain, UNCHANGED << usifVars, interrupted >>
  PROVE  FlowInv'
<1>0. Quiet /\ Requests
  BY DEF FlowInv
<1>1. PICK r \in SomeSeg, x \in SomeSeg, o \in SomeSeg, t \in SomeSeg, w \in SomeSeg, y \in SomeSeg :
        FlowBy(r, x, o, t, w, y)
  BY DEF FlowInv
<1>2. /\ UNCHANGED << linkVars, rxp_echoMode, rxp_appMeta, rxp_byteCnt, rxpOutVars, esfOutVars,
                      txpVars, usifVars >>
      /\ {rxp_fsmState, rxp_fsmState'} \subseteq {"RXP_IDLE", "RXP_DRAIN_INPUT_FIFOS"}
      /\ rxp_fsmState' = "RXP_DRAIN_INPUT_FIFOS" => ~piSHL_Enable
  <2>1. CASE RxpDisabled
    BY <2>1 DEF RxpDisabled, RXpUnchanged, linkVars
  <2>2. CASE RxpDrain
    <3>1. rxp_fsmState' = "RXP_IDLE" /\ UNCHANGED toUafVars
      BY <2>2, RxpDrainsNothing
    <3> QED BY <2>2, <3>1 DEF RxpDrain, RXpUnchanged, linkVars
  <2> QED BY <2>1, <2>2
<1>3. /\ RdpAt(r)' /\ TxpAt(t)' /\ WrpAt(w)' /\ UoeAt(y)' /\ InFlow(r)' /\ ToUafFlow(r, x)'
      /\ FromUafFlow(t, w)' /\ OutFlow(w, y)'
  BY <1>1, <1>2, FlowKept DEF linkVars, usifVars, rdpVars, wrpVars, txpVars
<1>4. Quiet' /\ Requests'
  BY <1>0, <1>2 DEF Quiet, UafHolds, Requests, linkVars, toUafVars, usifVars, rdpVars, rxpOutVars,
     esfOutVars, txpVars
<1>5. x = NoSeg /\ o = NoSeg
  BY <1>1, <1>2 DEF FlowBy, RxpAt
<1>6. RxpAt(x, o)'
  BY <1>1, <1>2, <1>5 DEF FlowBy, RxpAt
<1>7. ASSUME NEW p \in Lines PROVE LineFlow(p, x, o, t)'
  <2>1. LineFlow(p, x, o, t)
    BY <1>1 DEF FlowBy
  <2> QED BY <1>2, <1>5, <2>1, LineKept DEF On, rxpOutVars, esfOutVars, txpVars
<1> QED BY <1>3, <1>4, <1>6, <1>7, FlowParts DEF FlowInv, FlowBy

LEMMA FlowRxpIdle ==
  ASSUME UdpInv, FlowInv, ~interrupted, RxpIdle, UNCHANGED << usifVars, interrupted >>
  PROVE  FlowInv'
<1>0. Quiet /\ Requests
  BY DEF FlowInv
<1>1. PICK r \in SomeSeg, x \in SomeSeg, o \in SomeSeg, t \in SomeSeg, w \in SomeSeg, y \in SomeSeg :
        FlowBy(r, x, o, t, w, y)
  BY DEF FlowInv
<1>2. /\ UNCHANGED << piSHL_Enable, fromUafVars, ssUSIFToUAF_Data, rxpOutVars, esfOutVars, txpVars,
                      usifVars >>
      /\ piSHL_Enable /\ rxp_fsmState = "RXP_IDLE" /\ rxp_fsmState' = "RXP_META"
      /\ ssUSIFToUAF_Meta # << >> /\ rxp_appMeta' = Head(ssUSIFToUAF_Meta)
      /\ rxp_echoMode' = EchoLine(rxp_appMeta'.dst) /\ rxp_byteCnt' = 0
      /\ ssUSIFToUAF_Meta' = Tail(ssUSIFToUAF_Meta) /\ ssUSIFToUAF_DLen' = Tail(ssUSIFToUAF_DLen)
  BY DEF RxpIdle, RXpUnchanged, RxpByteCnt, Dequeue
<1>3. /\ RdpAt(r)' /\ TxpAt(t)' /\ WrpAt(w)' /\ UoeAt(y)' /\ InFlow(r)'
      /\ FromUafFlow(t, w)' /\ OutFlow(w, y)'
  BY <1>1, <1>2, FlowKept DEF usifVars, rdpVars, wrpVars, txpVars
<1>4. Quiet' /\ Requests'
  BY <1>0, <1>2, QuietKept DEF Quiet, Requests, usifVars, txpVars
<1>5. x = NoSeg /\ o = NoSeg
  BY <1>1, <1>2 DEF FlowBy, RxpAt
<1>6. PICK segs \in Seq(EchoSeg) : ToUafStage(On(rdp_fsmState = "RDP_FWD_STREAM", r), NoSeg, segs)
  BY <1>1, <1>5 DEF FlowBy, ToUafFlow
<1>7. segs \in Seq(Seg)
  BY SegKinds
<1>8. /\ segs # << >> /\ Head(ssUSIFToUAF_Meta) = EchoMetaOf[Head(segs)]
      /\ Tail(ssUSIFToUAF_Meta) = Image(EchoMetaOf, Tail(segs))
      /\ Tail(ssUSIFToUAF_DLen) = Image(LeftOf, Tail(segs))
  BY <1>2, <1>6, <1>7, ImageOps DEF ToUafStage
<1>9. PICK z \in EchoSeg : z = Head(segs)
  BY <1>8, QueueOps
<1>10. z \in Seg /\ z \in SomeSeg /\ z # NoSeg /\ Tail(segs) \in Seq(EchoSeg)
  BY <1>8, SegKinds, QueueOps DEF SomeSeg
<1>11. With(NoSeg, segs) = With(z, Tail(segs))
  BY <1>7, <1>8, <1>9, CutBegin
<1>12. ToUafFlow(r, z)'
  <2>1. UNCHANGED rdp_fsmState
    BY <1>2 DEF usifVars, rdpVars
  <2> QED BY <1>2, <1>6, <1>8, <1>10, <1>11, <2>1 DEF ToUafFlow, ToUafStage
<1>13. RxpAt(z, o)'
  <2>1. EchoMetaOf[z].dst = z.port
    BY <1>10 DEF EchoMetaOf
  <2> QED BY <1>2, <1>5, <1>8, <1>9, <1>10, <2>1 DEF RxpAt
<1>14. ASSUME NEW p \in Lines PROVE LineFlow(p, z, o, t)'
  <2>1. LineFlow(p, x, o, t)
    BY <1>1 DEF FlowBy
  <2> QED BY <1>2, <1>5, <2>1, LineKept DEF On, rxpOutVars, esfOutVars, txpVars
<1> QED BY <1>3, <1>4, <1>10, <1>12, <1>13, <1>14, FlowParts DEF FlowInv, FlowBy

LEMMA FlowRxpMeta ==
  ASSUME UdpInv, FlowInv, ~interrupted, RxpMeta, UNCHANGED << usifVars, interrupted >>
  PROVE  FlowInv'
<1>0. Quiet /\ Requests
  BY DEF FlowInv
<1>1. PICK r \in SomeSeg, x \in SomeSeg, o \in SomeSeg, t \in SomeSeg, w \in SomeSeg, y \in SomeSeg :
        FlowBy(r, x, o, t, w, y)
  BY DEF FlowInv
<1>2. /\ UNCHANGED << linkVars, rxp_echoMode, rxp_appMeta, rxp_byteCnt, ssRXp_Data, ssRXp_DLen,
                      esfOutVars, txpVars, usifVars >>
      /\ rxp_fsmState = "RXP_META" /\ rxp_fsmState' = "RXP_DATA"
      /\ ssRXp_Meta' = [ssRXp_Meta EXCEPT ![rxp_echoMode] = Append(@, rxp_appMeta)]
  BY DEF RxpMeta, RXpUnchanged, linkVars
<1>3. /\ RdpAt(r)' /\ TxpAt(t)' /\ WrpAt(w)' /\ UoeAt(y)' /\ InFlow(r)' /\ ToUafFlow(r, x)'
      /\ FromUafFlow(t, w)' /\ OutFlow(w, y)'
  BY <1>1, <1>2, FlowKept DEF linkVars, usifVars, rdpVars, wrpVars, txpVars
<1>4. Quiet' /\ Requests'
  <2>1. piSHL_Enable
    BY <1>0, <1>2 DEF Quiet, UafHolds
  <2> QED BY <1>0, <1>2, <2>1, QuietKept DEF Quiet, Requests, linkVars, usifVars, txpVars
<1>5. /\ x \in EchoSeg /\ x # NoSeg /\ o = NoSeg /\ rxp_appMeta = EchoMetaOf[x]
      /\ rxp_byteCnt = 0 /\ EchoLine(x.port) = rxp_echoMode
  BY <1>1, <1>2 DEF FlowBy, RxpAt
<1>6. x \in Seg /\ x.left \in Nat
  BY <1>5, SegKinds DEF Seg
<1>7. RxpAt(x, x)'
  BY <1>2, <1>5, <1>6 DEF RxpAt
<1>8. ASSUME NEW p \in Lines PROVE LineFlow(p, x, x, t)'
  <2>1. LineFlow(p, x, o, t)
    BY <1>1 DEF FlowBy
  <2>2. CASE p # rxp_echoMode
    <3>1. ssRXp_Meta'[p] = ssRXp_Meta[p]
      BY <1>2, <2>2 DEF UdpInv, RxpOutInv
    <3> QED BY <1>2, <2>1, <2>2, <3>1, LineKept DEF On, txpVars
  <2>3. CASE p = rxp_echoMode
    <3>1. PICK f \in SomeSeg : f = On(txp_echoMode = p, t)
      BY DEF On, SomeSeg
    <3>2. PICK sent \in Seq(EchoSeg), closed \in Seq(EchoSeg) :
            LineStage(p, NoSeg, NoSeg, f, sent, closed)
      BY <1>2, <1>5, <2>1, <3>1 DEF LineFlow, On
    <3>3. Plus(closed, NoSeg) = closed /\ Plus(closed, x) = Append(closed, x)
      BY <1>5 DEF Plus
    <3>4. ssRXp_Meta'[p] = Image(EchoMetaOf, Plus(closed, x))
      <4>1. ssRXp_Meta'[p] = Append(ssRXp_Meta[p], rxp_appMeta)
        BY <1>2, <2>3 DEF UdpInv, RxpOutInv
      <4>2. closed \in Seq(Seg)
        BY SegKinds
      <4> QED BY <1>5, <1>6, <3>2, <3>3, <4>1, <4>2, ImageOps DEF LineStage
    <3>5. Cut(LineData(p), With(f, sent \o Plus(closed, x)), x)
      <4>1. sent \o Append(closed, x) = Append(sent \o closed, x)
        BY <1>5, ConcatAppend
      <4>2. sent \o closed \in Seq(EchoSeg)
        OBVIOUS
      <4>3. sent \o closed \in Seq(Seg)
        BY <4>2, SegKinds
      <4>4. Cut(LineData(p), With(f, sent \o closed), NoSeg)
        BY <3>2, <3>3 DEF LineStage
      <4> QED BY <1>6, <3>3, <4>1, <4>3, <4>4, CutAnnounce
    <3>6. UNCHANGED LineData(p) /\ UNCHANGED ssESfToTXp_Meta
      BY <1>2 DEF LineData, esfOutVars
    <3>7. LineStage(p, x, x, f, sent, closed)'
      BY <1>2, <3>2, <3>4, <3>5, <3>6 DEF LineStage
    <3> QED BY <1>2, <2>3, <3>1, <3>7 DEF LineFlow, On, txpVars
  <2> QED BY <2>2, <2>3
<1> QED BY <1>3, <1>4, <1>7, <1>8, FlowParts DEF FlowInv, FlowBy

\* What RXp reads goes to the end of its line.
LEMMA RxpPuts ==
  ASSUME UdpInv, RxpData
  PROVE  \A p \in Lines :
           /\ p = rxp_echoMode => LineData(p)' = Append(LineData(p), Head(ssUSIFToUAF_Data))
           /\ p # rxp_echoMode => LineData(p)' = LineData(p) /\ ssRXp_Data'[p] = ssRXp_Data[p]
<1>1. /\ ssRXp_Data \in [Lines -> Seq(Chunk)] /\ ssESfToTXp_Data \in Seq(Chunk)
      /\ Head(ssUSIFToUAF_Data) \in Chunk /\ rxp_echoMode \in Lines
      /\ ssRXp_Data' = [ssRXp_Data EXCEPT ![rxp_echoMode] = Append(@, Head(ssUSIFToUAF_Data))]
      /\ UNCHANGED << rxp_echoMode, ssESfToTXp_Data >>
  BY QueueOps DEF UdpInv, RxpInv, RxpOutInv, EsfOutInv, ToUafInv, RxpData, RXpUnchanged, esfOutVars
<1>2. /\ ssRXp_Data'[rxp_echoMode] = Append(ssRXp_Data[rxp_echoMode], Head(ssUSIFToUAF_Data))
      /\ \A p \in Lines : p # rxp_echoMode => ssRXp_Data'[p] = ssRXp_Data[p]
  BY <1>1
<1>3. \A p \in Lines : p # rxp_echoMode => LineData(p)' = LineData(p)
  BY <1>1, <1>2 DEF LineData, Lines
<1>4. CASE rxp_echoMode = "EPT"
  BY <1>1, <1>2, <1>3, <1>4 DEF LineData
<1>5. CASE rxp_echoMode = "ESF"
  <2>1. ssRXp_Data["ESF"] \in Seq(Chunk)
    BY <1>1, <1>5
  <2>2. ssESfToTXp_Data \o Append(ssRXp_Data["ESF"], Head(ssUSIFToUAF_Data)) =
          Append(ssESfToTXp_Data \o ssRXp_Data["ESF"], Head(ssUSIFToUAF_Data))
    BY SMTT(30), <1>1, <2>1, ConcatAppend
  <2>3. /\ LineData("ESF") = ssESfToTXp_Data \o ssRXp_Data["ESF"]
        /\ LineData("ESF")' = ssESfToTXp_Data \o Append(ssRXp_Data["ESF"], Head(ssUSIFToUAF_Data))
    BY <1>1, <1>2, <1>5 DEF LineData
  <2> QED BY <1>1, <1>2, <1>3, <1>5, <2>2, <2>3
<1> QED BY <1>1, <1>4, <1>5 DEF Lines

LEMMA FlowRxpData ==
  ASSUME UdpInv, FlowInv, ~interrupted, RxpData, UNCHANGED << usifVars, interrupted >>
  PROVE  FlowInv'
<1>0. Quiet /\ Requests
  BY DEF FlowInv
<1>1. PICK r \in SomeSeg, x \in SomeSeg, o \in SomeSeg, t \in SomeSeg, w \in SomeSeg, y \in SomeSeg :
        FlowBy(r, x, o, t, w, y)
  BY DEF FlowInv
<1>2. /\ UNCHANGED << piSHL_Enable, fromUafVars, ssUSIFToUAF_Meta, ssUSIFToUAF_DLen, rxp_echoMode,
                      rxp_appMeta, ssRXp_Meta, ssRXp_DLen, esfOutVars, txpVars, usifVars >>
      /\ rxp_fsmState = "RXP_DATA" /\ ssUSIFToUAF_Data # << >>
      /\ ssUSIFToUAF_Data' = Tail(ssUSIFToUAF_Data)
      /\ ssRXp_Data' = [ssRXp_Data EXCEPT ![rxp_echoMode] = Append(@, Head(ssUSIFToUAF_Data))]
      /\ rxp_byteCnt' = rxp_byteCnt + Head(ssUSIFToUAF_Data).len
      /\ rxp_fsmState' = IF Head(ssUSIFToUAF_Data).tlast THEN "RXP_DLEN" ELSE "RXP_DATA"
  BY DEF RxpData, RXpUnchanged, Dequeue
<1>3. /\ RdpAt(r)' /\ TxpAt(t)' /\ WrpAt(w)' /\ UoeAt(y)' /\ InFlow(r)'
      /\ FromUafFlow(t, w)' /\ OutFlow(w, y)'
  BY <1>1, <1>2, FlowKept DEF usifVars, rdpVars, wrpVars, txpVars
<1>4. Quiet' /\ Requests'
  <2>1. piSHL_Enable
    BY <1>0, <1>2 DEF Quiet, UafHolds
  <2> QED BY <1>0, <1>2, <2>1, QuietKept DEF Quiet, Requests, usifVars, txpVars
<1>5. /\ x \in EchoSeg /\ x # NoSeg /\ o \in EchoSeg /\ o # NoSeg /\ rxp_byteCnt + x.left = o.left
      /\ EchoLine(x.port) = rxp_echoMode
  BY <1>1, <1>2, SegKinds DEF FlowBy, RxpAt
<1>6. x \in Seg /\ x.left \in Nat /\ o.left \in Nat /\ rxp_byteCnt \in Nat
  BY <1>5, SegKinds DEF Seg, UdpInv, RxpInv
<1>7. PICK z \in EchoSeg \cup {NoSeg} : z = RestOf[x]
  BY <1>5, <1>6, RestFields
<1>8. Head(ssUSIFToUAF_Data) = ChunkAt[x] /\ ToUafFlow(r, z)'
  <2>1. PICK d : d = On(rdp_fsmState = "RDP_FWD_STREAM", r)
    OBVIOUS
  <2>2. PICK segs \in Seq(EchoSeg) : ToUafStage(d, x, segs)
    BY <1>1, <2>1 DEF FlowBy, ToUafFlow
  <2>3. Head(ssUSIFToUAF_Data) = ChunkAt[x] /\ Cut(Tail(ssUSIFToUAF_Data), With(z, segs), d)
    BY <1>2, <1>6, <1>7, <2>2, SegKinds, CutTake DEF ToUafStage
  <2>4. UNCHANGED rdp_fsmState
    BY <1>2 DEF usifVars, rdpVars
  <2> QED BY <1>2, <2>1, <2>2, <2>3, <2>4 DEF ToUafFlow, ToUafStage
<1>9. /\ ChunkAt[x].tlast <=> z = NoSeg
      /\ z = NoSeg => rxp_byteCnt' = o.left
      /\ z # NoSeg => rxp_byteCnt' + z.left = o.left /\ z.port = x.port
  <2>1. CASE x.left <= ARW_BYTES
    BY <1>2, <1>5, <1>6, <1>7, <1>8, <2>1, ChunkFields, RestFields
  <2>2. CASE x.left > ARW_BYTES
    <3>1. /\ z = SegOf(x.dgm, x.port, NextData(x.data), x.left - ARW_BYTES) /\ z # NoSeg
          /\ ChunkAt[x].len = ARW_BYTES /\ ~ChunkAt[x].tlast
      BY <1>6, <1>7, <2>2, SegKinds, ChunkFields, RestFields DEF ARW_BYTES
    <3>2. z.left = x.left - ARW_BYTES /\ z.port = x.port
      BY <3>1 DEF SegOf
    <3>3. rxp_byteCnt' = rxp_byteCnt + ARW_BYTES
      BY <1>2, <1>8, <3>1
    <3>4. rxp_byteCnt' + z.left = o.left
      BY <1>5, <1>6, <3>2, <3>3 DEF ARW_BYTES
    <3> QED BY <3>1, <3>2, <3>4
  <2> QED BY <1>6, <2>1, <2>2 DEF ARW_BYTES
<1>10. z \in SomeSeg /\ (z = NoSeg <=> rxp_fsmState' # "RXP_DATA")
  BY <1>2, <1>6, <1>7, <1>8, <1>9, RestFields
<1>11. RxpAt(z, o)'
  BY <1>2, <1>5, <1>7, <1>8, <1>9 DEF RxpAt
<1>12. ASSUME NEW p \in Lines PROVE LineFlow(p, z, o, t)'
  <2>1. LineFlow(p, x, o, t)
    BY <1>1 DEF FlowBy
  <2>2. CASE p # rxp_echoMode
    <3>1. ssRXp_Data'[p] = ssRXp_Data[p]
      BY <2>2, RxpPuts
    <3> QED BY <1>2, <2>1, <2>2, <3>1, LineKept DEF On, txpVars
  <2>3. CASE p = rxp_echoMode
    <3>1. PICK f \in SomeSeg : f = On(txp_echoMode = p, t)
      BY DEF On, SomeSeg
    <3>2. PICK sent \in Seq(EchoSeg), closed \in Seq(EchoSeg) :
            LineStage(p, x, o, f, sent, closed)
      BY <1>2, <2>1, <2>3, <3>1 DEF LineFlow, On
    <3>3. LineData(p)' = Append(LineData(p), ChunkAt[x])
      BY <1>8, <2>3, RxpPuts
    <3>4. Cut(Append(LineData(p), ChunkAt[x]), With(f, sent \o Plus(closed, o)), z)
      BY <1>6, <1>7, <3>2, CutPut DEF LineStage
    <3>5. LineStage(p, z, o, f, sent, closed)'
      BY <1>2, <3>2, <3>3, <3>4 DEF LineStage, esfOutVars
    <3>6. On(rxp_fsmState' = "RXP_DATA", z) = z
      BY <1>10 DEF On
    <3> QED BY <1>2, <2>3, <3>1, <3>5, <3>6 DEF LineFlow, On, txpVars
  <2> QED BY <2>2, <2>3
<1> QED BY <1>3, <1>4, <1>8, <1>10, <1>11, <1>12, FlowParts DEF FlowInv, FlowBy

LEMMA FlowRxpDLen ==
  ASSUME UdpInv, FlowInv, ~interrupted, RxpDLen, UNCHANGED << usifVars, interrupted >>
  PROVE  FlowInv'
<1>0. Quiet /\ Requests
  BY DEF FlowInv
<1>1. PICK r \in SomeSeg, x \in SomeSeg, o \in SomeSeg, t \in SomeSeg, w \in SomeSeg, y \in SomeSeg :
        FlowBy(r, x, o, t, w, y)
  BY DEF FlowInv
<1>2. /\ UNCHANGED << linkVars, rxp_echoMode, rxp_appMeta, rxp_byteCnt, ssRXp_Data, ssRXp_Meta,
                      esfOutVars, txpVars, usifVars >>
      /\ rxp_fsmState = "RXP_DLEN" /\ rxp_fsmState' = "RXP_IDLE"
      /\ ssRXp_DLen' = [ssRXp_DLen EXCEPT ![rxp_echoMode] = Append(@, rxp_byteCnt)]
  BY DEF RxpDLen, RXpUnchanged, linkVars
<1>3. /\ RdpAt(r)' /\ TxpAt(t)' /\ WrpAt(w)' /\ UoeAt(y)' /\ InFlow(r)' /\ ToUafFlow(r, x)'
      /\ FromUafFlow(t, w)' /\ OutFlow(w, y)'
  BY <1>1, <1>2, FlowKept DEF linkVars, usifVars, rdpVars, wrpVars, txpVars
<1>4. Quiet' /\ Requests'
  <2>1. piSHL_Enable
    BY <1>0, <1>2 DEF Quiet, UafHolds
  <2> QED BY <1>0, <1>2, <2>1, QuietKept DEF Quiet, Requests, linkVars, usifVars, txpVars
<1>5. x = NoSeg /\ o \in EchoSeg /\ o # NoSeg /\ rxp_byteCnt = o.left
  BY <1>1, <1>2 DEF FlowBy, RxpAt
<1>6. o \in Seg
  BY <1>5, SegKinds
<1>7. RxpAt(x, NoSeg)'
  BY <1>2, <1>5 DEF RxpAt
<1>8. ASSUME NEW p \in Lines PROVE LineFlow(p, x, NoSeg, t)'
  <2>1. LineFlow(p, x, o, t)
    BY <1>1 DEF FlowBy
  <2>2. CASE p # rxp_echoMode
    <3>1. ssRXp_DLen'[p] = ssRXp_DLen[p]
      BY <1>2, <2>2 DEF UdpInv, RxpOutInv
    <3> QED BY <1>2, <2>1, <2>2, <3>1, LineKept DEF On, txpVars
  <2>3. CASE p = rxp_echoMode
    <3>1. PICK f \in SomeSeg : f = On(txp_echoMode = p, t)
      BY DEF On, SomeSeg
    <3>2. PICK sent \in Seq(EchoSeg), closed \in Seq(EchoSeg) :
            LineStage(p, NoSeg, o, f, sent, closed)
      BY <1>2, <1>5, <2>1, <2>3, <3>1 DEF LineFlow, On
    <3>3. PICK more \in Seq(EchoSeg) : more = Append(closed, o)
      BY <1>5, QueueOps
    <3>4. Plus(closed, o) = more /\ Plus(more, NoSeg) = more
      BY <1>5, <3>3 DEF Plus
    <3>5. ssRXp_DLen'[p] = Image(LeftOf, more)
      <4>1. ssRXp_DLen'[p] = Append(ssRXp_DLen[p], rxp_byteCnt)
        BY <1>2, <2>3 DEF UdpInv, RxpOutInv
      <4>2. closed \in Seq(Seg) /\ LeftOf[o] = rxp_byteCnt
        BY <1>5, <1>6, SegKinds DEF LeftOf
      <4> QED BY <1>6, <3>2, <3>3, <4>1, <4>2, ImageOps DEF LineStage
    <3>6. UNCHANGED LineData(p) /\ UNCHANGED ssESfToTXp_Meta
      BY <1>2 DEF LineData, esfOutVars
    <3>7. LineStage(p, NoSeg, NoSeg, f, sent, more)'
      BY <1>2, <3>2, <3>4, <3>5, <3>6 DEF LineStage
    <3> QED BY <1>2, <1>5, <2>3, <3>1, <3>7 DEF LineFlow, On, txpVars
  <2> QED BY <2>2, <2>3
<1>9. NoSeg \in SomeSeg
  BY DEF SomeSeg
<1> QED BY <1>3, <1>4, <1>7, <1>8, <1>9, FlowParts DEF FlowInv, FlowBy

\* The first of the datagrams with a length leaves.
LEMMA PlusTake ==
  ASSUME NEW closed \in Seq(EchoSeg), closed # << >>, NEW e \in EchoSeg \cup {NoSeg}
  PROVE  /\ Plus(closed, e) \in Seq(EchoSeg) /\ Plus(closed, e) # << >>
         /\ Head(Plus(closed, e)) = Head(closed) /\ Tail(Plus(closed, e)) = Plus(Tail(closed), e)
<1>1. CASE e = NoSeg
  BY <1>1 DEF Plus
<1>2. CASE e # NoSeg
  <2>1. /\ Append(closed, e) \in Seq(EchoSeg) /\ Append(closed, e) # << >>
        /\ Head(Append(closed, e)) = Head(closed)
        /\ Tail(Append(closed, e)) = Append(Tail(closed), e)
    BY <1>2, AppendReads, QueueOps
  <2> QED BY <1>2, <2>1 DEF Plus
<1> QED BY <1>1, <1>2

-----------------------------------------------------------------------------
(* The step of ESf: the data it moves stay in the line, and the datagram    *)
(* whose metadata and length it moves was the first with a length.          *)

LEMMA EsfKeepsLine == ASSUME UdpInv, ESf PROVE LineData("ESF")' = LineData("ESF")
<1>1. CASE EsfMovesData
  <2>1. /\ ssRXp_Data["ESF"] # << >> /\ ssRXp_Data["ESF"] \in Seq(Chunk)
        /\ ssESfToTXp_Data \in Seq(Chunk)
        /\ ssESfToTXp_Data' = Append(ssESfToTXp_Data, Head(ssRXp_Data["ESF"]))
        /\ ssRXp_Data'["ESF"] = Tail(ssRXp_Data["ESF"])
    BY <1>1 DEF ESf, EsfMovesData, Dequeue, Lines, UdpInv, RxpOutInv, EsfOutInv
  <2> QED BY <2>1, ShiftHead DEF LineData
<1>2. CASE ~EsfMovesData
  BY <1>2 DEF ESf, LineData
<1> QED BY <1>1, <1>2

LEMMA FlowESf ==
  ASSUME UdpInv, FlowInv, ~interrupted, ESf, UNCHANGED << usifVars, interrupted >>
  PROVE  FlowInv'
<1>0. Quiet /\ Requests
  BY DEF FlowInv
<1>1. PICK r \in SomeSeg, x \in SomeSeg, o \in SomeSeg, t \in SomeSeg, w \in SomeSeg, y \in SomeSeg :
        FlowBy(r, x, o, t, w, y)
  BY DEF FlowInv
<1>2. UNCHANGED << linkVars, rxpVars, txpVars, usifVars >> /\ piSHL_Enable
  BY DEF ESf
<1>3. /\ RdpAt(r)' /\ RxpAt(x, o)' /\ TxpAt(t)' /\ WrpAt(w)' /\ UoeAt(y)' /\ InFlow(r)'
      /\ ToUafFlow(r, x)' /\ FromUafFlow(t, w)' /\ OutFlow(w, y)'
  BY <1>1, <1>2, FlowKept DEF linkVars, usifVars, rdpVars, wrpVars, txpVars
<1>4. Quiet' /\ Requests'
  BY <1>0, <1>2, QuietEnabled DEF Requests, linkVars, usifVars, rxpVars, txpVars
<1>5. /\ ssRXp_Data \in [Lines -> Seq(Chunk)] /\ ssESfToTXp_Data \in Seq(Chunk)
      /\ ssRXp_Meta \in [Lines -> Seq(EchoMeta)] /\ ssRXp_DLen \in [Lines -> Seq(Nat)]
  BY DEF UdpInv, RxpOutInv, EsfOutInv
<1>6. LineFlow("EPT", x, o, t)'
  <2>1. LineFlow("EPT", x, o, t) /\ "EPT" \in Lines
    BY <1>1 DEF FlowBy, Lines
  <2>2. /\ ssRXp_Data'["EPT"] = ssRXp_Data["EPT"] /\ ssRXp_Meta'["EPT"] = ssRXp_Meta["EPT"]
        /\ ssRXp_DLen'["EPT"] = ssRXp_DLen["EPT"]
    BY <1>5 DEF ESf, Lines
  <2> QED BY <1>2, <2>1, <2>2, LineKept DEF rxpVars, txpVars
<1>7. LineData("ESF")' = LineData("ESF")
  BY EsfKeepsLine
<1>8. LineFlow("ESF", x, o, t)'
  <2>1. PICK d \in SomeSeg, e \in SomeSeg, f \in SomeSeg :
          /\ d = On(rxp_echoMode = "ESF" /\ rxp_fsmState = "RXP_DATA", x)
          /\ e = On(rxp_echoMode = "ESF", o) /\ f = On(txp_echoMode = "ESF", t)
    BY DEF On, SomeSeg
  <2>2. PICK sent \in Seq(EchoSeg), closed \in Seq(EchoSeg) : LineStage("ESF", d, e, f, sent, closed)
    BY <1>1, <2>1 DEF FlowBy, LineFlow, Lines
  <2>3. e \in EchoSeg \cup {NoSeg}
    BY <1>1, <2>1 DEF FlowBy, RxpAt, On
  <2>4. SUFFICES \E more \in Seq(EchoSeg), less \in Seq(EchoSeg) :
                   LineStage("ESF", d, e, f, more, less)'
    BY <1>2, <2>1 DEF LineFlow, rxpVars, txpVars
  <2>5. CASE ~EsfMovesMeta
    <3>1. LineStage("ESF", d, e, f, sent, closed)'
      BY <1>7, <2>2, <2>5 DEF ESf, LineStage
    <3> QED BY <3>1
  <2>6. CASE EsfMovesMeta
    <3>1. /\ ssRXp_Meta["ESF"] # << >> /\ ssRXp_DLen["ESF"] # << >>
          /\ ssRXp_Meta'["ESF"] = Tail(ssRXp_Meta["ESF"])
          /\ ssRXp_DLen'["ESF"] = Tail(ssRXp_DLen["ESF"])
          /\ ssESfToTXp_Meta' =
               Append(ssESfToTXp_Meta, [dgm |-> Head(ssRXp_Meta["ESF"]).dgm,
                                        src |-> Head(ssRXp_Meta["ESF"]).src,
                                        dst |-> Head(ssRXp_Meta["ESF"]).dst,
                                        dLen |-> Head(ssRXp_DLen["ESF"])])
      BY <1>5, <2>6 DEF ESf, EsfMovesMeta, Dequeue, Lines
    <3>2. /\ sent \in Seq(Seg) /\ closed \in Seq(Seg)
          /\ ssESfToTXp_Meta = Image(InMetaOf, sent)
          /\ ssRXp_Meta["ESF"] = Image(EchoMetaOf, Plus(closed, e))
          /\ ssRXp_DLen["ESF"] = Image(LeftOf, closed)
          /\ Cut(LineData("ESF"), With(f, sent \o Plus(closed, e)), d)
      BY <2>2, SegKinds DEF LineStage
    <3>3. /\ closed # << >> /\ Head(ssRXp_DLen["ESF"]) = LeftOf[Head(closed)]
          /\ Tail(ssRXp_DLen["ESF"]) = Image(LeftOf, Tail(closed))
      BY <3>1, <3>2, ImageOps
    <3>4. PICK z \in EchoSeg, less \in Seq(EchoSeg) : z = Head(closed) /\ less = Tail(closed)
      BY <3>3, QueueOps
    <3>5. PICK more \in Seq(EchoSeg) : more = Append(sent, z)
      BY <3>4, QueueOps
    <3>6. /\ Plus(closed, e) \in Seq(EchoSeg) /\ Plus(closed, e) # << >>
          /\ Head(Plus(closed, e)) = z /\ Tail(Plus(closed, e)) = Plus(less, e)
      BY <2>3, <3>3, <3>4, PlusTake
    <3>7. /\ Head(ssRXp_Meta["ESF"]) = EchoMetaOf[z]
          /\ Tail(ssRXp_Meta["ESF"]) = Image(EchoMetaOf, Plus(less, e))
      <4>1. Plus(closed, e) \in Seq(Seg)
        BY <3>6, SegKinds
      <4>2. /\ Head(Image(EchoMetaOf, Plus(closed, e))) = EchoMetaOf[Head(Plus(closed, e))]
            /\ Tail(Image(EchoMetaOf, Plus(closed, e))) = Image(EchoMetaOf, Tail(Plus(closed, e)))
        BY <3>6, <4>1, ImageOps
      <4> QED BY <3>2, <3>6, <4>2
    <3>8. ssESfToTXp_Meta' = Image(InMetaOf, more)
      <4>1. z \in Seg
        BY <3>4, SegKinds
      <4>2. [dgm |-> EchoMetaOf[z].dgm, src |-> EchoMetaOf[z].src, dst |-> EchoMetaOf[z].dst,
             dLen |-> LeftOf[z]] = InMetaOf[z]
        BY <4>1 DEF EchoMetaOf, LeftOf, InMetaOf
      <4>3. ssESfToTXp_Meta' = Append(Image(InMetaOf, sent), InMetaOf[z])
        BY <3>1, <3>2, <3>3, <3>4, <3>7, <4>2
      <4> QED BY <3>2, <3>5, <4>1, <4>3, ImageOps
    <3>9. more \o Plus(less, e) = sent \o Plus(closed, e)
      BY <3>4, <3>5, <3>6, ShiftHead
    <3>10. LineStage("ESF", d, e, f, more, less)'
      BY <1>7, <3>1, <3>2, <3>3, <3>4, <3>7, <3>8, <3>9 DEF LineStage
    <3> QED BY <3>10
  <2> QED BY <2>5, <2>6
<1>9. \A p \in Lines : LineFlow(p, x, o, t)'
  BY <1>6, <1>8 DEF Lines
<1> QED BY <1>3, <1>4, <1>9, FlowParts DEF FlowInv, FlowBy

-----------------------------------------------------------------------------
(* The steps of TXp.                                                        *)

\* TXp goes to its drain state and back: there is nothing to drain.
LEMMA TxpDrainsNothing ==
  ASSUME UdpInv, FlowInv, ~interrupted, TxpDrain
  PROVE  txp_fsmState' = "TXP_IDLE" /\ UNCHANGED << rxpOutVars, txp_stalled >>
<1>0. Quiet
  BY DEF FlowInv
<1>1. PICK r \in SomeSeg, x \in SomeSeg, o \in SomeSeg, t \in SomeSeg, w \in SomeSeg, y \in SomeSeg :
        FlowBy(r, x, o, t, w, y)
  BY DEF FlowInv
<1>2. /\ txp_fsmState = "TXP_DRAIN_INPUT_FIFOS" /\ txp_stalled = "NONE" /\ ~UafHolds
      /\ rxp_fsmState \notin {"RXP_META", "RXP_DATA", "RXP_DLEN"}
      /\ (\A p \in Lines : ssRXp_Meta[p] = << >>) /\ ssESfToTXp_Meta = << >>
  BY <1>0 DEF TxpDrain, Quiet, UafHolds
<1>3. x = NoSeg /\ o = NoSeg /\ t = NoSeg
  BY <1>1, <1>2 DEF FlowBy, RxpAt, TxpAt
<1>4. ASSUME NEW p \in Lines PROVE LineData(p) = << >> /\ ssRXp_DLen[p] = << >>
  <2>1. PICK sent \in Seq(EchoSeg), closed \in Seq(EchoSeg) :
          LineStage(p, NoSeg, NoSeg, NoSeg, sent, closed)
    BY <1>1, <1>3 DEF FlowBy, LineFlow, On
  <2>2. sent \in Seq(Seg) /\ closed \in Seq(Seg) /\ Plus(closed, NoSeg) = closed
    BY SegKinds DEF Plus
  <2>3. sent = << >> /\ closed = << >> /\ ssRXp_DLen[p] = << >>
    <3>1. /\ Image(EchoMetaOf, closed) = << >> /\ ssRXp_DLen[p] = Image(LeftOf, closed)
          /\ sent = << >> \/ Image(InMetaOf, sent) = << >>
      BY <1>2, <2>1, <2>2 DEF LineStage
    <3>2. closed = << >> /\ sent = << >>
      BY <2>2, <3>1, ImageOps
    <3> QED BY <3>1, <3>2, <2>2, ImageOps
  <2>4. LineData(p) = << >>
    <3>1. sent \o Plus(closed, NoSeg) = << >>
      BY <2>2, <2>3
    <3> QED BY <2>1, <3>1, CutNone DEF LineStage
  <2> QED BY <2>3, <2>4
<1>5. ssRXp_Data["EPT"] = << >> /\ ssRXp_Meta["EPT"] = << >> /\ ssRXp_DLen["EPT"] = << >>
  BY <1>2, <1>4 DEF LineData, Lines
<1>6. ssESfToTXp_Data = << >>
  <2>1. ssESfToTXp_Data \o ssRXp_Data["ESF"] = << >>
    BY <1>4 DEF LineData, Lines
  <2>2. ssESfToTXp_Data \in Seq(Chunk) /\ ssRXp_Data["ESF"] \in Seq(Chunk)
    BY DEF UdpInv, RxpOutInv, EsfOutInv, Lines
  <2> QED BY <2>1, <2>2
<1>7. TxpDrains = "NONE" /\ TxpReads = "NONE"
  <2>1. << >> \o << >> = << >>
    OBVIOUS
  <2> QED BY <1>2, <1>5, <1>6, <2>1 DEF TxpDrains, TxpReads
<1> QED BY <1>7 DEF TxpDrain, TxpDrainData, TxpDrainMeta, TxpDrainStalls, TxpDrainEnds, rxpOutVars

LEMMA FlowTxpRests ==
  ASSUME UdpInv, FlowInv, ~interrupted, TxpDisabled \/ TxpDrain, UNCHANGED << usifVars, interrupted >>
  PROVE  FlowInv'
<1>0. Quiet /\ Requests
  BY DEF FlowInv
<1>1. PICK r \in SomeSeg, x \in SomeSeg, o \in SomeSeg, t \in SomeSeg, w \in SomeSeg, y \in SomeSeg :
        FlowBy(r, x, o, t, w, y)
  BY DEF FlowInv
<1>2. /\ UNCHANGED << linkVars, rxpVars, rxpOutVars, esfOutVars, txp_echoMode, txp_appMeta,
                      txp_lenCnt, txp_stalled, usifVars >>
      /\ {txp_fsmState, txp_fsmState'} \subseteq {"TXP_IDLE", "TXP_DRAIN_INPUT_FIFOS"}
      /\ txp_fsmState' = "TXP_DRAIN_INPUT_FIFOS" => ~piSHL_Enable
  <2>1. CASE TxpDisabled
    BY <2>1 DEF TxpDisabled, TXpUnchanged, linkVars
  <2>2. CASE TxpDrain
    <3>1. txp_fsmState' = "TXP_IDLE" /\ UNCHANGED << rxpOutVars, txp_stalled >>
      BY <2>2, TxpDrainsNothing
    <3> QED BY <2>2, <3>1 DEF TxpDrain, TXpUnchanged, linkVars
  <2> QED BY <2>1, <2>2
<1>3. /\ RdpAt(r)' /\ RxpAt(x, o)' /\ WrpAt(w)' /\ UoeAt(y)' /\ InFlow(r)' /\ ToUafFlow(r, x)'
      /\ OutFlow(w, y)'
  BY <1>1, <1>2, FlowKept DEF linkVars, usifVars, rdpVars, wrpVars
<1>4. Quiet' /\ Requests'
  BY <1>0, <1>2 DEF Quiet, UafHolds, Requests, linkVars, toUafVars, usifVars, rdpVars, rxpVars,
     rxpOutVars, esfOutVars
<1>5. t = NoSeg
  BY <1>1, <1>2 DEF FlowBy, TxpAt
<1>6. TxpAt(t)'
  BY <1>1, <1>2, <1>5 DEF FlowBy, TxpAt
<1>7. FromUafFlow(t, w)'
  BY <1>1, <1>2, <1>5 DEF FlowBy, FromUafFlow, FromUafStage, On, linkVars, fromUafVars, usifVars, wrpVars
<1>8. ASSUME NEW p \in Lines PROVE LineFlow(p, x, o, t)'
  <2>1. LineFlow(p, x, o, t)
    BY <1>1 DEF FlowBy
  <2> QED BY <1>2, <2>1, LineKept DEF rxpVars, rxpOutVars, esfOutVars
<1> QED BY <1>3, <1>4, <1>6, <1>7, <1>8, FlowParts DEF FlowInv, FlowBy

\* TXp begins the datagram z: what this does to the rest is the same for both lines.
LEMMA TxpBegins ==
  ASSUME UdpInv, FlowInv, ~interrupted, piSHL_Enable, txp_fsmState = "TXP_IDLE",
         NEW r \in SomeSeg, NEW x \in SomeSeg, NEW o \in SomeSeg, NEW t \in SomeSeg,
         NEW w \in SomeSeg, NEW y \in SomeSeg, FlowBy(r, x, o, t, w, y),
         NEW z \in EchoSeg, NEW line \in Lines, NEW meta, NEW dLen, TxpStart(line, meta, dLen),
         [dgm |-> meta.dgm, src |-> meta.src, dst |-> meta.dst, dLen |-> dLen] = InMetaOf[z],
         \A p \in Lines : LineFlow(p, x, o, z)',
         UNCHANGED << linkVars, rxpVars, txp_stalled, usifVars, interrupted >>
  PROVE  FlowInv'
<1>1. /\ RdpAt(r)' /\ RxpAt(x, o)' /\ WrpAt(w)' /\ UoeAt(y)' /\ InFlow(r)' /\ ToUafFlow(r, x)'
      /\ OutFlow(w, y)'
  BY FlowKept DEF linkVars, usifVars, rdpVars, wrpVars
<1>2. Quiet' /\ Requests'
  BY QuietKept DEF FlowInv, Quiet, Requests, linkVars, usifVars, rxpVars, TxpStart
<1>3. z \in Seg /\ z \in SomeSeg /\ z # NoSeg /\ z.left # 0
  BY SegKinds DEF SomeSeg, Seg
<1>4. TxpAt(z)'
  <2>1. dLen = z.left
    <3>1. InMetaOf[z].dLen = z.left
      BY <1>3 DEF InMetaOf
    <3>2. [dgm |-> meta.dgm, src |-> meta.src, dst |-> meta.dst, dLen |-> dLen].dLen = dLen
      OBVIOUS
    <3> QED BY <3>1, <3>2
  <2>2. /\ txp_appMeta' = InMetaOf[z] /\ txp_lenCnt' = dLen /\ txp_fsmState' = "TXP_META"
        /\ txp_appMeta'.dLen = dLen
    BY DEF TxpStart
  <2> QED BY <1>3, <2>1, <2>2 DEF TxpAt
<1>5. FromUafFlow(z, w)'
  <2>1. PICK segs \in Seq(EchoSeg) : FromUafStage(NoSeg, On(wrp_fsmState = "WRP_STREAM", w), segs)
    BY DEF FlowBy, FromUafFlow, On
  <2>2. On(txp_fsmState' = "TXP_DATA", z) = NoSeg
    BY DEF TxpStart, On
  <2> QED BY <2>1, <2>2 DEF FromUafFlow, FromUafStage, linkVars, fromUafVars, usifVars, wrpVars
<1> QED BY <1>1, <1>2, <1>3, <1>4, <1>5, FlowParts DEF FlowInv, FlowBy

LEMMA FlowTxpIdleEPt ==
  ASSUME UdpInv, FlowInv, ~interrupted, TxpIdleEPt, UNCHANGED << usifVars, interrupted >>
  PROVE  FlowInv'
<1>1. PICK r \in SomeSeg, x \in SomeSeg, o \in SomeSeg, t \in SomeSeg, w \in SomeSeg, y \in SomeSeg :
        FlowBy(r, x, o, t, w, y)
  BY DEF FlowInv
<1>2. /\ UNCHANGED << linkVars, rxpVars, ssRXp_Data, esfOutVars, txp_stalled, usifVars >>
      /\ piSHL_Enable /\ txp_fsmState = "TXP_IDLE"
      /\ ssRXp_Meta["EPT"] # << >> /\ ssRXp_DLen["EPT"] # << >>
      /\ TxpStart("EPT", Head(ssRXp_Meta["EPT"]), Head(ssRXp_DLen["EPT"]))
      /\ ssRXp_Meta' = [ssRXp_Meta EXCEPT !["EPT"] = Tail(@)]
      /\ ssRXp_DLen' = [ssRXp_DLen EXCEPT !["EPT"] = Tail(@)]
  BY DEF TxpIdleEPt, EPtWaits, TXpUnchanged, linkVars, Dequeue
<1>3. /\ ssRXp_Meta \in [Lines -> Seq(EchoMeta)] /\ ssRXp_DLen \in [Lines -> Seq(Nat)]
  BY DEF UdpInv, RxpOutInv
<1>4. t = NoSeg /\ txp_echoMode' = "EPT"
  BY <1>1, <1>2 DEF FlowBy, TxpAt, TxpStart
<1>5. PICK d \in SomeSeg, e \in EchoSeg \cup {NoSeg} :
        /\ d = On(rxp_echoMode = "EPT" /\ rxp_fsmState = "RXP_DATA", x)
        /\ e = On(rxp_echoMode = "EPT", o)
  BY <1>1 DEF FlowBy, RxpAt, On, SomeSeg
<1>6. PICK sent \in Seq(EchoSeg), closed \in Seq(EchoSeg) : LineStage("EPT", d, e, NoSeg, sent, closed)
  BY <1>1, <1>4, <1>5 DEF FlowBy, LineFlow, Lines, On
<1>7. /\ sent = << >> /\ ssRXp_Meta["EPT"] = Image(EchoMetaOf, Plus(closed, e))
      /\ ssRXp_DLen["EPT"] = Image(LeftOf, closed)
      /\ Cut(LineData("EPT"), With(NoSeg, << >> \o Plus(closed, e)), d)
  BY <1>6 DEF LineStage
<1>8. closed \in Seq(Seg) /\ closed # << >>
  <2>1. closed \in Seq(Seg)
    BY SegKinds
  <2> QED BY <1>2, <1>7, <2>1, ImageOps
<1>9. PICK z \in EchoSeg, less \in Seq(EchoSeg) : z = Head(closed) /\ less = Tail(closed)
  BY <1>8, QueueOps
<1>10. /\ Plus(closed, e) \in Seq(EchoSeg) /\ Plus(closed, e) # << >>
       /\ Head(Plus(closed, e)) = z /\ Tail(Plus(closed, e)) = Plus(less, e)
  BY <1>8, <1>9, PlusTake
<1>11. Plus(closed, e) \in Seq(Seg) /\ Plus(less, e) \in Seq(EchoSeg)
  BY <1>10, SegKinds, QueueOps
<1>12. /\ Head(ssRXp_DLen["EPT"]) = LeftOf[z] /\ Tail(ssRXp_DLen["EPT"]) = Image(LeftOf, less)
       /\ Head(ssRXp_Meta["EPT"]) = EchoMetaOf[z]
       /\ Tail(ssRXp_Meta["EPT"]) = Image(EchoMetaOf, Plus(less, e))
  <2>1. /\ Head(Image(LeftOf, closed)) = LeftOf[Head(closed)]
        /\ Tail(Image(LeftOf, closed)) = Image(LeftOf, Tail(closed))
    BY <1>8, ImageOps
  <2>2. /\ Head(Image(EchoMetaOf, Plus(closed, e))) = EchoMetaOf[Head(Plus(closed, e))]
        /\ Tail(Image(EchoMetaOf, Plus(closed, e))) = Image(EchoMetaOf, Tail(Plus(closed, e)))
    BY SMTT(30), <1>10, <1>11, ImageOps
  <2> QED BY <1>7, <1>9, <1>10, <2>1, <2>2
<1>13. Cut(LineData("EPT"), With(z, << >> \o Plus(less, e)), d)
  <2>1. With(NoSeg, Plus(closed, e)) = With(z, Plus(less, e))
    BY <1>10, <1>11, CutBegin
  <2>2. << >> \o Plus(closed, e) = Plus(closed, e) /\ << >> \o Plus(less, e) = Plus(less, e)
    BY <1>10, <1>11, Concats
  <2> QED BY <1>7, <2>1, <2>2
<1>14. LineFlow("EPT", x, o, z)'
  <2>1. UNCHANGED LineData("EPT")
    BY <1>2 DEF LineData, esfOutVars
  <2>2. ssRXp_Meta'["EPT"] = Tail(ssRXp_Meta["EPT"]) /\ ssRXp_DLen'["EPT"] = Tail(ssRXp_DLen["EPT"])
    BY <1>2, <1>3 DEF Lines
  <2>3. LineStage("EPT", d, e, z, sent, less)'
    BY <1>7, <1>12, <1>13, <2>1, <2>2 DEF LineStage
  <2> QED BY <1>2, <1>4, <1>5, <2>3 DEF LineFlow, On, rxpVars
<1>15. LineFlow("ESF", x, o, z)'
  <2>1. LineFlow("ESF", x, o, t) /\ "ESF" \in Lines
    BY <1>1 DEF FlowBy, Lines
  <2>2. /\ ssRXp_Meta'["ESF"] = ssRXp_Meta["ESF"] /\ ssRXp_DLen'["ESF"] = ssRXp_DLen["ESF"]
    BY <1>2, <1>3 DEF Lines
  <2> QED BY <1>2, <1>4, <2>1, <2>2, LineKept DEF On, rxpVars
<1>16. [dgm |-> Head(ssRXp_Meta["EPT"]).dgm, src |-> Head(ssRXp_Meta["EPT"]).src,
        dst |-> Head(ssRXp_Meta["EPT"]).dst, dLen |-> Head(ssRXp_DLen["EPT"])] = InMetaOf[z]
  <2>1. z \in Seg
    BY SegKinds
  <2> QED BY <1>12, <2>1 DEF EchoMetaOf, LeftOf, InMetaOf
<1>17. \A p \in Lines : LineFlow(p, x, o, z)'
  BY <1>14, <1>15 DEF Lines
<1>18. "EPT" \in Lines
  BY DEF Lines
<1> QED BY <1>1, <1>2, <1>16, <1>17, <1>18, TxpBegins

LEMMA FlowTxpIdleESf ==
  ASSUME UdpInv, FlowInv, ~interrupted, TxpIdleESf, UNCHANGED << usifVars, interrupted >>
  PROVE  FlowInv'
<1>1. PICK r \in SomeSeg, x \in SomeSeg, o \in SomeSeg, t \in SomeSeg, w \in SomeSeg, y \in SomeSeg :
        FlowBy(r, x, o, t, w, y)
  BY DEF FlowInv
<1>2. /\ UNCHANGED << linkVars, rxpVars, rxpOutVars, ssESfToTXp_Data, txp_stalled, usifVars >>
      /\ piSHL_Enable /\ txp_fsmState = "TXP_IDLE" /\ ssESfToTXp_Meta # << >>
      /\ TxpStart("ESF", Head(ssESfToTXp_Meta), Head(ssESfToTXp_Meta).dLen)
      /\ ssESfToTXp_Meta' = Tail(ssESfToTXp_Meta)
  BY DEF TxpIdleESf, TXpUnchanged, linkVars, Dequeue
<1>3. t = NoSeg /\ txp_echoMode' = "ESF"
  BY <1>1, <1>2 DEF FlowBy, TxpAt, TxpStart
<1>4. PICK d \in SomeSeg, e \in EchoSeg \cup {NoSeg} :
        /\ d = On(rxp_echoMode = "ESF" /\ rxp_fsmState = "RXP_DATA", x)
        /\ e = On(rxp_echoMode = "ESF", o)
  BY <1>1 DEF FlowBy, RxpAt, On, SomeSeg
<1>5. PICK sent \in Seq(EchoSeg), closed \in Seq(EchoSeg) : LineStage("ESF", d, e, NoSeg, sent, closed)
  BY <1>1, <1>3, <1>4 DEF FlowBy, LineFlow, Lines, On
<1>6. /\ ssESfToTXp_Meta = Image(InMetaOf, sent) /\ sent \in Seq(Seg)
      /\ Cut(LineData("ESF"), With(NoSeg, sent \o Plus(closed, e)), d)
  BY <1>5, SegKinds DEF LineStage
<1>7. /\ sent # << >> /\ Head(ssESfToTXp_Meta) = InMetaOf[Head(sent)]
      /\ Tail(ssESfToTXp_Meta) = Image(InMetaOf, Tail(sent))
  BY <1>2, <1>6, ImageOps
<1>8. PICK z \in EchoSeg, less \in Seq(EchoSeg) : z = Head(sent) /\ less = Tail(sent)
  BY <1>7, QueueOps
<1>9. Cut(LineData("ESF"), With(z, less \o Plus(closed, e)), d)
  <2>1. PICK rest \in Seq(EchoSeg) : rest = Plus(closed, e)
    BY QueueOps DEF Plus
  <2>2. sent \o rest # << >> /\ Head(sent \o rest) = z /\ Tail(sent \o rest) = less \o rest
    BY <1>7, <1>8, HeadTailConcat
  <2>3. sent \o rest \in Seq(EchoSeg)
    OBVIOUS
  <2>4. sent \o rest \in Seq(Seg)
    BY <2>3, SegKinds
  <2>5. With(NoSeg, sent \o rest) = With(z, less \o rest)
    BY <2>2, <2>4, CutBegin
  <2> QED BY <1>6, <2>1, <2>5
<1>10. LineFlow("ESF", x, o, z)'
  <2>1. UNCHANGED LineData("ESF")
    BY <1>2 DEF LineData, rxpOutVars
  <2>2. LineStage("ESF", d, e, z, less, closed)'
    BY <1>2, <1>5, <1>7, <1>8, <1>9, <2>1 DEF LineStage, rxpOutVars
  <2> QED BY <1>2, <1>3, <1>4, <2>2 DEF LineFlow, On, rxpVars
<1>11. LineFlow("EPT", x, o, z)'
  <2>1. LineFlow("EPT", x, o, t) /\ "EPT" \in Lines
    BY <1>1 DEF FlowBy, Lines
  <2> QED BY <1>2, <1>3, <2>1, LineKept DEF On, rxpVars, rxpOutVars
<1>12. /\ InMetaOf[z].dLen = Head(ssESfToTXp_Meta).dLen
       /\ [dgm |-> Head(ssESfToTXp_Meta).dgm, src |-> Head(ssESfToTXp_Meta).src,
           dst |-> Head(ssESfToTXp_Meta).dst, dLen |-> Head(ssESfToTXp_Meta).dLen] = InMetaOf[z]
  <2>1. z \in Seg
    BY SegKinds
  <2> QED BY <1>7, <1>8, <2>1 DEF InMetaOf
<1>13. \A p \in Lines : LineFlow(p, x, o, z)'
  BY <1>10, <1>11 DEF Lines
<1>14. "ESF" \in Lines
  BY DEF Lines
<1> QED BY <1>1, <1>2, <1>12, <1>13, <1>14, TxpBegins

\* What the swap of TXp makes of the metadata of a datagram to echo.
LEMMA SwapFields ==
  ASSUME NEW s \in EchoSeg
  PROVE  Swapped(InMetaOf[s]) = SentOf[s]
<1>1. s \in Seg /\ s.port \in EchoPorts /\ s.port # XMIT_MODE_LSN_PORT
  BY SegKinds DEF EchoSeg, EchoPorts
<1>2. PICK m \in EchoMetaDLen : /\ m = InMetaOf[s] /\ m.dgm = s.dgm /\ m.src = Senders[s.dgm]
                               /\ m.dst = s.port /\ m.dLen = s.left
  <2>1. PICK m \in EchoMetaDLen :
          m = [dgm |-> s.dgm, src |-> Senders[s.dgm], dst |-> s.port, dLen |-> s.left]
    BY <1>1, HostOf DEF EchoMetaDLen, Seg
  <2>2. m = InMetaOf[s]
    BY <1>1, <2>1 DEF InMetaOf
  <2> QED BY <2>1, <2>2
<1>3. Swapped(m) \in AnswerMeta
  BY DEF Swapped, EchoMetaDLen, AnswerMeta
<1>4. /\ Swapped(m).src = m.dst /\ Swapped(m).dst = m.src
      /\ Swapped(m).dgm = m.dgm /\ Swapped(m).dLen = m.dLen
  BY Zenon DEF Swapped, EchoMetaDLen
<1>5. SentOf[s] = [dgm |-> s.dgm, src |-> s.port, dst |-> Senders[s.dgm], dLen |-> s.left]
  BY <1>1 DEF SentOf, Addressee
<1> QED BY <1>2, <1>3, <1>4, <1>5 DEF AnswerMeta

LEMMA FlowTxpMeta ==
  ASSUME UdpInv, FlowInv, ~interrupted, TxpMeta, UNCHANGED << usifVars, interrupted >>
  PROVE  FlowInv'
<1>0. Quiet /\ Requests
  BY DEF FlowInv
<1>1. PICK r \in SomeSeg, x \in SomeSeg, o \in SomeSeg, t \in SomeSeg, w \in SomeSeg, y \in SomeSeg :
        FlowBy(r, x, o, t, w, y)
  BY DEF FlowInv
<1>2. /\ UNCHANGED << piSHL_Enable, toUafVars, rxpVars, rxpOutVars, esfOutVars, ssUAFToUSIF_Data,
                      txp_echoMode, txp_appMeta, txp_lenCnt, txp_stalled, usifVars >>
      /\ txp_fsmState = "TXP_META" /\ txp_fsmState' = "TXP_DATA"
      /\ ssUAFToUSIF_Meta' = Append(ssUAFToUSIF_Meta, Swapped(txp_appMeta))
  BY DEF TxpMeta, TXpUnchanged
<1>3. /\ RdpAt(r)' /\ RxpAt(x, o)' /\ WrpAt(w)' /\ UoeAt(y)' /\ InFlow(r)' /\ ToUafFlow(r, x)'
      /\ (\A p \in Lines : LineFlow(p, x, o, t)') /\ OutFlow(w, y)'
  BY <1>1, <1>2, FlowKept DEF usifVars, rdpVars, wrpVars, rxpVars
<1>4. Quiet' /\ Requests'
  BY <1>0, <1>2 DEF Quiet, UafHolds, Requests, toUafVars, usifVars, rdpVars, rxpVars, rxpOutVars,
     esfOutVars
<1>5. t \in EchoSeg /\ t # NoSeg /\ txp_appMeta = InMetaOf[t]
  BY <1>1, <1>2 DEF FlowBy, TxpAt
<1>6. TxpAt(t)'
  BY <1>1, <1>2, <1>5 DEF FlowBy, TxpAt
<1>7. FromUafFlow(t, w)'
  <2>1. PICK f \in SomeSeg : f = On(wrp_fsmState = "WRP_STREAM", w)
    BY DEF On, SomeSeg
  <2>2. PICK segs \in Seq(EchoSeg) : FromUafStage(NoSeg, f, segs)
    BY <1>1, <1>2, <2>1 DEF FlowBy, FromUafFlow, On
  <2>3. t \in Seg /\ segs \in Seq(Seg) /\ Append(segs, t) \in Seq(EchoSeg)
    BY <1>5, SegKinds, QueueOps
  <2>4. Swapped(txp_appMeta) = SentOf[t]
    BY <1>5, SwapFields
  <2>5. ssUAFToUSIF_Meta' = Image(SentOf, Append(segs, t))
    BY <1>2, <2>2, <2>3, <2>4, ImageOps DEF FromUafStage
  <2>6. Cut(ssUAFToUSIF_Data, With(f, Append(segs, t)), t)
    BY <2>2, <2>3, CutAnnounce DEF FromUafStage
  <2>7. On(txp_fsmState' = "TXP_DATA", t) = t /\ UNCHANGED wrp_fsmState
    BY <1>2 DEF On, usifVars, wrpVars
  <2> QED BY <1>2, <2>1, <2>3, <2>5, <2>6, <2>7 DEF FromUafFlow, FromUafStage
<1> QED BY <1>3, <1>4, <1>6, <1>7, FlowParts DEF FlowInv, FlowBy

\* What TXp sends is the head of its line.
LEMMA TxpTakes ==
  ASSUME UdpInv, TxpData
  PROVE  /\ LineData(txp_echoMode) # << >> /\ LineData(txp_echoMode)' = Tail(LineData(txp_echoMode))
         /\ TxpSends(Head(LineData(txp_echoMode)))
         /\ \A p \in Lines : p # txp_echoMode => ssRXp_Data'[p] = ssRXp_Data[p]
         /\ txp_echoMode # "ESF" => UNCHANGED esfOutVars
<1>1. /\ ssRXp_Data \in [Lines -> Seq(Chunk)] /\ ssESfToTXp_Data \in Seq(Chunk)
      /\ UNCHANGED << txp_echoMode, ssESfToTXp_Meta >>
  BY DEF UdpInv, RxpOutInv, EsfOutInv, TxpData
<1>2. CASE txp_echoMode = "EPT"
  <2>1. /\ ssRXp_Data["EPT"] # << >> /\ TxpSends(Head(ssRXp_Data["EPT"]))
        /\ ssRXp_Data' = [ssRXp_Data EXCEPT !["EPT"] = Tail(@)] /\ UNCHANGED ssESfToTXp_Data
    BY <1>2 DEF TxpData, Dequeue
  <2> QED BY <1>1, <1>2, <2>1 DEF LineData, Lines, esfOutVars
<1>3. CASE txp_echoMode = "ESF"
  <2>1. /\ ssESfToTXp_Data # << >> /\ TxpSends(Head(ssESfToTXp_Data))
        /\ ssESfToTXp_Data' = Tail(ssESfToTXp_Data) /\ UNCHANGED ssRXp_Data
    BY <1>3 DEF TxpData, Dequeue
  <2>2. ssRXp_Data["ESF"] \in Seq(Chunk)
    BY <1>1 DEF Lines
  <2>3. /\ LineData("ESF") = ssESfToTXp_Data \o ssRXp_Data["ESF"]
        /\ LineData("ESF")' = Tail(ssESfToTXp_Data) \o ssRXp_Data["ESF"]
    BY <2>1 DEF LineData
  <2>4. /\ LineData("ESF") # << >> /\ Head(LineData("ESF")) = Head(ssESfToTXp_Data)
        /\ Tail(LineData("ESF")) = Tail(ssESfToTXp_Data) \o ssRXp_Data["ESF"]
    BY <1>1, <2>1, <2>2, <2>3, HeadTailConcat
  <2> QED BY <1>1, <1>3, <2>1, <2>3, <2>4
<1> QED BY <1>2, <1>3 DEF TxpData

LEMMA FlowTxpData ==
  ASSUME UdpInv, FlowInv, ~interrupted, TxpData, UNCHANGED << usifVars, interrupted >>
  PROVE  FlowInv'
<1>0. Quiet /\ Requests
  BY DEF FlowInv
<1>1. PICK r \in SomeSeg, x \in SomeSeg, o \in SomeSeg, t \in SomeSeg, w \in SomeSeg, y \in SomeSeg :
        FlowBy(r, x, o, t, w, y)
  BY DEF FlowInv
<1>2. PICK c :
        /\ c = Head(LineData(txp_echoMode))
        /\ LineData(txp_echoMode) # << >> /\ LineData(txp_echoMode)' = Tail(LineData(txp_echoMode))
        /\ ssUAFToUSIF_Data' = Append(ssUAFToUSIF_Data, c)
        /\ txp_lenCnt' = IF txp_appMeta.dLen = 0 THEN txp_lenCnt + c.len ELSE txp_lenCnt - c.len
        /\ txp_fsmState' = IF TxpEnds(c) THEN "TXP_IDLE" ELSE "TXP_DATA"
        /\ \A p \in Lines : p # txp_echoMode => ssRXp_Data'[p] = ssRXp_Data[p]
        /\ txp_echoMode # "ESF" => UNCHANGED esfOutVars
  BY TxpTakes DEF TxpSends, TxpData
<1>3. /\ UNCHANGED << piSHL_Enable, toUafVars, rxpVars, txp_echoMode, txp_appMeta, txp_stalled,
                      ssRXp_Meta, ssRXp_DLen, ssESfToTXp_Meta, ssUAFToUSIF_Meta, usifVars >>
      /\ txp_fsmState = "TXP_DATA" /\ txp_echoMode \in Lines
  BY DEF TxpData, TXpUnchanged, UdpInv, TxpInv
<1>4. /\ RdpAt(r)' /\ RxpAt(x, o)' /\ WrpAt(w)' /\ UoeAt(y)' /\ InFlow(r)' /\ ToUafFlow(r, x)'
      /\ OutFlow(w, y)'
  BY <1>1, <1>3, FlowKept DEF usifVars, rdpVars, wrpVars
<1>5. Quiet' /\ Requests'
  BY <1>0, <1>2, <1>3 DEF Quiet, UafHolds, Requests, toUafVars, usifVars, rdpVars, rxpVars
<1>6. t \in EchoSeg /\ t # NoSeg /\ txp_lenCnt = t.left /\ txp_appMeta.dLen # 0
  BY <1>1, <1>3 DEF FlowBy, TxpAt
<1>7. t \in Seg /\ t.left \in Nat /\ t.left > 0
  BY <1>6, SegKinds DEF Seg
<1>8. PICK z \in EchoSeg \cup {NoSeg} : z = RestOf[t]
  BY <1>6, <1>7, RestFields
<1>9. PICK sent \in Seq(EchoSeg), closed \in Seq(EchoSeg), d \in SomeSeg, e \in EchoSeg \cup {NoSeg} :
        /\ d = On(rxp_echoMode = txp_echoMode /\ rxp_fsmState = "RXP_DATA", x)
        /\ e = On(rxp_echoMode = txp_echoMode, o)
        /\ LineStage(txp_echoMode, d, e, t, sent, closed)
  <2>1. LineFlow(txp_echoMode, x, o, t) /\ o \in EchoSeg \cup {NoSeg}
    BY <1>1, <1>3 DEF FlowBy, RxpAt
  <2>2. PICK d \in SomeSeg, e \in EchoSeg \cup {NoSeg} :
          /\ d = On(rxp_echoMode = txp_echoMode /\ rxp_fsmState = "RXP_DATA", x)
          /\ e = On(rxp_echoMode = txp_echoMode, o)
    BY <2>1 DEF On, SomeSeg
  <2> QED BY <2>1, <2>2 DEF LineFlow, On
<1>10. /\ c = ChunkAt[t]
       /\ Cut(Tail(LineData(txp_echoMode)), With(z, sent \o Plus(closed, e)), d)
  <2>1. Plus(closed, e) \in Seq(EchoSeg)
    BY QueueOps DEF Plus
  <2>2. sent \o Plus(closed, e) \in Seq(EchoSeg)
    BY <2>1
  <2>3. sent \o Plus(closed, e) \in Seq(Seg)
    BY <2>2, SegKinds
  <2>4. Cut(LineData(txp_echoMode), With(t, sent \o Plus(closed, e)), d)
    BY <1>9 DEF LineStage
  <2> QED BY <1>2, <1>7, <1>8, <2>3, <2>4, CutTake
<1>11. /\ c.len = LenOfChunk(t.left) /\ (c.tlast <=> t.left <= ARW_BYTES)
       /\ txp_lenCnt' = t.left - LenOfChunk(t.left)
  BY <1>2, <1>6, <1>7, <1>10, ChunkFields
<1>12. z \in SomeSeg /\ TxpAt(z)' /\ (z = NoSeg <=> txp_fsmState' # "TXP_DATA")
  <2>1. CASE t.left <= ARW_BYTES
    <3>1. z = NoSeg /\ TxpEnds(c)
      BY <1>7, <1>8, <1>11, <2>1, RestFields DEF TxpEnds
    <3> QED BY <1>2, <3>1 DEF TxpAt, SomeSeg
  <2>2. CASE t.left > ARW_BYTES
    <3>1. /\ z \in Seg /\ z # NoSeg /\ LenOfChunk(t.left) = ARW_BYTES
          /\ z = SegOf(t.dgm, t.port, NextData(t.data), t.left - ARW_BYTES)
      BY <1>7, <1>8, <2>2, SegKinds, RestFields
    <3>2. txp_lenCnt' = z.left
      BY <1>11, <3>1 DEF SegOf
    <3>3. ~TxpEnds(c)
      <4>1. ~(t.left <= ARW_BYTES) /\ ~(t.left - ARW_BYTES <= 0)
        BY <1>7, <2>2 DEF ARW_BYTES
      <4> QED BY <1>6, <1>11, <3>1, <4>1 DEF TxpEnds
    <3> QED BY <1>2, <1>3, <1>6, <1>8, <3>1, <3>2, <3>3 DEF TxpAt, SomeSeg
  <2> QED BY <1>7, <2>1, <2>2 DEF ARW_BYTES
<1>13. FromUafFlow(z, w)'
  <2>1. PICK segs \in Seq(EchoSeg) : FromUafStage(t, On(wrp_fsmState = "WRP_STREAM", w), segs)
    BY <1>1, <1>3 DEF FlowBy, FromUafFlow, On
  <2>2. Cut(Append(ssUAFToUSIF_Data, c), With(On(wrp_fsmState = "WRP_STREAM", w), segs), z)
    BY <1>7, <1>8, <1>10, <2>1, CutPut DEF FromUafStage
  <2>3. On(txp_fsmState' = "TXP_DATA", z) = z /\ UNCHANGED wrp_fsmState
    BY <1>3, <1>12 DEF On, usifVars, wrpVars
  <2> QED BY <1>2, <1>3, <2>1, <2>2, <2>3 DEF FromUafFlow, FromUafStage
<1>14. ASSUME NEW p \in Lines PROVE LineFlow(p, x, o, z)'
  <2>1. CASE p # txp_echoMode
    <3>1. LineFlow(p, x, o, t) /\ ssRXp_Data'[p] = ssRXp_Data[p]
      BY <1>1, <1>2, <2>1 DEF FlowBy
    <3>2. p = "ESF" => UNCHANGED esfOutVars
      BY <1>2, <1>3, <2>1 DEF Lines
    <3> QED BY <1>3, <2>1, <3>1, <3>2, LineKept DEF On, rxpVars
  <2>2. CASE p = txp_echoMode
    <3>1. LineStage(p, d, e, z, sent, closed)'
      BY <1>2, <1>3, <1>9, <1>10, <2>2 DEF LineStage
    <3> QED BY <1>3, <1>9, <2>2, <3>1 DEF LineFlow, On, rxpVars
  <2> QED BY <2>1, <2>2
<1> QED BY <1>4, <1>5, <1>12, <1>13, <1>14, FlowParts DEF FlowInv, FlowBy

-----------------------------------------------------------------------------
(* The step of the host, and the whole.                                     *)

LEMMA FlowMmio ==
  ASSUME UdpInv, FlowInv, ~interrupted, Mmio
  PROVE  FlowInv'
<1>0. Quiet /\ Requests
  BY DEF FlowInv
<1>1. PICK r \in SomeSeg, x \in SomeSeg, o \in SomeSeg, t \in SomeSeg, w \in SomeSeg, y \in SomeSeg :
        FlowBy(r, x, o, t, w, y)
  BY DEF FlowInv
<1>2. UNCHANGED << toUafVars, fromUafVars, usifVars, uafVars >>
  BY DEF Mmio
<1>3. /\ RdpAt(r)' /\ RxpAt(x, o)' /\ TxpAt(t)' /\ WrpAt(w)' /\ UoeAt(y)' /\ InFlow(r)'
      /\ ToUafFlow(r, x)' /\ (\A p \in Lines : LineFlow(p, x, o, t)') /\ FromUafFlow(t, w)'
      /\ OutFlow(w, y)'
  BY <1>1, <1>2, FlowKept DEF usifVars, rdpVars, wrpVars, uafVars, rxpVars, txpVars
<1>4. Requests'
  BY <1>0, <1>2 DEF Requests, usifVars
<1>5. UNCHANGED UafHolds
  BY <1>2 DEF UafHolds, toUafVars, usifVars, rdpVars, uafVars, rxpVars, rxpOutVars, esfOutVars
<1>6. interrupted' \/ Quiet'
  <2>1. CASE MmioClear
    BY <1>0, <1>2, <1>5, <2>1 DEF MmioClear, Quiet, uafVars, rxpVars, txpVars
  <2>2. CASE MmioSet
    BY <1>0, <1>2, <2>2 DEF MmioSet, Quiet, uafVars, rxpVars, txpVars
  <2> QED BY <2>1, <2>2 DEF Mmio
<1> QED BY <1>3, <1>4, <1>6, FlowParts DEF FlowInv, FlowBy

LEMMA FlowStep ==
  ASSUME UdpInv, FlowInv, [UdpNext]_allVars
  PROVE  FlowInv'
<1>1. CASE interrupted
  <2>1. interrupted'
    BY <1>1, Zenon DEF UdpNext, Mmio, MmioClear, MmioSet, allVars
  <2> QED BY <2>1 DEF FlowInv
<1>2. CASE ~interrupted
  <2>1. CASE Mmio
    BY <1>2, <2>1, FlowMmio
  <2>2. CASE (UoeWrites \/ UoeData \/ UoeReads) /\ UNCHANGED << uafVars, interrupted >>
    BY <1>2, <2>2, FlowAnnounce, FlowUoeData, FlowUoeTakes DEF UoeWrites
  <2>3. CASE RDp /\ UNCHANGED << uafVars, interrupted >>
    BY <1>2, <2>3, FlowRdpIdle, FlowRdpFwdMeta, FlowRdpFwdStream, FlowRdpSinks DEF RDp
  <2>4. CASE WRp /\ UNCHANGED << uafVars, interrupted >>
    BY <1>2, <2>4, FlowWrpIdleTest, FlowWrpIdleUaf, FlowWrpStream, FlowWrp8801 DEF WRp
  <2>5. CASE RXp /\ UNCHANGED << usifVars, interrupted >>
    BY <1>2, <2>5, FlowRxpRests, FlowRxpIdle, FlowRxpMeta, FlowRxpData, FlowRxpDLen DEF RXp
  <2>6. CASE ESf /\ UNCHANGED << usifVars, interrupted >>
    BY <1>2, <2>6, FlowESf
  <2>7. CASE TXp /\ UNCHANGED << usifVars, interrupted >>
    BY <1>2, <2>7, FlowTxpRests, FlowTxpIdleEPt, FlowTxpIdleESf, FlowTxpMeta, FlowTxpData DEF TXp
  <2>8. CASE UNCHANGED allVars
    <3>1. PICK r \in SomeSeg, x \in SomeSeg, o \in SomeSeg, t \in SomeSeg, w \in SomeSeg, y \in SomeSeg :
            Quiet /\ Requests /\ FlowBy(r, x, o, t, w, y)
      BY <1>2 DEF FlowInv
    <3>2. UNCHANGED << linkVars, usifVars, uafVars >>
      BY <2>8 DEF allVars
    <3>3. /\ RdpAt(r)' /\ RxpAt(x, o)' /\ TxpAt(t)' /\ WrpAt(w)' /\ UoeAt(y)' /\ InFlow(r)'
          /\ ToUafFlow(r, x)' /\ (\A p \in Lines : LineFlow(p, x, o, t)') /\ FromUafFlow(t, w)'
          /\ OutFlow(w, y)'
      BY <3>1, <3>2, FlowKept DEF linkVars, usifVars, rdpVars, wrpVars, uafVars, rxpVars, txpVars
    <3>4. Quiet' /\ Requests'
      BY <3>1, <3>2, QuietKept DEF Requests, linkVars, toUafVars, usifVars, rdpVars, uafVars,
         rxpVars, rxpOutVars, esfOutVars, txpVars
    <3> QED BY <3>3, <3>4, FlowParts DEF FlowInv, FlowBy
  <2> QED BY <2>1, <2>2, <2>3, <2>4, <2>5, <2>6, <2>7, <2>8 DEF UdpNext, USIF, UAF
<1> QED BY <1>1, <1>2

-----------------------------------------------------------------------------
(* What the UOE takes.                                                      *)

\* The chunk at the output is cut from the datagram the UOE is in the middle of.
LEMMA UoeReadsDatagram ==
  ASSUME FlowInv, ~interrupted, uoeDue > 0, soSHL_Data # << >>
  PROVE  \E y \in Seg :
           /\ y = SegOf(uoeMeta.dgm, uoeMeta.src, PayloadAt(uoeMeta, uoeDue), uoeDue)
           /\ Head(soSHL_Data) = ChunkAt[y] /\ uoeDue \in Nat
           /\ uoeMeta.src # RECV_MODE_LSN_PORT
           /\ uoeMeta.dst = Addressee(uoeMeta.dgm, uoeMeta.src)
<1>1. PICK r \in SomeSeg, x \in SomeSeg, o \in SomeSeg, t \in SomeSeg, w \in SomeSeg, y \in SomeSeg :
        FlowBy(r, x, o, t, w, y)
  BY DEF FlowInv
<1>2. /\ y \in Seg /\ uoeDue \in Nat
      /\ y = SegOf(uoeMeta.dgm, uoeMeta.src, PayloadAt(uoeMeta, uoeDue), uoeDue)
      /\ uoeMeta.src # RECV_MODE_LSN_PORT
      /\ uoeMeta.dst = Addressee(uoeMeta.dgm, uoeMeta.src)
  BY <1>1 DEF FlowBy, UoeAt, SomeSeg
<1>3. PICK segs \in Seq(OutSeg) : OutStage(w, y, segs)
  BY <1>1 DEF FlowBy, OutFlow
<1>4. Head(soSHL_Data) = ChunkAt[y]
  BY <1>2, <1>3, OutSegs, CutTake DEF OutStage
<1> QED BY <1>2, <1>4

LEMMA FlowGivesExact == ASSUME FlowInv PROVE DatagramsExact
<1> SUFFICES ASSUME ~interrupted, uoeDue > 0, soSHL_Data # << >> PROVE DatagramsExact
  BY DEF DatagramsExact
<1>1. PICK y \in Seg : /\ y = SegOf(uoeMeta.dgm, uoeMeta.src, PayloadAt(uoeMeta, uoeDue), uoeDue)
                       /\ Head(soSHL_Data) = ChunkAt[y] /\ uoeDue \in Nat
  BY UoeReadsDatagram
<1>2. y.dgm = uoeMeta.dgm /\ y.port = uoeMeta.src /\ y.left = uoeDue
  BY <1>1 DEF SegOf
<1>3. /\ Head(soSHL_Data).dgm = uoeMeta.dgm /\ Head(soSHL_Data).port = uoeMeta.src
      /\ Head(soSHL_Data).len = LenOfChunk(uoeDue)
      /\ Head(soSHL_Data).tlast <=> uoeDue <= ARW_BYTES
  BY <1>1, <1>2, ChunkFields
<1>4. LenOfChunk(uoeDue) <= uoeDue /\ (uoeDue <= ARW_BYTES <=> LenOfChunk(uoeDue) = uoeDue)
  BY <1>1 DEF LenOfChunk, ARW_BYTES
<1> QED BY <1>3, <1>4 DEF DatagramsExact

LEMMA FlowGivesAddressee == ASSUME FlowInv PROVE RightAddressee
<1> SUFFICES ASSUME ~interrupted, uoeDue > 0, soSHL_Data # << >> PROVE RightAddressee
  BY DEF RightAddressee
<1>1. PICK y \in Seg : /\ y = SegOf(uoeMeta.dgm, uoeMeta.src, PayloadAt(uoeMeta, uoeDue), uoeDue)
                       /\ Head(soSHL_Data) = ChunkAt[y] /\ uoeMeta.src # RECV_MODE_LSN_PORT
                       /\ uoeMeta.dst = Addressee(uoeMeta.dgm, uoeMeta.src)
  BY UoeReadsDatagram
<1>2. y.dgm = uoeMeta.dgm /\ y.port = uoeMeta.src
  BY <1>1 DEF SegOf
<1>3. Head(soSHL_Data).dgm = uoeMeta.dgm /\ Head(soSHL_Data).port = uoeMeta.src
  BY <1>1, <1>2, ChunkFields
<1> QED BY <1>1, <1>3 DEF RightAddressee

LEMMA FlowGivesPattern == ASSUME FlowInv PROVE TestPattern
<1> SUFFICES ASSUME ~interrupted, uoeDue > 0, soSHL_Data # << >> PROVE TestPattern
  BY DEF TestPattern
<1>1. PICK y \in Seg : /\ y = SegOf(uoeMeta.dgm, uoeMeta.src, PayloadAt(uoeMeta, uoeDue), uoeDue)
                       /\ Head(soSHL_Data) = ChunkAt[y]
  BY UoeReadsDatagram
<1>2. y.data = PayloadAt(uoeMeta, uoeDue)
  BY <1>1 DEF SegOf
<1>3. Head(soSHL_Data).data = PayloadAt(uoeMeta, uoeDue)
  BY <1>1, <1>2, ChunkFields
<1> QED BY <1>3 DEF TestPattern, PayloadAt

\* The chunks the UOE takes after a metadata are those of the datagram it
\* names, exactly as many bytes as it announces, TLAST with the last: UAF/TXp
\* and USIF/WRp never mix two datagrams, the two lines of UAF never cross, and
\* the length that RXp passes on late is the right one.
THEOREM DatagramsStayWhole == UdpSpec => []DatagramsExact
<1>1. UdpInit => UdpInv /\ FlowInv
  BY InvInit, FlowInit
<1>2. UdpInv /\ FlowInv /\ [UdpNext]_allVars => UdpInv' /\ FlowInv'
  BY UdpStep, FlowStep
<1>3. FlowInv => DatagramsExact
  BY FlowGivesExact
<1> QED BY <1>1, <1>2, <1>3, PTL DEF UdpSpec

\* udp_shell_if.cpp:359-374 (the switch on the port), 403-427 (the target of a
\* test), udp_app_flash.cpp:387-480 (the length follows the data) and 207-246 (the sockets
\* are swapped): until an interruption the bytes of a datagram go back to
\* the host that sent them, and generated ones to the target of their command,
\* whichever hosts send at the same time and whichever line their datagrams take.
THEOREM Addressees == UdpSpec => []RightAddressee
<1>1. UdpInit => UdpInv /\ FlowInv
  BY InvInit, FlowInit
<1>2. UdpInv /\ FlowInv /\ [UdpNext]_allVars => UdpInv' /\ FlowInv'
  BY UdpStep, FlowStep
<1>3. FlowInv => RightAddressee
  BY FlowGivesAddressee
<1> QED BY <1>1, <1>2, <1>3, PTL DEF UdpSpec

\* A datagram the test generator of WRp sends starts with GEN_CHK0 and
\* alternates to its end, and no echo has a chunk of the generator.
THEOREM GeneratedPattern == UdpSpec => []TestPattern
<1>1. UdpInit => UdpInv /\ FlowInv
  BY InvInit, FlowInit
<1>2. UdpInv /\ FlowInv /\ [UdpNext]_allVars => UdpInv' /\ FlowInv'
  BY UdpStep, FlowStep
<1>3. FlowInv => TestPattern
  BY FlowGivesPattern
<1> QED BY <1>1, <1>2, <1>3, PTL DEF UdpSpec

-----------------------------------------------------------------------------
(* The echo of UAF, step by step.                                           *)

EchoOpen == IF txp_fsmState \in {"TXP_META", "TXP_DATA"} THEN txp_echoMode ELSE "NONE"
EchoLines == [p \in Lines |-> IF p = "EPT" THEN ssRXp_Data["EPT"]
                              ELSE ssESfToTXp_Data \o ssRXp_Data["ESF"]]

\* The lines of the echo are those the flow is stated of.
LEMMA EchoLinesAre ==
  /\ \A p \in Lines : EchoLines[p] = LineData(p) /\ EchoLines'[p] = LineData(p)'
  /\ (\A p \in Lines : LineData(p)' = LineData(p)) => UNCHANGED EchoLines
BY DEF EchoLines, LineData

LEMMA Stutters ==
  ASSUME UNCHANGED << ssUSIFToUAF_Data, ssUAFToUSIF_Data >>, UNCHANGED EchoLines, UNCHANGED EchoOpen
  PROVE  UNCHANGED Echo!vars
BY DEF Echo!vars, EchoLines, EchoOpen

\* The steps that move no chunk within UAF and begin no datagram.
LEMMA StepsAside ==
  ASSUME UdpInv, FlowInv, ~interrupted,
         \/ Mmio \/ UNCHANGED allVars
         \/ (UoeWrites \/ UoeData \/ UoeReads) /\ UNCHANGED uafVars
         \/ /\ RdpIdle \/ RdpFwdMeta \/ RdpSinkStream \/ \E count \in TxCounts : Rdp8801(count)
            /\ UNCHANGED uafVars
         \/ (WrpIdleTest \/ WrpIdleUaf \/ Wrp8801) /\ UNCHANGED uafVars
         \/ RxpDisabled \/ RxpDrain \/ RxpIdle \/ RxpMeta \/ RxpDLen
         \/ TxpDisabled \/ TxpDrain \/ TxpMeta
  PROVE  UNCHANGED Echo!vars
<1>1. /\ UNCHANGED << ssUSIFToUAF_Data, ssUAFToUSIF_Data, ssRXp_Data, ssESfToTXp_Data >>
      /\ UNCHANGED EchoOpen
  <2>1. CASE Mmio \/ UNCHANGED allVars
    BY <2>1 DEF Mmio, allVars, linkVars, toUafVars, fromUafVars, uafVars, rxpOutVars, esfOutVars,
       txpVars, EchoOpen
  <2>2. CASE (UoeWrites \/ UoeData \/ UoeReads) /\ UNCHANGED uafVars
    BY <2>2 DEF UoeWrites, UoeReads, UoeAnnounce, UoeData, UoeTakesMeta, UoeTakesData, linkVars,
       toUafVars, fromUafVars, uafVars, rxpOutVars, esfOutVars, txpVars, EchoOpen
  <2>3. CASE /\ RdpIdle \/ RdpFwdMeta \/ RdpSinkStream \/ \E count \in TxCounts : Rdp8801(count)
             /\ UNCHANGED uafVars
    BY <2>3 DEF RdpIdle, RdpFwdMeta, RdpSinkStream, Rdp8801, RDpUnchanged, RdpTakesChunk, toUafVars,
       fromUafVars, uafVars, rxpOutVars, esfOutVars, txpVars, EchoOpen
  <2>4. CASE (WrpIdleTest \/ WrpIdleUaf \/ Wrp8801) /\ UNCHANGED uafVars
    BY <2>4 DEF WrpIdleTest, WrpIdleUaf, Wrp8801, WRpUnchanged, toUafVars, fromUafVars, uafVars,
       rxpOutVars, esfOutVars, txpVars, EchoOpen
  <2>5. CASE RxpDisabled \/ RxpIdle \/ RxpMeta \/ RxpDLen
    BY <2>5 DEF RxpDisabled, RxpIdle, RxpMeta, RxpDLen, RXpUnchanged, toUafVars, fromUafVars,
       rxpOutVars, esfOutVars, txpVars, EchoOpen
  <2>6. CASE RxpDrain
    BY <2>6, RxpDrainsNothing DEF RxpDrain, RXpUnchanged, toUafVars, fromUafVars, rxpOutVars,
       esfOutVars, txpVars, EchoOpen
  <2>7. CASE TxpDisabled \/ TxpMeta
    BY <2>7 DEF TxpDisabled, TxpMeta, TXpUnchanged, toUafVars, fromUafVars, rxpOutVars, esfOutVars,
       EchoOpen
  <2>8. CASE TxpDrain
    BY <2>8, TxpDrainsNothing DEF TxpDrain, TXpUnchanged, toUafVars, fromUafVars, rxpOutVars,
       esfOutVars, EchoOpen
  <2> QED BY <2>1, <2>2, <2>3, <2>4, <2>5, <2>6, <2>7, <2>8
<1>2. UNCHANGED EchoLines
  BY <1>1 DEF EchoLines
<1> QED BY <1>1, <1>2, Stutters

LEMMA ArrivesChunk ==
  ASSUME UdpInv, RdpFwdStream, UNCHANGED uafVars
  PROVE  \E c \in Chunk : Echo!Arrive(c)
<1>1. Head(siSHL_Data) \in Chunk
  BY QueueOps DEF RdpFwdStream, RdpTakesChunk, UdpInv, UoeInv
<1>2. /\ ssUSIFToUAF_Data' = Append(ssUSIFToUAF_Data, Head(siSHL_Data))
      /\ UNCHANGED << ssUAFToUSIF_Data, ssRXp_Data, ssESfToTXp_Data, txp_fsmState, txp_echoMode >>
  BY DEF RdpFwdStream, RdpTakesChunk, RDpUnchanged, fromUafVars, uafVars, rxpOutVars, esfOutVars,
     txpVars
<1>3. Echo!Arrive(Head(siSHL_Data))
  BY <1>2 DEF Echo!Arrive
<1> QED BY <1>1, <1>3

LEMMA LeavesChunk == ASSUME WrpStream, UNCHANGED uafVars PROVE Echo!Leave
<1>1. /\ ssUAFToUSIF_Data # << >> /\ ssUAFToUSIF_Data' = Tail(ssUAFToUSIF_Data)
      /\ UNCHANGED << ssUSIFToUAF_Data, ssRXp_Data, ssESfToTXp_Data, txp_fsmState, txp_echoMode >>
  BY DEF WrpStream, WRpUnchanged, Dequeue, toUafVars, uafVars, rxpOutVars, esfOutVars, txpVars
<1> QED BY <1>1 DEF Echo!Leave

\* The line of the chunk that RXp reads is the one it has chosen by the metadata.
LEMMA JoinsLine ==
  ASSUME UdpInv, FlowInv, ~interrupted, RxpData
  PROVE  Echo!Join
<1>1. /\ ssUSIFToUAF_Data # << >> /\ ssUSIFToUAF_Data' = Tail(ssUSIFToUAF_Data)
      /\ UNCHANGED << ssUAFToUSIF_Data, txp_fsmState, txp_echoMode >> /\ rxp_echoMode \in Lines
  BY DEF RxpData, RXpUnchanged, Dequeue, fromUafVars, txpVars, UdpInv, RxpInv
<1>2. EchoLine(Head(ssUSIFToUAF_Data).port) = rxp_echoMode
  <2>1. PICK r \in SomeSeg, x \in SomeSeg, o \in SomeSeg, t \in SomeSeg, w \in SomeSeg, y \in SomeSeg :
          FlowBy(r, x, o, t, w, y)
    BY DEF FlowInv
  <2>2. x \in Seg /\ EchoLine(x.port) = rxp_echoMode
    BY <2>1, SegKinds DEF FlowBy, RxpAt, RxpData
  <2>3. PICK segs \in Seq(EchoSeg) : ToUafStage(On(rdp_fsmState = "RDP_FWD_STREAM", r), x, segs)
    BY <2>1 DEF FlowBy, ToUafFlow
  <2>4. PICK d : d = On(rdp_fsmState = "RDP_FWD_STREAM", r)
    OBVIOUS
  <2>5. Head(ssUSIFToUAF_Data) = ChunkAt[x]
    BY <1>1, <2>2, <2>3, <2>4, SegKinds, CutTake DEF ToUafStage
  <2> QED BY <2>2, <2>5, ChunkFields
<1>3. EchoLines' = [EchoLines EXCEPT ![rxp_echoMode] = Append(@, Head(ssUSIFToUAF_Data))]
  <2>1. \A p \in Lines : EchoLines'[p] = [EchoLines EXCEPT ![rxp_echoMode] =
                                            Append(@, Head(ssUSIFToUAF_Data))][p]
    <3>1. /\ EchoLines'[rxp_echoMode] = Append(EchoLines[rxp_echoMode], Head(ssUSIFToUAF_Data))
          /\ \A p \in Lines : p # rxp_echoMode => EchoLines'[p] = EchoLines[p]
      <4>1. PICK q \in Lines : q = rxp_echoMode
        BY <1>1
      <4>2. EchoLines'[q] = Append(EchoLines[q], Head(ssUSIFToUAF_Data))
        BY <4>1, RxpPuts, EchoLinesAre
      <4>3. \A p \in Lines : p # q => EchoLines'[p] = EchoLines[p]
        BY <4>1, RxpPuts, EchoLinesAre
      <4> QED BY <4>1, <4>2, <4>3
    <3>2. DOMAIN EchoLines = Lines
      BY DEF EchoLines
    <3> QED BY <1>1, <3>1, <3>2
  <2>2. /\ EchoLines' = [p \in Lines |-> EchoLines'[p]]
        /\ [EchoLines EXCEPT ![rxp_echoMode] = Append(@, Head(ssUSIFToUAF_Data))] =
             [p \in Lines |-> [EchoLines EXCEPT ![rxp_echoMode] = Append(@, Head(ssUSIFToUAF_Data))][p]]
    BY DEF EchoLines
  <2> QED BY <2>1, <2>2
<1> QED BY <1>1, <1>2, <1>3 DEF Echo!Join, EchoLines

LEMMA OpensLine ==
  ASSUME TxpIdleEPt \/ TxpIdleESf
  PROVE  \E p \in Lines : Echo!Open(p)
<1>1. UNCHANGED << ssUSIFToUAF_Data, ssUAFToUSIF_Data, ssRXp_Data, ssESfToTXp_Data >>
  BY DEF TxpIdleEPt, TxpIdleESf, TXpUnchanged, toUafVars, fromUafVars, rxpOutVars, esfOutVars
<1>2. PICK p \in Lines : txp_fsmState = "TXP_IDLE" /\ txp_fsmState' = "TXP_META" /\ txp_echoMode' = p
  BY DEF TxpIdleEPt, TxpIdleESf, TxpStart, Lines
<1>3. Echo!Open(p)
  BY <1>1, <1>2 DEF Echo!Open
<1> QED BY <1>3

\* TXp gives the output back with the last chunk of the datagram.
LEMMA EmitsChunk ==
  ASSUME UdpInv, FlowInv, ~interrupted, TxpData
  PROVE  \E p \in Lines : Echo!Emit(p)
<1>0. PICK p \in Lines : p = txp_echoMode
  BY DEF UdpInv, TxpInv
<1>1. PICK c :
        /\ p = txp_echoMode /\ c = Head(LineData(p)) /\ txp_fsmState = "TXP_DATA"
        /\ UNCHANGED << ssUSIFToUAF_Data, txp_echoMode >>
  BY <1>0 DEF TxpData, TXpUnchanged, toUafVars
<1>2. /\ LineData(p) # << >> /\ LineData(p)' = Tail(LineData(p)) /\ TxpSends(c)
      /\ \A q \in Lines : q # p => LineData(q)' = LineData(q)
  <2>1. \A q \in Lines : q # p => LineData(q)' = LineData(q)
    BY <1>1, TxpTakes DEF LineData, Lines, esfOutVars
  <2> QED BY <1>1, <2>1, TxpTakes
<1>3. EchoOpen = p /\ EchoOpen' = IF c.tlast THEN "NONE" ELSE p
  <2>1. PICK r \in SomeSeg, x \in SomeSeg, o \in SomeSeg, t \in SomeSeg, w \in SomeSeg, y \in SomeSeg :
          FlowBy(r, x, o, t, w, y)
    BY DEF FlowInv
  <2>2. /\ t \in EchoSeg /\ t \in Seg /\ txp_lenCnt = t.left /\ t.left \in Nat
    BY <1>1, <2>1, SegKinds DEF FlowBy, TxpAt, Seg
  <2>3. LineFlow(p, x, o, t) /\ o \in EchoSeg \cup {NoSeg}
    BY <2>1 DEF FlowBy, RxpAt
  <2>0. PICK e \in EchoSeg \cup {NoSeg} : e = On(rxp_echoMode = p, o)
    BY <2>3 DEF On
  <2>4. PICK d :
          /\ e = On(rxp_echoMode = p, o) /\ d = On(rxp_echoMode = p /\ rxp_fsmState = "RXP_DATA", x)
    BY <2>0
  <2>5. PICK sent \in Seq(EchoSeg), closed \in Seq(EchoSeg) :
          Cut(LineData(p), With(t, sent \o Plus(closed, e)), d)
    BY <1>1, <2>3, <2>4 DEF LineFlow, LineStage, On
  <2>6. sent \o Plus(closed, e) \in Seq(Seg)
    <3>1. Plus(closed, e) \in Seq(EchoSeg)
      BY QueueOps DEF Plus
    <3>2. sent \o Plus(closed, e) \in Seq(EchoSeg)
      BY <3>1
    <3> QED BY <3>2, SegKinds
  <2>7. c = ChunkAt[t]
    BY <1>1, <1>2, <2>2, <2>5, <2>6, CutTake
  <2>8. c.len = LenOfChunk(t.left) /\ (c.tlast <=> t.left <= ARW_BYTES)
    BY <2>2, <2>7, ChunkFields
  <2>9. TxpEnds(c) <=> c.tlast
    BY <2>2, <2>8 DEF TxpEnds, LenOfChunk, ARW_BYTES
  <2> QED BY <1>1, <1>2, <2>9 DEF EchoOpen, TxpSends
<1>4. EchoLines' = [EchoLines EXCEPT ![p] = Tail(@)]
  <2>1. \A q \in Lines : EchoLines'[q] = [EchoLines EXCEPT ![p] = Tail(@)][q]
    <3>1. /\ EchoLines'[p] = Tail(EchoLines[p])
          /\ \A q \in Lines : q # p => EchoLines'[q] = EchoLines[q]
      BY <1>2, EchoLinesAre
    <3>2. DOMAIN EchoLines = Lines
      BY DEF EchoLines
    <3> QED BY <3>1, <3>2
  <2>2. /\ EchoLines' = [q \in Lines |-> EchoLines'[q]]
        /\ [EchoLines EXCEPT ![p] = Tail(@)] = [q \in Lines |-> [EchoLines EXCEPT ![p] = Tail(@)][q]]
    BY DEF EchoLines
  <2> QED BY <2>1, <2>2
<1>5. EchoLines[p] # << >> /\ Head(EchoLines[p]) = c /\ ssUAFToUSIF_Data' = Append(ssUAFToUSIF_Data, c)
  BY <1>1, <1>2, EchoLinesAre DEF TxpSends
<1>6. Echo!Emit(p)
  BY <1>1, <1>3, <1>4, <1>5 DEF Echo!Emit, EchoLines, EchoOpen
<1> QED BY <1>6

LEMMA EsfStutters == ASSUME UdpInv, ESf PROVE UNCHANGED Echo!vars
<1>1. UNCHANGED << ssUSIFToUAF_Data, ssUAFToUSIF_Data >> /\ UNCHANGED EchoOpen
  BY DEF ESf, linkVars, toUafVars, fromUafVars, txpVars, EchoOpen
<1>2. ssRXp_Data'["EPT"] = ssRXp_Data["EPT"]
  BY DEF ESf, UdpInv, RxpOutInv, Lines
<1>3. \A p \in Lines : LineData(p)' = LineData(p)
  BY <1>2, EsfKeepsLine DEF LineData, Lines
<1> QED BY <1>1, <1>3, EchoLinesAre, Stutters

LEMMA EchoStep ==
  ASSUME UdpInv, FlowInv, [UdpNext]_allVars
  PROVE  interrupted' \/ [Echo!Next]_Echo!vars
<1>1. CASE interrupted
  BY <1>1, Zenon DEF UdpNext, Mmio, MmioClear, MmioSet, allVars
<1>2. CASE ~interrupted
  <2>1. CASE \/ Mmio \/ UNCHANGED allVars
             \/ (UoeWrites \/ UoeData \/ UoeReads) /\ UNCHANGED uafVars
    BY <1>2, <2>1, StepsAside
  <2>2. CASE RDp /\ UNCHANGED uafVars
    <3>1. CASE RdpFwdStream
      BY <2>2, <3>1, ArrivesChunk DEF Echo!Next
    <3>2. CASE ~RdpFwdStream
      BY <1>2, <2>2, <3>2, StepsAside DEF RDp
    <3> QED BY <3>1, <3>2
  <2>3. CASE WRp /\ UNCHANGED uafVars
    <3>1. CASE WrpStream
      BY <2>3, <3>1, LeavesChunk DEF Echo!Next
    <3>2. CASE ~WrpStream
      BY <1>2, <2>3, <3>2, StepsAside DEF WRp
    <3> QED BY <3>1, <3>2
  <2>4. CASE RXp
    <3>1. CASE RxpData
      BY <1>2, <3>1, JoinsLine DEF Echo!Next
    <3>2. CASE ~RxpData
      BY <1>2, <2>4, <3>2, StepsAside DEF RXp
    <3> QED BY <3>1, <3>2
  <2>5. CASE ESf
    BY <2>5, EsfStutters
  <2>6. CASE TXp
    <3>1. CASE TxpIdleEPt \/ TxpIdleESf
      BY <3>1, OpensLine DEF Echo!Next
    <3>2. CASE TxpData
      BY <1>2, <3>2, EmitsChunk DEF Echo!Next
    <3>3. CASE TxpDisabled \/ TxpDrain \/ TxpMeta
      BY <1>2, <3>3, StepsAside
    <3> QED BY <2>6, <3>1, <3>2, <3>3 DEF TXp
  <2>7. \/ Mmio \/ UNCHANGED allVars
        \/ (UoeWrites \/ UoeData \/ UoeReads) /\ UNCHANGED uafVars
        \/ (RDp \/ WRp) /\ UNCHANGED uafVars
        \/ RXp \/ ESf \/ TXp
    BY DEF UdpNext, USIF, UAF
  <2> QED BY <2>1, <2>2, <2>3, <2>4, <2>5, <2>6, <2>7
<1> QED BY <1>1, <1>2

\* UAF implements the echo of two lines of TafEcho until an interruption: every
\* step of the role is one of that echo or leaves it alone.
THEOREM UafImplementsEcho == UdpSpec => EchoesInOrder
<1>1. UdpInit => UdpInv /\ FlowInv
  BY InvInit, FlowInit
<1>2. UdpInv /\ FlowInv /\ [UdpNext]_allVars => UdpInv' /\ FlowInv'
  BY UdpStep, FlowStep
<1>3. UdpInv /\ FlowInv /\ [UdpNext]_allVars => [interrupted' \/ [Echo!Next]_Echo!vars]_allVars
  BY EchoStep
<1> QED BY <1>1, <1>2, <1>3, PTL DEF UdpSpec, EchoesInOrder
=============================================================================
