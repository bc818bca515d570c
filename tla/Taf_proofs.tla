------------------------------ MODULE Taf_proofs ------------------------------
(***************************************************************************)
(* Proofs about Taf, for every value of its constants: every variable      *)
(* keeps its type; a segment's metadata and its chunks, which cross TAF in *)
(* separate streams, meet again at its output; and every step of TAF is a  *)
(* step of the two-line echo or leaves it alone.  The last two rest on one *)
(* invariant, that each stream of chunks carries the segments the stream   *)
(* of metadata next to it announces: in particular RXp and TXp are on the  *)
(* line of the segment they are in the middle of.                          *)
(***************************************************************************)
EXTENDS Taf, StreamLemmas

-----------------------------------------------------------------------------
(* Types, stream by stream.                                                 *)

InTypes ==
  /\ siTSIF_Data \in Seq(Chunk) /\ siTSIF_Meta \in Seq(Meta)
  /\ rdpMeta \in Meta /\ rdpLeft \in Nat
RxpTypes ==
  /\ rxp_fsmState \in {"RXP_START_OF_STREAM", "RXP_CONTINUATION_OF_STREAM"}
  /\ rxp_EchoCtrl \in Paths
EptTypes == ssRXpToTXp_Data \in Seq(Chunk) /\ ssRXpToTXp_Meta \in Seq(Meta)
EsfInTypes == ssRXpToESf_Data \in Seq(Chunk) /\ ssRXpToESf_Meta \in Seq(Meta)
EsfOutTypes == ssESfToTXp_Data \in Seq(Chunk) /\ ssESfToTXp_Meta \in Seq(Meta)
TxpTypes ==
  /\ txp_fsmState \in {"TXP_START_OF_STREAM", "TXP_CONTINUATION_OF_STREAM"}
  /\ txp_EchoCtrl \in Paths
OutTypes ==
  /\ soTSIF_Data \in Seq(Chunk) /\ soTSIF_Meta \in Seq(Meta)
  /\ wrpMeta \in Meta /\ wrpLeft \in Int

Types ==
  /\ InTypes /\ RxpTypes /\ EptTypes /\ EsfInTypes /\ EsfOutTypes /\ TxpTypes /\ OutTypes

LEMMA TypesAreTypeOK == Types <=> TypeOK
  BY DEF Types, InTypes, RxpTypes, EptTypes, EsfInTypes, EsfOutTypes, TxpTypes, OutTypes, TypeOK

LEMMA TypesKept ==
  ASSUME Types
  PROVE  /\ UNCHANGED inVars => InTypes'
         /\ UNCHANGED rxpVars => RxpTypes'
         /\ UNCHANGED eptVars => EptTypes'
         /\ UNCHANGED esfInVars => EsfInTypes'
         /\ UNCHANGED esfOutVars => EsfOutTypes'
         /\ UNCHANGED txpVars => TxpTypes'
         /\ UNCHANGED outVars => OutTypes'
<1> USE DEF Types
<1>1. UNCHANGED inVars => InTypes'
  BY DEF inVars, InTypes
<1>2. UNCHANGED rxpVars => RxpTypes'
  BY DEF rxpVars, RxpTypes
<1>3. UNCHANGED eptVars => EptTypes'
  BY DEF eptVars, EptTypes
<1>4. UNCHANGED esfInVars => EsfInTypes'
  BY DEF esfInVars, EsfInTypes
<1>5. UNCHANGED esfOutVars => EsfOutTypes'
  BY DEF esfOutVars, EsfOutTypes
<1>6. UNCHANGED txpVars => TxpTypes'
  BY DEF txpVars, TxpTypes
<1>7. UNCHANGED outVars => OutTypes'
  BY DEF outVars, OutTypes
<1> QED BY <1>1, <1>2, <1>3, <1>4, <1>5, <1>6, <1>7

LEMMA TypesInit == ASSUME Init PROVE Types
<1>1. NoMeta \in Meta
  BY TafSessAssumption, TafDepthAssumption DEF NoMeta, Meta
<1>2. "ECHO_PATH_THRU" \in Paths
  BY DEF Paths
<1> QED BY <1>1, <1>2 DEF Init, Types, InTypes, RxpTypes, EptTypes, EsfInTypes, EsfOutTypes,
                        TxpTypes, OutTypes

LEMMA TypesTsif ==
  ASSUME Types, TsifWrites \/ RdpData \/ TsifReads
  PROVE  Types'
<1> USE DEF Dequeue
<1>1. ASSUME NEW s \in SessIds, NEW n \in DatLens, RdpMeta(s, n) PROVE Types'
  <2>1. rdpMeta.seg \in Nat /\ SegMod \in Nat \ {0} /\ n \in Nat
    BY TafDepthAssumption, TafLenAssumption DEF Types, InTypes, Meta
  <2>2. (rdpMeta.seg + 1) % SegMod \in 0..(SegMod - 1)
    BY <2>1
  <2>3. rdpMeta' \in Meta /\ rdpLeft' \in Nat
    BY <1>1, <2>1, <2>2 DEF RdpMeta, Meta
  <2>4. InTypes'
    BY <1>1, <2>3, QueueOps DEF RdpMeta, Types, InTypes
  <2> QED BY <1>1, <2>4, TypesKept DEF RdpMeta, Types
<1>2. CASE RdpData
  <2> DEFINE chunk == [sessId |-> rdpMeta.sessId, seg |-> rdpMeta.seg, tlast |-> rdpLeft = 1]
  <2>1. chunk \in Chunk
    BY DEF Types, InTypes, Meta, Chunk
  <2>2. siTSIF_Data' = Append(siTSIF_Data, chunk)
    BY <1>2 DEF RdpData
  <2> HIDE DEF chunk
  <2>3. rdpLeft' \in Nat /\ UNCHANGED << siTSIF_Meta, rdpMeta >>
    BY <1>2 DEF RdpData, Types, InTypes
  <2>4. InTypes'
    BY <2>1, <2>2, <2>3, QueueOps DEF Types, InTypes
  <2> QED BY <1>2, <2>4, TypesKept DEF RdpData, Types
<1>3. CASE WrpMeta
  <2>1. Head(soTSIF_Meta) \in Meta /\ Tail(soTSIF_Meta) \in Seq(Meta)
    BY <1>3, QueueOps DEF WrpMeta, Types, OutTypes
  <2>2. Head(soTSIF_Meta).datLen \in Int
    BY <2>1 DEF Meta
  <2>3. OutTypes'
    BY <1>3, <2>1, <2>2 DEF WrpMeta, Types, OutTypes
  <2> QED BY <1>3, <2>3, TypesKept DEF WrpMeta, Types
<1>4. CASE WrpData
  <2>1. OutTypes'
    BY <1>4, QueueOps DEF WrpData, Types, OutTypes
  <2> QED BY <1>4, <2>1, TypesKept DEF WrpData, Types
<1> QED BY <1>1, <1>2, <1>3, <1>4 DEF TsifWrites, TsifReads

LEMMA TypesRXp == ASSUME Types, RXp PROVE Types'
<1> USE DEF Dequeue
<1>1. CASE RxpStart
  <2>1. Head(siTSIF_Meta) \in Meta /\ Tail(siTSIF_Meta) \in Seq(Meta)
    BY <1>1, QueueOps DEF RxpStart, Types, InTypes
  <2>2. /\ ssRXpToTXp_Meta' \in Seq(Meta) /\ ssRXpToESf_Meta' \in Seq(Meta)
        /\ RxpTypes'
    BY <1>1, <2>1, QueueOps DEF RxpStart, Types, EptTypes, EsfInTypes, RxpTypes, Paths
  <2>3. InTypes' /\ EptTypes' /\ EsfInTypes'
    BY <1>1, <2>1, <2>2 DEF RxpStart, Types, InTypes, EptTypes, EsfInTypes
  <2> QED BY <1>1, <2>2, <2>3, TypesKept DEF RxpStart, Types
<1>2. CASE RxpContinue
  <2>1. Head(siTSIF_Data) \in Chunk /\ Tail(siTSIF_Data) \in Seq(Chunk)
    BY <1>2, QueueOps DEF RxpContinue, Types, InTypes
  <2>2. /\ ssRXpToTXp_Data' \in Seq(Chunk) /\ ssRXpToESf_Data' \in Seq(Chunk)
    BY <1>2, <2>1, QueueOps DEF RxpContinue, Types, EptTypes, EsfInTypes
  <2>3. RxpTypes'
    BY <1>2 DEF RxpContinue, RxpAfter, Types, RxpTypes
  <2>4. InTypes' /\ EptTypes' /\ EsfInTypes'
    BY <1>2, <2>1, <2>2 DEF RxpContinue, Types, InTypes, EptTypes, EsfInTypes
  <2> QED BY <1>2, <2>3, <2>4, TypesKept DEF RxpContinue, Types
<1> QED BY <1>1, <1>2 DEF RXp

LEMMA TypesESf == ASSUME Types, ESf PROVE Types'
<1> USE DEF Dequeue
<1>1. ssESfToTXp_Data' \in Seq(Chunk) /\ ssRXpToESf_Data' \in Seq(Chunk)
  BY QueueOps DEF ESf, EsfMovesData, Types, EsfInTypes, EsfOutTypes
<1>2. ssESfToTXp_Meta' \in Seq(Meta) /\ ssRXpToESf_Meta' \in Seq(Meta)
  BY QueueOps DEF ESf, EsfMovesMeta, Types, EsfInTypes, EsfOutTypes
<1>3. EsfInTypes' /\ EsfOutTypes'
  BY <1>1, <1>2 DEF EsfInTypes, EsfOutTypes
<1> QED BY <1>3, TypesKept DEF ESf, Types

LEMMA TypesTXp == ASSUME Types, TXp PROVE Types'
<1> USE DEF Dequeue
<1>1. CASE TxpStart
  <2>1. /\ soTSIF_Meta' \in Seq(Meta) /\ ssRXpToTXp_Meta' \in Seq(Meta)
        /\ ssESfToTXp_Meta' \in Seq(Meta)
    BY <1>1, QueueOps DEF TxpStart, TxpNext, Types, EptTypes, EsfOutTypes, OutTypes
  <2>2. TxpTypes'
    BY <1>1 DEF TxpStart, TxpNext, TxpTakes, TxpTypes, Paths
  <2>3. EptTypes' /\ EsfOutTypes' /\ OutTypes'
    BY <1>1, <2>1 DEF TxpStart, Types, EptTypes, EsfOutTypes, OutTypes
  <2> QED BY <1>1, <2>2, <2>3, TypesKept DEF TxpStart, Types
<1>2. CASE TxpContinue
  <2>1. /\ soTSIF_Data' \in Seq(Chunk) /\ ssRXpToTXp_Data' \in Seq(Chunk)
        /\ ssESfToTXp_Data' \in Seq(Chunk)
    BY <1>2, QueueOps DEF TxpContinue, Types, EptTypes, EsfOutTypes, OutTypes
  <2>2. TxpTypes'
    BY <1>2 DEF TxpContinue, TxpAfter, Types, TxpTypes, txpVars, Paths
  <2>3. EptTypes' /\ EsfOutTypes' /\ OutTypes'
    BY <1>2, <2>1 DEF TxpContinue, Types, EptTypes, EsfOutTypes, OutTypes
  <2> QED BY <1>2, <2>2, <2>3, TypesKept DEF TxpContinue, Types
<1> QED BY <1>1, <1>2 DEF TXp

LEMMA TypesStep == ASSUME Types, [Next]_vars PROVE Types'
<1>1. CASE UNCHANGED vars
  BY <1>1, TypesKept DEF vars, Types
<1> QED BY <1>1, TypesTsif, TypesRXp, TypesESf, TypesTXp DEF Next

\* tcp_app_flash.cpp:89-567 (pTcpEchoStoreAndForward, pTcpTxPath,
\* pTcpRxPath): the streams between RXp, ESf and TXp carry whole
\* chunks and metadata of known sessions, and the toggle of the line stays on
\* one of the two lines.
THEOREM TafTypes == Spec => []TypeOK
<1>1. Init => Types
  BY TypesInit
<1>2. Types /\ [Next]_vars => Types'
  BY TypesStep
<1> QED BY <1>1, <1>2, TypesAreTypeOK, PTL DEF Spec

-----------------------------------------------------------------------------
(* The segments.  Each stream of chunks carries the segments of a stream of *)
(* metadata, in the sense of StreamLemmas: what is left of a segment is its *)
(* metadata with the number of chunks to come, NoMeta at its end.           *)

PosMeta == [sessId : SessIds, datLen : Nat \ {0}, seg : 0..(SegMod - 1)]

ChunkAt == [m \in PosMeta |-> [sessId |-> m.sessId, seg |-> m.seg, tlast |-> m.datLen = 1]]
MetaLeft(m, n) == IF n > 0 THEN [m EXCEPT !.datLen = n] ELSE NoMeta
RestOf == [m \in PosMeta |-> MetaLeft(m, m.datLen - 1)]

Cut(q, metas, due) == SegStream(Chunk, PosMeta, NoMeta, ChunkAt, RestOf, q, metas, due)

\* The segments behind one of which m is left.
With(m, metas) == WithFront(NoMeta, m, metas)

LEMMA NoMetaLeft == NoMeta \notin PosMeta /\ NoMeta \in Meta
<1>1. NoMeta \in Meta /\ NoMeta.datLen = 0
  BY TafSessAssumption, TafDepthAssumption DEF NoMeta, Meta
<1> QED BY <1>1 DEF PosMeta

LEMMA MetaLeftOK ==
  ASSUME NEW m \in Meta, NEW n \in Nat
  PROVE  /\ n > 0 => MetaLeft(m, n) \in PosMeta /\ MetaLeft(m, n).datLen = n
                     /\ MetaLeft(m, n).sessId = m.sessId /\ MetaLeft(m, n).seg = m.seg
                     /\ RestOf[MetaLeft(m, n)] = MetaLeft(m, n - 1)
         /\ n = 0 => MetaLeft(m, n) = NoMeta
<1>1. CASE n = 0
  BY <1>1 DEF MetaLeft
<1>2. CASE n > 0
  <2> DEFINE l == [m EXCEPT !.datLen = n]
  <2>1. /\ l \in PosMeta /\ l.datLen = n /\ l.sessId = m.sessId /\ l.seg = m.seg
        /\ MetaLeft(m, n) = l
    BY <1>2 DEF Meta, PosMeta, MetaLeft
  <2>2. RestOf[l] = MetaLeft(l, n - 1)
    BY <2>1 DEF RestOf
  <2>3. MetaLeft(l, n - 1) = MetaLeft(m, n - 1)
    BY DEF Meta, MetaLeft
  <2> HIDE DEF l
  <2> QED BY <1>2, <2>1, <2>2, <2>3
<1> QED BY <1>1, <1>2

LEMMA ChunkAtFields ==
  ASSUME NEW m \in PosMeta
  PROVE  /\ ChunkAt[m].sessId = m.sessId /\ ChunkAt[m].seg = m.seg
         /\ ChunkAt[m].tlast <=> m.datLen = 1
<1>1. PICK last \in BOOLEAN : last = (m.datLen = 1)
  OBVIOUS
<1>2. ChunkAt[m] = [sessId |-> m.sessId, seg |-> m.seg, tlast |-> last]
  BY <1>1, Zenon DEF ChunkAt
<1>3. /\ ChunkAt[m].sessId = m.sessId /\ ChunkAt[m].seg = m.seg
      /\ ChunkAt[m].tlast = last
  BY <1>2
<1> QED BY <1>1, <1>3, Zenon

LEMMA TafRules == SegRules(Chunk, PosMeta, NoMeta, ChunkAt, RestOf)
<1>1. ASSUME NEW m \in PosMeta
      PROVE  RestOf[m] \in PosMeta \cup {NoMeta} /\ ChunkAt[m] \in Chunk
  <2>1. m \in Meta /\ m.datLen - 1 \in Nat
    BY DEF PosMeta, Meta
  <2>2. MetaLeft(m, m.datLen - 1) \in PosMeta \cup {NoMeta}
    BY <2>1, MetaLeftOK
  <2>3. [sessId |-> m.sessId, seg |-> m.seg, tlast |-> m.datLen = 1] \in Chunk
    BY DEF PosMeta, Chunk
  <2> QED BY <2>2, <2>3 DEF RestOf, ChunkAt
<1>2. ChunkAt \in [PosMeta -> Chunk]
  BY <1>1 DEF ChunkAt
<1>3. RestOf \in [PosMeta -> PosMeta \cup {NoMeta}]
  BY <1>1 DEF RestOf
<1> QED BY <1>2, <1>3, NoMetaLeft DEF SegRules

\* A chunk of a segment is the last one exactly when nothing is left behind it.
LEMMA LastChunk ==
  ASSUME NEW m \in PosMeta
  PROVE  /\ RestOf[m] \in PosMeta \cup {NoMeta}
         /\ ChunkAt[m].tlast <=> RestOf[m] = NoMeta
         /\ RestOf[m] # NoMeta => RestOf[m].sessId = m.sessId
<1>1. m \in Meta /\ m.datLen \in Nat /\ m.datLen > 0
  BY DEF PosMeta, Meta
<1>2. RestOf[m] = MetaLeft(m, m.datLen - 1)
  BY DEF RestOf
<1>3. PICK k \in Nat : k = m.datLen - 1
  BY <1>1
<1>4. ChunkAt[m].tlast <=> k = 0
  <2>1. m.datLen = 1 <=> k = 0
    BY <1>1, <1>3
  <2> QED BY <2>1, ChunkAtFields, Zenon
<1>5. RestOf[m] \in PosMeta \cup {NoMeta}
  BY TafRules DEF SegRules
<1> QED BY <1>1, <1>2, <1>3, <1>4, <1>5, MetaLeftOK, NoMetaLeft

\* The chunk at the head is that of the segment in front.
LEMMA CutTake ==
  ASSUME NEW q, NEW metas \in Seq(PosMeta), NEW m \in PosMeta, NEW due,
         Cut(q, With(m, metas), due), q # << >>
  PROVE  Head(q) = ChunkAt[m] /\ Cut(Tail(q), With(RestOf[m], metas), due)
BY SegTake, TafRules DEF Cut, With

LEMMA CutPut ==
  ASSUME NEW q, NEW metas, NEW m \in PosMeta, Cut(q, metas, m)
  PROVE  Cut(Append(q, ChunkAt[m]), metas, RestOf[m])
BY SegWrite, TafRules DEF Cut

LEMMA CutAnnounce ==
  ASSUME NEW q, NEW metas \in Seq(PosMeta), NEW m \in PosMeta \cup {NoMeta}, NEW n \in PosMeta,
         Cut(q, With(m, metas), NoMeta)
  PROVE  Cut(q, With(m, Append(metas, n)), n)
BY SegAnnounce DEF Cut, With

LEMMA CutBegin ==
  ASSUME NEW metas \in Seq(PosMeta), metas # << >>
  PROVE  With(NoMeta, metas) = With(Head(metas), Tail(metas)) /\ Head(metas) \in PosMeta
BY SegBegin, NoMetaLeft DEF With

-----------------------------------------------------------------------------
(* Alignment: on the way through TAF chunks and metadata stay together.     *)

MetaTypes ==
  /\ siTSIF_Meta \in Seq(PosMeta) /\ ssRXpToTXp_Meta \in Seq(PosMeta)
  /\ ssRXpToESf_Meta \in Seq(PosMeta) /\ ssESfToTXp_Meta \in Seq(PosMeta)
  /\ soTSIF_Meta \in Seq(PosMeta) /\ wrpLeft \in Nat

\* The segment that is read or written on line p, if any.
On(p, line, m) == IF line = p THEN m ELSE NoMeta

EptCut(rm, tm) ==
  Cut(ssRXpToTXp_Data, With(On("ECHO_PATH_THRU", txp_EchoCtrl, tm), ssRXpToTXp_Meta),
      On("ECHO_PATH_THRU", rxp_EchoCtrl, rm))
EsfCut(rm, tm) ==
  Cut(ssESfToTXp_Data \o ssRXpToESf_Data,
      With(On("ECHO_STORE_FWD", txp_EchoCtrl, tm), ssESfToTXp_Meta \o ssRXpToESf_Meta),
      On("ECHO_STORE_FWD", rxp_EchoCtrl, rm))
InCut(rm) == Cut(siTSIF_Data, With(rm, siTSIF_Meta), MetaLeft(rdpMeta, rdpLeft))
OutCut(tm) == Cut(soTSIF_Data, With(MetaLeft(wrpMeta, wrpLeft), soTSIF_Meta), tm)

\* rm and tm are left of the segments that RXp and TXp are in the middle of.
RxpAt(rm) ==
  /\ rm = NoMeta <=> rxp_fsmState = "RXP_START_OF_STREAM"
  /\ rm # NoMeta => EchoCtrl(rm.sessId) = rxp_EchoCtrl
TxpAt(tm) == tm = NoMeta <=> txp_fsmState = "TXP_START_OF_STREAM"

AlignedBy(rm, tm) ==
  RxpAt(rm) /\ TxpAt(tm) /\ InCut(rm) /\ EptCut(rm, tm) /\ EsfCut(rm, tm) /\ OutCut(tm)

AlignInv == MetaTypes /\ \E rm, tm \in PosMeta \cup {NoMeta} : AlignedBy(rm, tm)

LEMMA EchoCtrlLine == \A s \in SessIds : EchoCtrl(s) \in Paths
  BY DEF EchoCtrl, Paths

LEMMA PathsDiffer == "ECHO_PATH_THRU" # "ECHO_STORE_FWD" /\ Paths = {"ECHO_PATH_THRU", "ECHO_STORE_FWD"}
  BY DEF Paths

LEMMA AlignInit == ASSUME Init PROVE AlignInv
<1>1. Cut(<< >>, << >>, NoMeta)
  BY SegEmpty DEF Cut
<1>2. With(NoMeta, << >>) = << >> /\ << >> \o << >> = << >>
  BY DEF With, WithFront
<1>3. MetaTypes
  BY DEF Init, MetaTypes
<1>4. AlignedBy(NoMeta, NoMeta)
  <2>1. InCut(NoMeta) /\ OutCut(NoMeta)
    BY <1>1, <1>2 DEF Init, InCut, OutCut, MetaLeft
  <2>2. EptCut(NoMeta, NoMeta) /\ EsfCut(NoMeta, NoMeta)
    BY <1>1, <1>2 DEF Init, EptCut, EsfCut, On
  <2>3. RxpAt(NoMeta) /\ TxpAt(NoMeta)
    BY DEF Init, RxpAt, TxpAt
  <2> QED BY <2>1, <2>2, <2>3 DEF AlignedBy
<1> QED BY <1>3, <1>4 DEF AlignInv

LEMMA AlignKept ==
  ASSUME NEW rm, NEW tm, AlignedBy(rm, tm)
  PROVE  /\ UNCHANGED rxpVars => RxpAt(rm)'
         /\ UNCHANGED txpVars => TxpAt(tm)'
         /\ UNCHANGED inVars => InCut(rm)'
         /\ UNCHANGED << eptVars, rxp_EchoCtrl, txp_EchoCtrl >> => EptCut(rm, tm)'
         /\ UNCHANGED << esfInVars, esfOutVars, rxp_EchoCtrl, txp_EchoCtrl >> => EsfCut(rm, tm)'
         /\ UNCHANGED outVars => OutCut(tm)'
<1> USE DEF AlignedBy
<1>1. UNCHANGED rxpVars => RxpAt(rm)'
  BY DEF RxpAt, rxpVars
<1>2. UNCHANGED txpVars => TxpAt(tm)'
  BY DEF TxpAt, txpVars
<1>3. UNCHANGED inVars => InCut(rm)'
  BY DEF InCut, inVars
<1>4. UNCHANGED << eptVars, rxp_EchoCtrl, txp_EchoCtrl >> => EptCut(rm, tm)'
  BY DEF EptCut, eptVars
<1>5. UNCHANGED << esfInVars, esfOutVars, rxp_EchoCtrl, txp_EchoCtrl >> => EsfCut(rm, tm)'
  BY DEF EsfCut, esfInVars, esfOutVars
<1>6. UNCHANGED outVars => OutCut(tm)'
  BY DEF OutCut, outVars
<1> QED BY <1>1, <1>2, <1>3, <1>4, <1>5, <1>6

\* RDp writes metadata or data.
LEMMA AlignRdp ==
  ASSUME Types, AlignInv, TsifWrites \/ RdpData
  PROVE  AlignInv'
<1>0. MetaTypes
  BY DEF AlignInv
<1>1. PICK rm \in PosMeta \cup {NoMeta}, tm \in PosMeta \cup {NoMeta} : AlignedBy(rm, tm)
  BY DEF AlignInv
<1>2. UNCHANGED << rxpVars, eptVars, esfInVars, esfOutVars, txpVars, outVars >>
  BY DEF TsifWrites, RdpMeta, RdpData
<1>3. /\ RxpAt(rm)' /\ TxpAt(tm)' /\ EptCut(rm, tm)' /\ EsfCut(rm, tm)' /\ OutCut(tm)'
  BY <1>1, <1>2, AlignKept DEF rxpVars, txpVars
<1>4. SUFFICES MetaTypes' /\ InCut(rm)'
  BY <1>1, <1>3 DEF AlignedBy, AlignInv
<1>5. ASSUME NEW s \in SessIds, NEW n \in DatLens, RdpMeta(s, n)
      PROVE  MetaTypes' /\ InCut(rm)'
  <2>1. /\ rdpLeft = 0 /\ rdpLeft' = n /\ n \in Nat /\ n > 0
        /\ siTSIF_Meta' = Append(siTSIF_Meta, rdpMeta') /\ siTSIF_Data' = siTSIF_Data
    BY <1>5, TafLenAssumption DEF RdpMeta
  <2>2. rdpMeta' \in PosMeta /\ rdpMeta'.datLen = n
    <3>1. (rdpMeta.seg + 1) % SegMod \in 0..(SegMod - 1)
      BY SMTT(30), TafDepthAssumption DEF Types, InTypes, Meta
    <3> QED BY <1>5, <2>1, <3>1 DEF RdpMeta, PosMeta
  <2>3. MetaLeft(rdpMeta', n) = rdpMeta'
    BY <2>1, <2>2 DEF MetaLeft, PosMeta
  <2>4. MetaLeft(rdpMeta, rdpLeft) = NoMeta
    BY <2>1 DEF MetaLeft
  <2>5. Cut(siTSIF_Data, With(rm, Append(siTSIF_Meta, rdpMeta')), rdpMeta')
    BY <1>0, <1>1, <2>2, <2>4, CutAnnounce DEF AlignedBy, InCut, MetaTypes
  <2>6. InCut(rm)'
    BY <2>1, <2>3, <2>5 DEF InCut
  <2>7. MetaTypes'
    BY <1>0, <1>2, <2>1, <2>2, QueueOps DEF MetaTypes, eptVars, esfInVars, esfOutVars, outVars
  <2> QED BY <2>6, <2>7
<1>6. CASE RdpData
  <2>1. PICK m \in PosMeta : m = MetaLeft(rdpMeta, rdpLeft) /\ RestOf[m] = MetaLeft(rdpMeta, rdpLeft - 1)
                             /\ ChunkAt[m] = [sessId |-> rdpMeta.sessId, seg |-> rdpMeta.seg,
                                              tlast |-> rdpLeft = 1]
    <3>1. rdpMeta \in Meta /\ rdpLeft \in Nat /\ rdpLeft > 0
      BY <1>6 DEF Types, InTypes, RdpData
    <3> QED BY <3>1, MetaLeftOK DEF ChunkAt
  <2>2. /\ siTSIF_Data' = Append(siTSIF_Data, ChunkAt[m]) /\ siTSIF_Meta' = siTSIF_Meta
        /\ rdpMeta' = rdpMeta /\ rdpLeft' = rdpLeft - 1
    BY <1>6, <2>1 DEF RdpData
  <2>3. Cut(Append(siTSIF_Data, ChunkAt[m]), With(rm, siTSIF_Meta), RestOf[m])
    BY <1>1, <2>1, CutPut DEF AlignedBy, InCut
  <2>4. InCut(rm)'
    BY <2>1, <2>2, <2>3 DEF InCut
  <2>5. MetaTypes'
    BY <1>0, <1>2, <2>2 DEF MetaTypes, eptVars, esfInVars, esfOutVars, outVars
  <2> QED BY <2>4, <2>5
<1> QED BY <1>5, <1>6 DEF TsifWrites

\* WRp reads metadata or data.
LEMMA AlignWrp ==
  ASSUME Types, AlignInv, TsifReads
  PROVE  AlignInv'
<1>0. MetaTypes
  BY DEF AlignInv
<1>1. PICK rm \in PosMeta \cup {NoMeta}, tm \in PosMeta \cup {NoMeta} : AlignedBy(rm, tm)
  BY DEF AlignInv
<1>2. UNCHANGED << inVars, rxpVars, eptVars, esfInVars, esfOutVars, txpVars >>
  BY DEF TsifReads, WrpMeta, WrpData
<1>3. /\ RxpAt(rm)' /\ TxpAt(tm)' /\ EptCut(rm, tm)' /\ EsfCut(rm, tm)' /\ InCut(rm)'
  BY <1>1, <1>2, AlignKept DEF rxpVars, txpVars
<1>4. SUFFICES MetaTypes' /\ OutCut(tm)'
  BY <1>1, <1>3 DEF AlignedBy, AlignInv
<1>5. CASE WrpMeta
  <2>1. /\ wrpLeft = 0 /\ soTSIF_Meta # << >> /\ soTSIF_Meta' = Tail(soTSIF_Meta)
        /\ wrpMeta' = Head(soTSIF_Meta) /\ wrpLeft' = Head(soTSIF_Meta).datLen
        /\ soTSIF_Data' = soTSIF_Data
    BY <1>5 DEF WrpMeta, Dequeue
  <2>2. wrpMeta' \in PosMeta /\ Tail(soTSIF_Meta) \in Seq(PosMeta)
    BY <1>0, <2>1, QueueOps DEF MetaTypes
  <2>3. wrpLeft' \in Nat /\ MetaLeft(wrpMeta', wrpLeft') = wrpMeta'
    BY <2>1, <2>2 DEF MetaLeft, PosMeta
  <2>4. MetaLeft(wrpMeta, wrpLeft) = NoMeta
    BY <2>1 DEF MetaLeft
  <2>5. With(NoMeta, soTSIF_Meta) = With(wrpMeta', soTSIF_Meta')
    BY <1>0, <2>1, CutBegin DEF MetaTypes
  <2>6. OutCut(tm)'
    BY <1>1, <2>1, <2>3, <2>4, <2>5 DEF AlignedBy, OutCut
  <2>7. MetaTypes'
    BY <1>0, <1>2, <2>1, <2>2, <2>3 DEF MetaTypes, inVars, eptVars, esfInVars, esfOutVars
  <2> QED BY <2>6, <2>7
<1>6. CASE WrpData
  <2>1. wrpMeta \in Meta /\ wrpLeft \in Nat /\ wrpLeft > 0 /\ soTSIF_Data # << >>
    BY <1>0, <1>6 DEF Types, OutTypes, MetaTypes, WrpData
  <2>2. PICK m \in PosMeta : m = MetaLeft(wrpMeta, wrpLeft) /\ RestOf[m] = MetaLeft(wrpMeta, wrpLeft - 1)
                             /\ m.datLen = wrpLeft
    BY <2>1, MetaLeftOK
  <2>3. /\ Head(soTSIF_Data) = ChunkAt[m]
        /\ Cut(Tail(soTSIF_Data), With(RestOf[m], soTSIF_Meta), tm)
    BY <1>0, <1>1, <2>1, <2>2, CutTake DEF AlignedBy, OutCut, MetaTypes
  <2>4. /\ soTSIF_Data' = Tail(soTSIF_Data) /\ wrpLeft' = wrpLeft - 1 /\ wrpMeta' = wrpMeta
        /\ soTSIF_Meta' = soTSIF_Meta
    <3>1. Head(soTSIF_Data).tlast <=> wrpLeft = 1
      BY <2>2, <2>3, ChunkAtFields, Zenon
    <3> QED BY <1>6, <2>1, <3>1 DEF WrpData, Dequeue
  <2>5. OutCut(tm)'
    BY <2>2, <2>3, <2>4 DEF OutCut
  <2>6. MetaTypes'
    BY <1>0, <1>2, <2>1, <2>4 DEF MetaTypes, inVars, eptVars, esfInVars, esfOutVars
  <2> QED BY <2>5, <2>6
<1> QED BY <1>5, <1>6 DEF TsifReads

LEMMA AlignRXp == ASSUME Types, AlignInv, RXp PROVE AlignInv'
<1>0. MetaTypes /\ rxp_EchoCtrl \in Paths
  BY DEF AlignInv, Types, RxpTypes
<1>1. PICK rm \in PosMeta \cup {NoMeta}, tm \in PosMeta \cup {NoMeta} : AlignedBy(rm, tm)
  BY DEF AlignInv
<1>2. UNCHANGED << rdpMeta, rdpLeft, esfOutVars, txpVars, outVars >>
  BY DEF RXp, RxpStart, RxpContinue
<1>3. TxpAt(tm)' /\ OutCut(tm)'
  BY <1>1, <1>2, AlignKept
<1>4. CASE RxpStart
  <2>1. /\ siTSIF_Meta # << >> /\ siTSIF_Meta' = Tail(siTSIF_Meta)
        /\ rxp_fsmState = "RXP_START_OF_STREAM"
        /\ rxp_fsmState' = "RXP_CONTINUATION_OF_STREAM"
        /\ UNCHANGED << siTSIF_Data, ssRXpToTXp_Data, ssRXpToESf_Data >>
    BY <1>4 DEF RxpStart, Dequeue
  <2> PICK m \in PosMeta : m = Head(siTSIF_Meta)
    BY <1>0, <2>1, QueueOps DEF MetaTypes
  <2>2. m # NoMeta /\ rm = NoMeta /\ Tail(siTSIF_Meta) \in Seq(PosMeta)
    BY <1>0, <1>1, <2>1, NoMetaLeft, QueueOps DEF MetaTypes, AlignedBy, RxpAt
  <2>3. With(NoMeta, siTSIF_Meta) = With(m, Tail(siTSIF_Meta))
    BY <1>0, <2>1, CutBegin DEF MetaTypes
  <2>4. InCut(m)'
    BY <1>1, <1>2, <2>1, <2>2, <2>3 DEF InCut, AlignedBy
  <2>5. rxp_EchoCtrl' = EchoCtrl(m.sessId)
    BY <1>4 DEF RxpStart, EchoCtrl
  <2>6. RxpAt(m)'
    BY <2>1, <2>2, <2>5 DEF RxpAt
  <2>7. On("ECHO_PATH_THRU", rxp_EchoCtrl, rm) = NoMeta /\ On("ECHO_STORE_FWD", rxp_EchoCtrl, rm) = NoMeta
    BY <2>2 DEF On
  <2>8. \/ /\ rxp_EchoCtrl' = "ECHO_PATH_THRU"
           /\ ssRXpToTXp_Meta' = Append(ssRXpToTXp_Meta, m) /\ UNCHANGED ssRXpToESf_Meta
        \/ /\ rxp_EchoCtrl' = "ECHO_STORE_FWD"
           /\ ssRXpToESf_Meta' = Append(ssRXpToESf_Meta, m) /\ UNCHANGED ssRXpToTXp_Meta
    BY <1>4 DEF RxpStart
  <2>9. EptCut(m, tm)'
    <3>1. CASE rxp_EchoCtrl' = "ECHO_PATH_THRU"
      <4>1. On("ECHO_PATH_THRU", txp_EchoCtrl, tm) \in PosMeta \cup {NoMeta}
        BY DEF On
      <4>2. Cut(ssRXpToTXp_Data, With(On("ECHO_PATH_THRU", txp_EchoCtrl, tm), Append(ssRXpToTXp_Meta, m)), m)
        BY <1>0, <1>1, <2>2, <2>7, <4>1, CutAnnounce DEF AlignedBy, EptCut, MetaTypes
      <4> QED BY <1>2, <2>1, <2>8, <3>1, <4>2 DEF EptCut, On, txpVars
    <3>2. CASE rxp_EchoCtrl' # "ECHO_PATH_THRU"
      BY <1>1, <1>2, <2>1, <2>7, <2>8, <3>2 DEF AlignedBy, EptCut, On, txpVars
    <3> QED BY <3>1, <3>2
  <2>10. EsfCut(m, tm)'
    <3>1. CASE rxp_EchoCtrl' = "ECHO_STORE_FWD"
      <4>1. On("ECHO_STORE_FWD", txp_EchoCtrl, tm) \in PosMeta \cup {NoMeta}
        BY DEF On
      <4>2. PICK metas \in Seq(PosMeta) : metas = ssESfToTXp_Meta \o ssRXpToESf_Meta
        <5>1. ssESfToTXp_Meta \o ssRXpToESf_Meta \in Seq(PosMeta)
          BY <1>0, ConcatProperties DEF MetaTypes
        <5> QED BY <5>1
      <4>3. ssESfToTXp_Meta \o Append(ssRXpToESf_Meta, m) = Append(metas, m)
        BY <1>0, <2>2, <4>2, ConcatAppend DEF MetaTypes
      <4>4. Cut(ssESfToTXp_Data \o ssRXpToESf_Data,
                With(On("ECHO_STORE_FWD", txp_EchoCtrl, tm), Append(metas, m)), m)
        BY <1>1, <2>2, <2>7, <4>1, <4>2, CutAnnounce DEF AlignedBy, EsfCut
      <4> QED BY <1>2, <2>1, <2>8, <3>1, <4>3, <4>4 DEF EsfCut, On, esfOutVars, txpVars
    <3>2. CASE rxp_EchoCtrl' # "ECHO_STORE_FWD"
      BY <1>1, <1>2, <2>1, <2>7, <2>8, <3>2 DEF AlignedBy, EsfCut, On, esfOutVars, txpVars
    <3> QED BY <3>1, <3>2
  <2>11. MetaTypes'
    BY <1>0, <1>2, <2>1, <2>2, <2>8, QueueOps DEF MetaTypes, esfOutVars, outVars
  <2> QED BY <1>3, <2>2, <2>4, <2>6, <2>9, <2>10, <2>11 DEF AlignInv, AlignedBy
<1>5. CASE RxpContinue
  <2> PICK chunk \in Chunk : chunk = Head(siTSIF_Data)
    BY <1>5, QueueOps DEF RxpContinue, Types, InTypes
  <2>1. /\ rxp_fsmState = "RXP_CONTINUATION_OF_STREAM" /\ siTSIF_Data # << >>
        /\ siTSIF_Data' = Tail(siTSIF_Data)
        /\ rxp_fsmState' = IF chunk.tlast THEN "RXP_START_OF_STREAM" ELSE rxp_fsmState
        /\ UNCHANGED << siTSIF_Meta, rxp_EchoCtrl, ssRXpToTXp_Meta, ssRXpToESf_Meta >>
    BY <1>5 DEF RxpContinue, RxpAfter, Dequeue
  <2>2. rm \in PosMeta /\ rm # NoMeta /\ EchoCtrl(rm.sessId) = rxp_EchoCtrl
    BY <1>1, <2>1, NoMetaLeft DEF AlignedBy, RxpAt
  <2>3. chunk = ChunkAt[rm] /\ Cut(Tail(siTSIF_Data), With(RestOf[rm], siTSIF_Meta), MetaLeft(rdpMeta, rdpLeft))
    BY <1>0, <1>1, <2>1, <2>2, CutTake DEF AlignedBy, InCut, MetaTypes
  <2>4. PICK rest \in PosMeta \cup {NoMeta} : rest = RestOf[rm]
    BY <2>2, TafRules DEF SegRules
  <2>5. InCut(rest)'
    BY <1>2, <2>1, <2>3, <2>4 DEF InCut
  <2>6. /\ chunk.tlast <=> rest = NoMeta
        /\ rest # NoMeta => rest.sessId = rm.sessId
    BY <2>2, <2>3, <2>4, LastChunk
  <2>7. RxpAt(rest)'
    BY <2>1, <2>2, <2>6 DEF RxpAt
  <2>8. \/ /\ rxp_EchoCtrl = "ECHO_PATH_THRU"
           /\ ssRXpToTXp_Data' = Append(ssRXpToTXp_Data, chunk) /\ UNCHANGED ssRXpToESf_Data
        \/ /\ rxp_EchoCtrl = "ECHO_STORE_FWD"
           /\ ssRXpToESf_Data' = Append(ssRXpToESf_Data, chunk) /\ UNCHANGED ssRXpToTXp_Data
    BY <1>5 DEF RxpContinue
  <2>9. EptCut(rest, tm)'
    <3>1. CASE rxp_EchoCtrl = "ECHO_PATH_THRU"
      <4>1. Cut(ssRXpToTXp_Data, With(On("ECHO_PATH_THRU", txp_EchoCtrl, tm), ssRXpToTXp_Meta), rm)
        BY <1>1, <3>1 DEF AlignedBy, EptCut, On
      <4>2. Cut(Append(ssRXpToTXp_Data, ChunkAt[rm]),
                With(On("ECHO_PATH_THRU", txp_EchoCtrl, tm), ssRXpToTXp_Meta), RestOf[rm])
        BY <2>2, <4>1, CutPut
      <4> QED BY <1>2, <2>1, <2>3, <2>4, <2>8, <3>1, <4>2 DEF EptCut, On, txpVars
    <3>2. CASE rxp_EchoCtrl # "ECHO_PATH_THRU"
      BY <1>1, <1>2, <2>1, <2>8, <3>2 DEF AlignedBy, EptCut, On, txpVars
    <3> QED BY <3>1, <3>2
  <2>10. EsfCut(rest, tm)'
    <3>1. CASE rxp_EchoCtrl = "ECHO_STORE_FWD"
      <4> DEFINE segs == With(On("ECHO_STORE_FWD", txp_EchoCtrl, tm), ssESfToTXp_Meta \o ssRXpToESf_Meta)
      <4>1. Cut(ssESfToTXp_Data \o ssRXpToESf_Data, segs, rm)
        BY <1>1, <3>1 DEF AlignedBy, EsfCut, On
      <4>2. Cut(Append(ssESfToTXp_Data \o ssRXpToESf_Data, ChunkAt[rm]), segs, RestOf[rm])
        BY <2>2, <4>1, CutPut
      <4>3. ChunkAt[rm] \in Chunk
        BY <2>2, TafRules DEF SegRules
      <4>4. ssESfToTXp_Data \o Append(ssRXpToESf_Data, ChunkAt[rm])
              = Append(ssESfToTXp_Data \o ssRXpToESf_Data, ChunkAt[rm])
        BY <4>3, ConcatAppend DEF Types, EsfInTypes, EsfOutTypes
      <4> QED BY <1>2, <2>1, <2>3, <2>4, <2>8, <3>1, <4>2, <4>4 DEF EsfCut, On, esfOutVars, txpVars
    <3>2. CASE rxp_EchoCtrl # "ECHO_STORE_FWD"
      BY <1>1, <1>2, <2>1, <2>8, <3>2 DEF AlignedBy, EsfCut, On, esfOutVars, txpVars
    <3> QED BY <3>1, <3>2
  <2>11. MetaTypes'
    BY <1>0, <1>2, <2>1 DEF MetaTypes, esfOutVars, outVars
  <2> QED BY <1>3, <2>4, <2>5, <2>7, <2>9, <2>10, <2>11 DEF AlignInv, AlignedBy
<1> QED BY <1>4, <1>5 DEF RXp

\* ESf moves chunks and metadata along its line, which stays what it is.
LEMMA AlignESf == ASSUME Types, AlignInv, ESf PROVE AlignInv'
<1>0. MetaTypes
  BY DEF AlignInv
<1>1. PICK rm \in PosMeta \cup {NoMeta}, tm \in PosMeta \cup {NoMeta} : AlignedBy(rm, tm)
  BY DEF AlignInv
<1>2. UNCHANGED << inVars, rxpVars, eptVars, txpVars, outVars >>
  BY DEF ESf
<1>3. RxpAt(rm)' /\ TxpAt(tm)' /\ InCut(rm)' /\ EptCut(rm, tm)' /\ OutCut(tm)'
  BY <1>1, <1>2, AlignKept DEF rxpVars, txpVars
<1>4. UNCHANGED (ssESfToTXp_Data \o ssRXpToESf_Data)
  <2>1. CASE EsfMovesData
    <3>1. /\ ssESfToTXp_Data' = Append(ssESfToTXp_Data, Head(ssRXpToESf_Data))
          /\ ssRXpToESf_Data' = Tail(ssRXpToESf_Data) /\ ssRXpToESf_Data # << >>
      BY <2>1 DEF ESf, EsfMovesData, Dequeue
    <3> QED BY <3>1, ShiftHead DEF Types, EsfInTypes, EsfOutTypes
  <2>2. CASE ~EsfMovesData
    BY <2>2 DEF ESf
  <2> QED BY <2>1, <2>2
<1>5. /\ UNCHANGED (ssESfToTXp_Meta \o ssRXpToESf_Meta)
      /\ ssRXpToESf_Meta' \in Seq(PosMeta) /\ ssESfToTXp_Meta' \in Seq(PosMeta)
  <2>1. CASE EsfMovesMeta
    <3>1. /\ ssESfToTXp_Meta' = Append(ssESfToTXp_Meta, Head(ssRXpToESf_Meta))
          /\ ssRXpToESf_Meta' = Tail(ssRXpToESf_Meta) /\ ssRXpToESf_Meta # << >>
      BY <2>1 DEF ESf, EsfMovesMeta, Dequeue
    <3>2. UNCHANGED (ssESfToTXp_Meta \o ssRXpToESf_Meta)
      BY <1>0, <3>1, ShiftHead DEF MetaTypes
    <3> QED BY <1>0, <3>1, <3>2, QueueOps DEF MetaTypes
  <2>2. CASE ~EsfMovesMeta
    BY <1>0, <2>2 DEF ESf, MetaTypes
  <2> QED BY <2>1, <2>2
<1>6. EsfCut(rm, tm)'
  BY <1>1, <1>2, <1>4, <1>5 DEF AlignedBy, EsfCut, rxpVars, txpVars
<1>7. MetaTypes'
  BY <1>0, <1>2, <1>5 DEF MetaTypes, inVars, eptVars, outVars
<1> QED BY <1>1, <1>3, <1>6, <1>7 DEF AlignInv, AlignedBy

LEMMA AlignTxpStart == ASSUME Types, AlignInv, TxpStart PROVE AlignInv'
<1>0. MetaTypes
  BY DEF AlignInv
<1>1. PICK rm \in PosMeta \cup {NoMeta}, tm \in PosMeta \cup {NoMeta} : AlignedBy(rm, tm)
  BY DEF AlignInv
<1>2. /\ UNCHANGED << inVars, rxpVars, ssRXpToTXp_Data, esfInVars, ssESfToTXp_Data,
                      soTSIF_Data, wrpMeta, wrpLeft >>
      /\ txp_fsmState = "TXP_START_OF_STREAM" /\ txp_fsmState' = "TXP_CONTINUATION_OF_STREAM"
  BY DEF TxpStart
<1>3. RxpAt(rm)' /\ InCut(rm)'
  BY <1>1, <1>2, AlignKept
<1>4. tm = NoMeta
  BY <1>1, <1>2 DEF AlignedBy, TxpAt
<1>5. /\ Cut(ssRXpToTXp_Data, With(NoMeta, ssRXpToTXp_Meta), On("ECHO_PATH_THRU", rxp_EchoCtrl, rm))
      /\ Cut(ssESfToTXp_Data \o ssRXpToESf_Data, With(NoMeta, ssESfToTXp_Meta \o ssRXpToESf_Meta),
             On("ECHO_STORE_FWD", rxp_EchoCtrl, rm))
  BY <1>1, <1>4 DEF AlignedBy, EptCut, EsfCut, On
<1>6. ASSUME NEW m \in PosMeta, soTSIF_Meta' = Append(soTSIF_Meta, m) PROVE OutCut(m)'
  <2>1. PICK l \in PosMeta \cup {NoMeta} : l = MetaLeft(wrpMeta, wrpLeft)
    BY <1>0, MetaLeftOK DEF MetaTypes, Types, OutTypes
  <2>2. Cut(soTSIF_Data, With(l, Append(soTSIF_Meta, m)), m)
    BY <1>0, <1>1, <1>4, <2>1, CutAnnounce DEF AlignedBy, OutCut, MetaTypes
  <2> QED BY <1>2, <1>6, <2>1, <2>2 DEF OutCut
<1>7. CASE TxpNext = "ECHO_PATH_THRU"
  <2>1. /\ ssRXpToTXp_Meta # << >> /\ ssRXpToTXp_Meta' = Tail(ssRXpToTXp_Meta)
        /\ soTSIF_Meta' = Append(soTSIF_Meta, Head(ssRXpToTXp_Meta))
        /\ ssESfToTXp_Meta' = ssESfToTXp_Meta /\ txp_EchoCtrl' = "ECHO_PATH_THRU"
    BY <1>7 DEF TxpStart, TxpNext, TxpTakes, Dequeue
  <2>2. PICK m \in PosMeta : m = Head(ssRXpToTXp_Meta)
    BY <1>0, <2>1, QueueOps DEF MetaTypes
  <2>3. With(NoMeta, ssRXpToTXp_Meta) = With(m, Tail(ssRXpToTXp_Meta))
    BY <1>0, <2>1, <2>2, CutBegin DEF MetaTypes
  <2>4. EptCut(rm, m)'
    BY <1>2, <1>5, <2>1, <2>3 DEF EptCut, On, rxpVars
  <2>5. EsfCut(rm, m)'
    BY <1>2, <1>5, <2>1 DEF EsfCut, On, esfInVars, rxpVars
  <2>6. OutCut(m)' /\ TxpAt(m)'
    BY <1>2, <1>6, <2>1, <2>2, NoMetaLeft DEF TxpAt
  <2>7. MetaTypes'
    BY <1>0, <1>2, <2>1, <2>2, QueueOps DEF MetaTypes, inVars, esfInVars
  <2> QED BY <1>3, <2>4, <2>5, <2>6, <2>7 DEF AlignInv, AlignedBy
<1>8. CASE TxpNext = "ECHO_STORE_FWD"
  <2>1. /\ ssESfToTXp_Meta # << >> /\ ssESfToTXp_Meta' = Tail(ssESfToTXp_Meta)
        /\ soTSIF_Meta' = Append(soTSIF_Meta, Head(ssESfToTXp_Meta))
        /\ ssRXpToTXp_Meta' = ssRXpToTXp_Meta /\ txp_EchoCtrl' = "ECHO_STORE_FWD"
    BY <1>8 DEF TxpStart, TxpTakes, Dequeue
  <2>2. PICK m \in PosMeta : m = Head(ssESfToTXp_Meta)
    BY <1>0, <2>1, QueueOps DEF MetaTypes
  <2>3. PICK metas \in Seq(PosMeta) : metas = ssESfToTXp_Meta \o ssRXpToESf_Meta
    <3>1. ssESfToTXp_Meta \o ssRXpToESf_Meta \in Seq(PosMeta)
      BY <1>0, ConcatProperties DEF MetaTypes
    <3> QED BY <3>1
  <2>4. metas # << >> /\ Head(metas) = m /\ Tail(metas) = Tail(ssESfToTXp_Meta) \o ssRXpToESf_Meta
    BY <1>0, <2>1, <2>2, <2>3, HeadTailConcat DEF MetaTypes
  <2>5. With(NoMeta, metas) = With(m, Tail(ssESfToTXp_Meta) \o ssRXpToESf_Meta)
    BY <2>4, CutBegin
  <2>6. EsfCut(rm, m)'
    BY <1>2, <1>5, <2>1, <2>3, <2>5 DEF EsfCut, On, esfInVars, rxpVars
  <2>7. EptCut(rm, m)'
    BY <1>2, <1>5, <2>1 DEF EptCut, On, rxpVars
  <2>8. OutCut(m)' /\ TxpAt(m)'
    BY <1>2, <1>6, <2>1, <2>2, NoMetaLeft DEF TxpAt
  <2>9. MetaTypes'
    BY <1>0, <1>2, <2>1, <2>2, QueueOps DEF MetaTypes, inVars, esfInVars
  <2> QED BY <1>3, <2>6, <2>7, <2>8, <2>9 DEF AlignInv, AlignedBy
<1> QED BY <1>7, <1>8 DEF TxpNext

LEMMA AlignTxpContinue == ASSUME Types, AlignInv, TxpContinue PROVE AlignInv'
<1>0. MetaTypes /\ txp_EchoCtrl \in Paths
  BY DEF AlignInv, Types, TxpTypes
<1>1. PICK rm \in PosMeta \cup {NoMeta}, tm \in PosMeta \cup {NoMeta} : AlignedBy(rm, tm)
  BY DEF AlignInv
<1>2. /\ UNCHANGED << inVars, rxpVars, ssRXpToTXp_Meta, esfInVars, ssESfToTXp_Meta,
                      soTSIF_Meta, wrpMeta, wrpLeft >>
      /\ txp_fsmState = "TXP_CONTINUATION_OF_STREAM"
  BY DEF TxpContinue
<1>3. RxpAt(rm)' /\ InCut(rm)' /\ MetaTypes'
  BY <1>0, <1>1, <1>2, AlignKept DEF MetaTypes, inVars, esfInVars
<1>4. tm \in PosMeta /\ tm # NoMeta
  BY <1>1, <1>2 DEF AlignedBy, TxpAt
<1>5. PICK left \in PosMeta \cup {NoMeta} :
        /\ left = RestOf[tm]
        /\ ChunkAt[tm].tlast <=> left = NoMeta
  BY <1>4, LastChunk
<1>6. ASSUME soTSIF_Data' = Append(soTSIF_Data, ChunkAt[tm]) PROVE OutCut(left)'
  <2>1. Cut(Append(soTSIF_Data, ChunkAt[tm]), With(MetaLeft(wrpMeta, wrpLeft), soTSIF_Meta), RestOf[tm])
    BY <1>1, <1>4, CutPut DEF AlignedBy, OutCut
  <2> QED BY <1>2, <1>5, <1>6, <2>1 DEF OutCut
<1>7. ASSUME TxpAfter(ChunkAt[tm])
      PROVE  /\ TxpAt(left)'
             /\ \A p \in Paths : p # txp_EchoCtrl => On(p, txp_EchoCtrl, tm) = NoMeta
                                                     /\ On(p, txp_EchoCtrl, left)' = NoMeta
             /\ On(txp_EchoCtrl, txp_EchoCtrl', left) = left
  <2>1. CASE ChunkAt[tm].tlast
    BY <1>2, <1>5, <1>7, <2>1 DEF TxpAfter, TxpAt, On
  <2>2. CASE ~ChunkAt[tm].tlast
    BY <1>2, <1>5, <1>7, <2>2 DEF TxpAfter, TxpAt, On, txpVars
  <2> QED BY <2>1, <2>2
<1>8. CASE txp_EchoCtrl = "ECHO_PATH_THRU"
  <2>1. /\ ssRXpToTXp_Data # << >> /\ ssRXpToTXp_Data' = Tail(ssRXpToTXp_Data)
        /\ soTSIF_Data' = Append(soTSIF_Data, Head(ssRXpToTXp_Data))
        /\ TxpAfter(Head(ssRXpToTXp_Data)) /\ ssESfToTXp_Data' = ssESfToTXp_Data
    BY <1>8 DEF TxpContinue, Dequeue
  <2>2. Cut(ssRXpToTXp_Data, With(tm, ssRXpToTXp_Meta), On("ECHO_PATH_THRU", rxp_EchoCtrl, rm))
    BY <1>1, <1>8 DEF AlignedBy, EptCut, On
  <2>3. /\ Head(ssRXpToTXp_Data) = ChunkAt[tm]
        /\ Cut(Tail(ssRXpToTXp_Data), With(left, ssRXpToTXp_Meta),
               On("ECHO_PATH_THRU", rxp_EchoCtrl, rm))
    BY <1>0, <1>4, <1>5, <2>1, <2>2, CutTake DEF MetaTypes
  <2>4. OutCut(left)' /\ TxpAt(left)'
    BY <1>6, <1>7, <2>1, <2>3
  <2>5. On("ECHO_PATH_THRU", txp_EchoCtrl', left) = left
    BY <1>7, <1>8, <2>1, <2>3
  <2>6. EptCut(rm, left)'
    BY <1>2, <2>1, <2>3, <2>5 DEF EptCut, On, rxpVars
  <2>7. On("ECHO_STORE_FWD", txp_EchoCtrl, tm) = NoMeta /\ On("ECHO_STORE_FWD", txp_EchoCtrl', left) = NoMeta
    BY <1>7, <1>8, <2>1, <2>3 DEF Paths, On
  <2>8. EsfCut(rm, left)'
    BY <1>1, <1>2, <2>1, <2>7 DEF AlignedBy, EsfCut, On, esfInVars, rxpVars
  <2> QED BY <1>3, <2>4, <2>6, <2>8 DEF AlignInv, AlignedBy
<1>9. CASE txp_EchoCtrl = "ECHO_STORE_FWD"
  <2>1. /\ ssESfToTXp_Data # << >> /\ ssESfToTXp_Data' = Tail(ssESfToTXp_Data)
        /\ soTSIF_Data' = Append(soTSIF_Data, Head(ssESfToTXp_Data))
        /\ TxpAfter(Head(ssESfToTXp_Data)) /\ ssRXpToTXp_Data' = ssRXpToTXp_Data
    BY <1>9 DEF TxpContinue, Dequeue
  <2>2. PICK metas \in Seq(PosMeta) : metas = ssESfToTXp_Meta \o ssRXpToESf_Meta
    <3>1. ssESfToTXp_Meta \o ssRXpToESf_Meta \in Seq(PosMeta)
      BY <1>0, ConcatProperties DEF MetaTypes
    <3> QED BY <3>1
  <2>3. PICK line : line = ssESfToTXp_Data \o ssRXpToESf_Data
    OBVIOUS
  <2>4. /\ line # << >> /\ Head(line) = Head(ssESfToTXp_Data)
        /\ Tail(line) = Tail(ssESfToTXp_Data) \o ssRXpToESf_Data
    BY <2>1, <2>3, HeadTailConcat DEF Types, EsfInTypes, EsfOutTypes
  <2>5. Cut(line, With(tm, metas), On("ECHO_STORE_FWD", rxp_EchoCtrl, rm))
    BY <1>1, <1>9, <2>2, <2>3 DEF AlignedBy, EsfCut, On
  <2>6. /\ Head(line) = ChunkAt[tm]
        /\ Cut(Tail(line), With(left, metas), On("ECHO_STORE_FWD", rxp_EchoCtrl, rm))
    BY <1>4, <1>5, <2>4, <2>5, CutTake
  <2>7. OutCut(left)' /\ TxpAt(left)'
    BY <1>6, <1>7, <2>1, <2>4, <2>6
  <2>8. On("ECHO_STORE_FWD", txp_EchoCtrl', left) = left
    BY <1>7, <1>9, <2>1, <2>4, <2>6
  <2>9. EsfCut(rm, left)'
    BY <1>2, <2>1, <2>2, <2>4, <2>6, <2>8 DEF EsfCut, On, esfInVars, rxpVars
  <2>10. On("ECHO_PATH_THRU", txp_EchoCtrl, tm) = NoMeta /\ On("ECHO_PATH_THRU", txp_EchoCtrl', left) = NoMeta
    BY <1>7, <1>9, <2>1, <2>4, <2>6 DEF Paths, On
  <2>11. EptCut(rm, left)'
    BY <1>1, <1>2, <2>1, <2>10 DEF AlignedBy, EptCut, On, rxpVars
  <2> QED BY <1>3, <2>7, <2>9, <2>11 DEF AlignInv, AlignedBy
<1> QED BY <1>0, <1>8, <1>9 DEF Paths

LEMMA AlignStep == ASSUME Types, AlignInv, [Next]_vars PROVE AlignInv'
<1>1. CASE UNCHANGED vars
  <2>0. MetaTypes
    BY DEF AlignInv
  <2>1. PICK rm \in PosMeta \cup {NoMeta}, tm \in PosMeta \cup {NoMeta} : AlignedBy(rm, tm)
    BY DEF AlignInv
  <2>2. AlignedBy(rm, tm)'
    BY <1>1, <2>1, AlignKept DEF vars, rxpVars, txpVars, AlignedBy
  <2>3. MetaTypes'
    BY <1>1, <2>0 DEF vars, MetaTypes, inVars, eptVars, esfInVars, esfOutVars, outVars
  <2> QED BY <2>2, <2>3 DEF AlignInv
<1>2. CASE RXp \/ TXp
  BY <1>2, AlignRXp, AlignTxpStart, AlignTxpContinue DEF TXp
<1> QED BY <1>1, <1>2, AlignRdp, AlignWrp, AlignESf DEF Next

\* The line RXp is on is that of the chunk it reads.
LEMMA OnItsLine ==
  ASSUME Types, AlignInv, rxp_fsmState = "RXP_CONTINUATION_OF_STREAM", siTSIF_Data # << >>
  PROVE  EchoCtrl(Head(siTSIF_Data).sessId) = rxp_EchoCtrl
<1>1. PICK rm \in PosMeta \cup {NoMeta}, tm \in PosMeta \cup {NoMeta} : AlignedBy(rm, tm)
  BY DEF AlignInv
<1>2. rm \in PosMeta /\ EchoCtrl(rm.sessId) = rxp_EchoCtrl
  BY <1>1 DEF AlignedBy, RxpAt
<1>3. Head(siTSIF_Data) = ChunkAt[rm]
  BY <1>1, <1>2, CutTake DEF AlignedBy, InCut, AlignInv, MetaTypes
<1> QED BY <1>2, <1>3, ChunkAtFields

LEMMA AlignedAtExit == ASSUME Types, AlignInv PROVE EchoAligned
<1>1. PICK rm \in PosMeta \cup {NoMeta}, tm \in PosMeta \cup {NoMeta} : AlignedBy(rm, tm)
  BY DEF AlignInv
<1>2. SUFFICES ASSUME wrpLeft > 0, soTSIF_Data # << >>
               PROVE  /\ Head(soTSIF_Data).sessId = wrpMeta.sessId
                      /\ Head(soTSIF_Data).seg = wrpMeta.seg
                      /\ Head(soTSIF_Data).tlast <=> wrpLeft = 1
  BY Zenon DEF EchoAligned
<1>3. wrpMeta \in Meta /\ wrpLeft \in Nat /\ soTSIF_Meta \in Seq(PosMeta)
  BY DEF Types, OutTypes, AlignInv, MetaTypes
<1>4. PICK m \in PosMeta : /\ m = MetaLeft(wrpMeta, wrpLeft) /\ m.datLen = wrpLeft
                           /\ m.sessId = wrpMeta.sessId /\ m.seg = wrpMeta.seg
  BY <1>2, <1>3, MetaLeftOK
<1>5. Head(soTSIF_Data) = ChunkAt[m]
  BY <1>1, <1>2, <1>3, <1>4, CutTake DEF AlignedBy, OutCut
<1>6. Head(soTSIF_Data).sessId = wrpMeta.sessId /\ Head(soTSIF_Data).seg = wrpMeta.seg
  BY <1>4, <1>5, ChunkAtFields
<1>7. Head(soTSIF_Data).tlast <=> wrpLeft = 1
  BY <1>4, <1>5, ChunkAtFields, Zenon
<1> QED BY <1>6, <1>7, Zenon

\* tcp_app_flash.cpp:89-567: the metadata of a segment and its chunks, which
\* cross TAF in separate streams and on either of two lines, meet again at its
\* output, for any sessions, lengths, depths and interleaving: after a
\* {SessId, DatLen} pair come exactly the chunks of that segment, the last one
\* with TLAST.
THEOREM MetaMeetsItsData == Spec => []EchoAligned
<1> DEFINE Inv == Types /\ AlignInv
<1>1. Init => Inv
  BY TypesInit, AlignInit
<1>2. Inv /\ [Next]_vars => Inv'
  BY TypesStep, AlignStep
<1>3. Inv => EchoAligned
  BY AlignedAtExit
<1> QED BY <1>1, <1>2, <1>3, PTL DEF Spec

-----------------------------------------------------------------------------
(* The refinement.  Echo's variables are those of the substitution in Taf.  *)

EchoLine == [p \in Paths |-> IF p = "ECHO_PATH_THRU" THEN ssRXpToTXp_Data
                             ELSE ssESfToTXp_Data \o ssRXpToESf_Data]
EchoOpen == IF txp_fsmState = "TXP_START_OF_STREAM" THEN "NONE" ELSE txp_EchoCtrl
EchoVars == << siTSIF_Data, EchoLine, EchoOpen, soTSIF_Data >>

LEMMA EchoKept ==
  ASSUME UNCHANGED << siTSIF_Data, eptVars, esfInVars, esfOutVars, txpVars, soTSIF_Data >>
  PROVE  UNCHANGED EchoVars
  BY DEF EchoVars, EchoLine, EchoOpen, eptVars, esfInVars, esfOutVars, txpVars

LEMMA StepsAside ==
  ASSUME Types,
         \/ \E s \in SessIds, n \in DatLens : RdpMeta(s, n)
         \/ WrpMeta \/ RxpStart \/ ESf \/ UNCHANGED vars
  PROVE  UNCHANGED EchoVars
<1>1. ASSUME NEW s \in SessIds, NEW n \in DatLens, RdpMeta(s, n) PROVE UNCHANGED EchoVars
  BY <1>1, EchoKept DEF RdpMeta, outVars
<1>2. CASE WrpMeta
  BY <1>2, EchoKept DEF WrpMeta, inVars
<1>3. CASE RxpStart
  BY <1>3 DEF RxpStart, EchoVars, EchoLine, EchoOpen, esfOutVars, txpVars, outVars
<1>4. CASE ESf
  <2>1. UNCHANGED (ssESfToTXp_Data \o ssRXpToESf_Data)
    <3>1. CASE EsfMovesData
      <4>1. /\ ssESfToTXp_Data' = Append(ssESfToTXp_Data, Head(ssRXpToESf_Data))
            /\ ssRXpToESf_Data' = Tail(ssRXpToESf_Data) /\ ssRXpToESf_Data # << >>
        BY <1>4, <3>1 DEF ESf, EsfMovesData, Dequeue
      <4> QED BY <4>1, ShiftHead DEF Types, EsfInTypes, EsfOutTypes
    <3>2. CASE ~EsfMovesData
      BY <1>4, <3>2 DEF ESf
    <3> QED BY <3>1, <3>2
  <2>2. UNCHANGED << siTSIF_Data, ssRXpToTXp_Data, txp_fsmState, txp_EchoCtrl, soTSIF_Data >>
    BY <1>4 DEF ESf, inVars, eptVars, txpVars, outVars
  <2>3. UNCHANGED EchoLine
    BY <2>1, <2>2 DEF EchoLine
  <2> QED BY <2>2, <2>3 DEF EchoVars, EchoOpen
<1>5. CASE UNCHANGED vars
  BY <1>5, EchoKept DEF vars, inVars, outVars
<1> QED BY <1>1, <1>2, <1>3, <1>4, <1>5

LEMMA OpensLine == ASSUME Types, TxpStart PROVE \E p \in Paths : Echo!Open(p)
<1>1. TxpNext \in Paths
  BY DEF TxpNext, Paths
<1>2. EchoOpen = "NONE" /\ EchoOpen' = TxpNext
  BY DEF TxpStart, TxpTakes, EchoOpen
<1>3. UNCHANGED << siTSIF_Data, EchoLine, soTSIF_Data >>
  BY DEF TxpStart, EchoLine, inVars, esfInVars
<1> QED BY <1>1, <1>2, <1>3 DEF Echo!Open, EchoLine, EchoOpen

LEMMA JoinsLine == ASSUME Types, AlignInv, RxpContinue PROVE Echo!Join
<1> DEFINE chunk == Head(siTSIF_Data)
<1>1. /\ siTSIF_Data # << >> /\ siTSIF_Data' = Tail(siTSIF_Data) /\ chunk \in Chunk
      /\ UNCHANGED << ssESfToTXp_Data, txp_fsmState, txp_EchoCtrl, soTSIF_Data >>
  BY QueueOps DEF RxpContinue, Dequeue, esfOutVars, txpVars, outVars, Types, InTypes
<1>2. ChunkLine(chunk) = rxp_EchoCtrl /\ rxp_EchoCtrl \in Paths
  BY <1>1, OnItsLine DEF RxpContinue, ChunkLine, Types, RxpTypes
<1>3. \/ /\ rxp_EchoCtrl = "ECHO_PATH_THRU"
         /\ ssRXpToTXp_Data' = Append(ssRXpToTXp_Data, chunk)
         /\ UNCHANGED ssRXpToESf_Data
      \/ /\ rxp_EchoCtrl = "ECHO_STORE_FWD"
         /\ ssRXpToESf_Data' = Append(ssRXpToESf_Data, chunk)
         /\ UNCHANGED ssRXpToTXp_Data
  BY DEF RxpContinue
<1> HIDE DEF chunk
<1>4. EchoLine' = [EchoLine EXCEPT ![rxp_EchoCtrl] = Append(@, chunk)]
  <2>1. CASE rxp_EchoCtrl = "ECHO_PATH_THRU"
    BY <1>1, <1>3, <2>1 DEF EchoLine, Paths
  <2>2. CASE rxp_EchoCtrl = "ECHO_STORE_FWD"
    <3>1. ssESfToTXp_Data' \o ssRXpToESf_Data' =
            Append(ssESfToTXp_Data \o ssRXpToESf_Data, chunk)
      BY <1>1, <1>3, <2>2, ConcatAppend DEF Types, EsfInTypes, EsfOutTypes
    <3>2. UNCHANGED ssRXpToTXp_Data
      BY <1>3, <2>2
    <3> QED BY <2>2, <3>1, <3>2 DEF EchoLine, Paths
  <2> QED BY <1>2, <2>1, <2>2 DEF Paths
<1>5. UNCHANGED << EchoOpen, soTSIF_Data >>
  BY <1>1 DEF EchoOpen
<1> QED BY <1>1, <1>2, <1>4, <1>5 DEF Echo!Join, EchoLine, EchoOpen, chunk

LEMMA EmitsChunk == ASSUME Types, TxpContinue PROVE \E p \in Paths : Echo!Emit(p)
<1> DEFINE chunk == Head(EchoLine[txp_EchoCtrl])
<1>0. /\ txp_EchoCtrl \in Paths /\ txp_fsmState = "TXP_CONTINUATION_OF_STREAM"
      /\ UNCHANGED << siTSIF_Data, ssRXpToESf_Data >>
  BY DEF TxpContinue, Types, TxpTypes, inVars, esfInVars
<1>1. /\ EchoLine[txp_EchoCtrl] # << >>
      /\ soTSIF_Data' = Append(soTSIF_Data, chunk) /\ TxpAfter(chunk)
      /\ EchoLine' = [EchoLine EXCEPT ![txp_EchoCtrl] = Tail(@)]
  <2>1. CASE txp_EchoCtrl = "ECHO_PATH_THRU"
    <3>1. EchoLine[txp_EchoCtrl] = ssRXpToTXp_Data
      BY <1>0, <2>1 DEF EchoLine
    <3>2. /\ ssRXpToTXp_Data # << >> /\ ssRXpToTXp_Data' = Tail(ssRXpToTXp_Data)
          /\ soTSIF_Data' = Append(soTSIF_Data, Head(ssRXpToTXp_Data))
          /\ TxpAfter(Head(ssRXpToTXp_Data)) /\ UNCHANGED ssESfToTXp_Data
      BY <2>1 DEF TxpContinue, Dequeue
    <3>3. EchoLine' = [EchoLine EXCEPT ![txp_EchoCtrl] = Tail(@)]
      BY <1>0, <2>1, <3>2 DEF EchoLine, Paths
    <3> QED BY <3>1, <3>2, <3>3
  <2>2. CASE txp_EchoCtrl = "ECHO_STORE_FWD"
    <3>1. EchoLine[txp_EchoCtrl] = ssESfToTXp_Data \o ssRXpToESf_Data
      BY <1>0, <2>2 DEF EchoLine
    <3>2. /\ ssESfToTXp_Data # << >> /\ ssESfToTXp_Data' = Tail(ssESfToTXp_Data)
          /\ soTSIF_Data' = Append(soTSIF_Data, Head(ssESfToTXp_Data))
          /\ TxpAfter(Head(ssESfToTXp_Data)) /\ UNCHANGED ssRXpToTXp_Data
      BY <2>2 DEF TxpContinue, Dequeue
    <3>3. /\ ssESfToTXp_Data \o ssRXpToESf_Data # << >>
          /\ Head(ssESfToTXp_Data \o ssRXpToESf_Data) = Head(ssESfToTXp_Data)
          /\ Tail(ssESfToTXp_Data \o ssRXpToESf_Data) = Tail(ssESfToTXp_Data) \o ssRXpToESf_Data
      BY <3>2, HeadTailConcat DEF Types, EsfInTypes, EsfOutTypes
    <3>4. EchoLine' = [EchoLine EXCEPT ![txp_EchoCtrl] = Tail(@)]
      BY <1>0, <2>2, <3>2, <3>3 DEF EchoLine, Paths
    <3> QED BY <3>1, <3>2, <3>3, <3>4
  <2> QED BY <1>0, <2>1, <2>2 DEF Paths
<1> HIDE DEF chunk
<1>2. EchoOpen = txp_EchoCtrl
  BY <1>0 DEF EchoOpen
<1>3. EchoOpen' = IF chunk.tlast THEN "NONE" ELSE txp_EchoCtrl
  BY <1>0, <1>1 DEF TxpAfter, txpVars, EchoOpen
<1>4. PICK p \in Paths : p = txp_EchoCtrl
  BY <1>0
<1>5. Echo!Emit(p)
  BY <1>0, <1>1, <1>2, <1>3, <1>4 DEF Echo!Emit, EchoLine, EchoOpen, chunk
<1> QED BY <1>5

LEMMA EchoInit == ASSUME Init PROVE Echo!Init
<1>1. << >> \o << >> = << >>
  OBVIOUS
<1> QED BY <1>1 DEF Init, Echo!Init

LEMMA EchoStep == ASSUME Types, AlignInv, [Next]_vars PROVE [Echo!Next]_Echo!vars
<1>1. CASE \/ TsifWrites \/ WrpMeta \/ RxpStart \/ ESf \/ UNCHANGED vars
  BY <1>1, StepsAside DEF TsifWrites, EchoVars, EchoLine, EchoOpen, Echo!vars
<1>2. CASE RdpData
  <2> DEFINE chunk == [sessId |-> rdpMeta.sessId, seg |-> rdpMeta.seg, tlast |-> rdpLeft = 1]
  <2>1. chunk \in Chunk
    BY DEF Types, InTypes, Meta, Chunk
  <2>2. siTSIF_Data' = Append(siTSIF_Data, chunk)
    BY <1>2 DEF RdpData
  <2> HIDE DEF chunk
  <2>3. UNCHANGED << EchoLine, EchoOpen, soTSIF_Data >>
    BY <1>2 DEF RdpData, EchoLine, EchoOpen, eptVars, esfInVars, esfOutVars, txpVars, outVars
  <2>4. Echo!Arrive(chunk)
    BY <2>2, <2>3 DEF Echo!Arrive, EchoLine, EchoOpen
  <2> QED BY <2>1, <2>4 DEF Echo!Next
<1>3. CASE WrpData
  <2>1. UNCHANGED << siTSIF_Data, EchoLine, EchoOpen >>
    BY <1>3 DEF WrpData, EchoLine, EchoOpen, inVars, eptVars, esfInVars, esfOutVars, txpVars
  <2>2. soTSIF_Data # << >> /\ soTSIF_Data' = Tail(soTSIF_Data)
    BY <1>3 DEF WrpData, Dequeue
  <2>3. Echo!Leave
    BY <2>1, <2>2 DEF Echo!Leave, EchoLine, EchoOpen
  <2> QED BY <2>3 DEF Echo!Next
<1>4. CASE RxpContinue
  BY <1>4, JoinsLine DEF Echo!Next
<1>5. CASE TXp
  BY <1>5, OpensLine, EmitsChunk DEF TXp, Echo!Next
<1> QED BY <1>1, <1>2, <1>3, <1>4, <1>5 DEF Next, TsifReads, RXp

\* tcp_app_flash.cpp:89-567: TAF implements the echo of two lines (TafEcho), for any
\* sessions, lengths and depths: the chunks of a line leave in the order they
\* came, and a segment keeps the output until its last chunk.
THEOREM TafImplementsEcho == Spec => EchoesInOrder
<1> DEFINE Inv == Types /\ AlignInv
<1>1. Init => Inv
  BY TypesInit, AlignInit
<1>2. Inv /\ [Next]_vars => Inv'
  BY TypesStep, AlignStep
<1>3. Init => Echo!Init
  BY EchoInit
<1>4. Inv /\ [Next]_vars => [Echo!Next]_Echo!vars
  BY EchoStep
<1> QED BY <1>1, <1>2, <1>3, <1>4, PTL DEF Spec, EchoesInOrder, Echo!Spec
=============================================================================
