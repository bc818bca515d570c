----------------------------- MODULE TsifTx_proofs -----------------------------
(***************************************************************************)
(* Proofs about the transmit path of TSIF: what COn and WRp promise holds  *)
(* for any sessions, lengths, depths, retries and test commands.           *)
(***************************************************************************)
EXTENDS TsifTx, StreamLemmas

PosNat == Nat \ {0}

-----------------------------------------------------------------------------
(* A stream of chunks that carries segments: its chunks q, the lengths of   *)
(* the segments they are cut from (what is left of the first one), how much *)
(* of the last one is still to be written, and the number of the last one.  *)
(* Such a stream is built by announcing segments and by writing chunks.     *)

CutStreams == Seq(Chunk) \X Seq(PosNat) \X Nat \X Nat

\* c is the chunk to cut from a segment of which n bytes are left.
Fits(c, n) == c.len = LenOfChunk(n) /\ (c.tlast <=> n <= ARW_BYTES)

HasEmpty(R) == \A seg \in Nat : << << >>, << >>, 0, seg >> \in R

HasNew(R) ==
  \A q \in Seq(Chunk), lens \in Seq(PosNat), seg \in Nat, n \in PosNat :
    << q, lens, 0, seg >> \in R => << q, Append(lens, n), n, seg + 1 >> \in R

HasWrite(R, numbered) ==
  \A q \in Seq(Chunk), lens \in Seq(PosNat), due \in PosNat, seg \in Nat, c \in Chunk :
    << q, lens, due, seg >> \in R /\ Fits(c, due) /\ (numbered => c.seg = seg)
      => << Append(q, c), lens, due - c.len, seg >> \in R

Closed(R, numbered) == HasEmpty(R) /\ HasNew(R) /\ HasWrite(R, numbered)

\* The least relation that announcements and writes keep; in a numbered stream
\* the chunks name their segments.
Cut(numbered, q, lens, due, seg) ==
  /\ << q, lens, due, seg >> \in CutStreams
  /\ \A R \in SUBSET CutStreams : Closed(R, numbered) => << q, lens, due, seg >> \in R

\* The empty stream.
LEMMA CutEmpty ==
  ASSUME NEW numbered \in BOOLEAN, NEW seg \in Nat
  PROVE  Cut(numbered, << >>, << >>, 0, seg)
<1>1. << << >>, << >>, 0, seg >> \in CutStreams
  <2>1. << >> \in Seq(Chunk) /\ << >> \in Seq(PosNat)
    OBVIOUS
  <2> QED BY <2>1 DEF CutStreams
<1>2. ASSUME NEW R \in SUBSET CutStreams, Closed(R, numbered)
      PROVE  << << >>, << >>, 0, seg >> \in R
  BY <1>2 DEF Closed, HasEmpty
<1> QED BY <1>1, <1>2 DEF Cut

\* A segment is announced when the one before is written.
LEMMA CutNew ==
  ASSUME NEW numbered \in BOOLEAN, NEW q \in Seq(Chunk), NEW lens \in Seq(PosNat),
         NEW seg \in Nat, NEW n \in PosNat, Cut(numbered, q, lens, 0, seg)
  PROVE  Cut(numbered, q, Append(lens, n), n, seg + 1)
<1>1. << q, Append(lens, n), n, seg + 1 >> \in CutStreams
  <2>1. Append(lens, n) \in Seq(PosNat)
    BY QueueOps
  <2>2. n \in Nat /\ seg + 1 \in Nat
    BY DEF PosNat
  <2> QED BY <2>1, <2>2 DEF CutStreams
<1>2. ASSUME NEW R \in SUBSET CutStreams, Closed(R, numbered)
      PROVE  << q, Append(lens, n), n, seg + 1 >> \in R
  BY <1>2 DEF Cut, Closed, HasNew
<1> QED BY <1>1, <1>2 DEF Cut

\* The next chunk is written.
LEMMA CutWrite ==
  ASSUME NEW numbered \in BOOLEAN, NEW q \in Seq(Chunk), NEW lens \in Seq(PosNat),
         NEW due \in PosNat, NEW seg \in Nat, NEW c \in Chunk,
         Cut(numbered, q, lens, due, seg), Fits(c, due), numbered => c.seg = seg
  PROVE  Cut(numbered, Append(q, c), lens, due - c.len, seg)
<1>1. due - c.len \in Nat
  BY DEF Fits, LenOfChunk, PosNat, ARW_BYTES
<1>2. << Append(q, c), lens, due - c.len, seg >> \in CutStreams
  <2>1. Append(q, c) \in Seq(Chunk)
    BY QueueOps
  <2> QED BY <1>1, <2>1 DEF CutStreams
<1>3. ASSUME NEW R \in SUBSET CutStreams, Closed(R, numbered)
      PROVE  << Append(q, c), lens, due - c.len, seg >> \in R
  BY <1>3 DEF Cut, Closed, HasWrite
<1> QED BY <1>2, <1>3 DEF Cut

-----------------------------------------------------------------------------
(* What is at the head of a stream, and what a read leaves of it.           *)

Announced(q, lens, due) ==
  /\ q = << >> => lens = IF due = 0 THEN << >> ELSE << due >>
  /\ q # << >> => lens # << >>

HeadFits(numbered, q, lens, seg) ==
  q # << >> => /\ Fits(Head(q), Head(lens))
               /\ numbered => Head(q).seg = (seg - Len(lens)) + 1

TailIsCut(numbered, q, lens, due, seg) ==
  /\ q # << >> /\ Head(q).tlast => Cut(numbered, Tail(q), Tail(lens), due, seg)
  /\ q # << >> /\ ~Head(q).tlast
       => /\ Head(lens) - ARW_BYTES \in PosNat
          /\ Cut(numbered, Tail(q), << Head(lens) - ARW_BYTES >> \o Tail(lens), due, seg)

Readable(numbered) ==
  {x \in CutStreams : /\ Cut(numbered, x[1], x[2], x[3], x[4])
                      /\ Len(x[2]) <= x[4]
                      /\ Announced(x[1], x[2], x[3])
                      /\ HeadFits(numbered, x[1], x[2], x[4])
                      /\ TailIsCut(numbered, x[1], x[2], x[3], x[4])}

\* Readable contains the empty streams and is kept by announcements and writes,
\* so that it contains every stream of segments.
LEMMA ReadableNew == ASSUME NEW numbered \in BOOLEAN PROVE HasNew(Readable(numbered))
<1> SUFFICES ASSUME NEW q \in Seq(Chunk), NEW lens \in Seq(PosNat), NEW seg \in Nat,
                    NEW n \in PosNat, << q, lens, 0, seg >> \in Readable(numbered)
             PROVE  << q, Append(lens, n), n, seg + 1 >> \in Readable(numbered)
  BY DEF HasNew
<1> DEFINE more == Append(lens, n)
<1>1. /\ Cut(numbered, q, lens, 0, seg) /\ Len(lens) <= seg /\ Announced(q, lens, 0)
      /\ HeadFits(numbered, q, lens, seg) /\ TailIsCut(numbered, q, lens, 0, seg)
  BY DEF Readable
<1>2. Cut(numbered, q, more, n, seg + 1)
  BY <1>1, CutNew
<1>3. /\ more \in Seq(PosNat) /\ more # << >> /\ Len(more) = Len(lens) + 1
      /\ lens # << >> => Head(more) = Head(lens) /\ Tail(more) = Append(Tail(lens), n)
      /\ lens = << >> => more = << n >>
  <2>1. more \in Seq(PosNat)
    BY QueueOps
  <2>2. lens = << >> => more = << n >>
    OBVIOUS
  <2> QED BY <2>1, <2>2, AppendReads
<1>4. Len(more) <= seg + 1
  <2>1. Len(lens) \in Nat
    OBVIOUS
  <2> QED BY <2>1, <1>1, <1>3
<1>5. Announced(q, more, n)
  BY <1>1, <1>3 DEF Announced, PosNat
<1>6. HeadFits(numbered, q, more, seg + 1)
  <2>1. Len(lens) \in Nat
    OBVIOUS
  <2>2. ((seg + 1) - Len(more)) + 1 = (seg - Len(lens)) + 1
    BY <2>1, <1>3
  <2> QED BY <2>2, <1>1, <1>3 DEF HeadFits, Announced
<1>7. TailIsCut(numbered, q, more, n, seg + 1)
  <2> SUFFICES ASSUME q # << >>
               PROVE  TailIsCut(numbered, q, more, n, seg + 1)
    BY DEF TailIsCut
  <2>1. lens # << >> /\ Tail(q) \in Seq(Chunk) /\ Tail(lens) \in Seq(PosNat)
    BY <1>1 DEF Announced
  <2>2. ASSUME Head(q).tlast
        PROVE  Cut(numbered, Tail(q), Tail(more), n, seg + 1)
    <3>1. Cut(numbered, Tail(q), Tail(lens), 0, seg)
      BY <1>1, <2>2 DEF TailIsCut
    <3> QED BY <3>1, <2>1, <1>3, CutNew
  <2>3. ASSUME ~Head(q).tlast
        PROVE  /\ Head(more) - ARW_BYTES \in PosNat
               /\ Cut(numbered, Tail(q), << Head(more) - ARW_BYTES >> \o Tail(more), n, seg + 1)
    <3>1. PICK left \in PosNat : left = Head(lens) - ARW_BYTES
      BY <1>1, <2>3 DEF TailIsCut
    <3>2. Cut(numbered, Tail(q), << left >> \o Tail(lens), 0, seg)
      BY <1>1, <2>3, <3>1 DEF TailIsCut
    <3>3. << left >> \o Tail(lens) \in Seq(PosNat)
      BY <2>1
    <3>4. Cut(numbered, Tail(q), Append(<< left >> \o Tail(lens), n), n, seg + 1)
      BY <3>2, <3>3, <2>1, CutNew
    <3>5. Append(<< left >> \o Tail(lens), n) = << left >> \o Tail(more)
      BY SMTT(30), <2>1, <1>3, PrependAppend
    <3> QED BY <3>1, <3>4, <3>5, <2>1, <1>3
  <2> QED BY <2>2, <2>3 DEF TailIsCut
<1>8. << q, more, n, seg + 1 >> \in CutStreams
  BY <1>2 DEF Cut
<1> QED BY <1>2, <1>4, <1>5, <1>6, <1>7, <1>8 DEF Readable

LEMMA ReadableWrite ==
  ASSUME NEW numbered \in BOOLEAN PROVE HasWrite(Readable(numbered), numbered)
<1> SUFFICES ASSUME NEW q \in Seq(Chunk), NEW lens \in Seq(PosNat), NEW due \in PosNat,
                    NEW seg \in Nat, NEW c \in Chunk,
                    << q, lens, due, seg >> \in Readable(numbered),
                    Fits(c, due), numbered => c.seg = seg
             PROVE  << Append(q, c), lens, due - c.len, seg >> \in Readable(numbered)
  BY DEF HasWrite
<1> DEFINE more == Append(q, c)
           left == due - c.len
<1>1. /\ Cut(numbered, q, lens, due, seg) /\ Len(lens) <= seg /\ Announced(q, lens, due)
      /\ HeadFits(numbered, q, lens, seg) /\ TailIsCut(numbered, q, lens, due, seg)
  BY DEF Readable
<1>2. Cut(numbered, more, lens, left, seg)
  BY <1>1, CutWrite
<1>3. << more, lens, left, seg >> \in CutStreams
  BY <1>2 DEF Cut
<1>4. /\ more # << >>
      /\ q # << >> => Head(more) = Head(q) /\ Tail(more) = Append(Tail(q), c)
      /\ q = << >> => Head(more) = c /\ Tail(more) = << >>
  BY AppendReads
<1>5. CASE q = << >>
  <2>1. /\ lens = << due >> /\ Len(lens) = 1 /\ Head(lens) = due /\ Tail(lens) = << >>
        /\ seg - 1 \in Nat
    <3>1. lens = << due >>
      BY <1>1, <1>5 DEF Announced, PosNat
    <3> QED BY <3>1, <1>1
  <2>2. Announced(more, lens, left) /\ HeadFits(numbered, more, lens, seg)
    BY <1>4, <1>5, <2>1 DEF Announced, HeadFits
  <2>3. ASSUME c.tlast
        PROVE  Cut(numbered, << >>, << >>, left, seg)
    <3>1. left = 0
      BY <2>3 DEF Fits, LenOfChunk, PosNat, ARW_BYTES
    <3> QED BY <3>1, CutEmpty
  <2>4. ASSUME ~c.tlast
        PROVE  /\ due - ARW_BYTES \in PosNat
               /\ Cut(numbered, << >>, << due - ARW_BYTES >> \o << >>, left, seg)
    <3>1. due - ARW_BYTES \in PosNat /\ left = due - ARW_BYTES
      BY <2>4 DEF Fits, LenOfChunk, PosNat, ARW_BYTES
    <3>2. Cut(numbered, << >>, << >>, 0, seg - 1)
      BY <2>1, CutEmpty
    <3>3. << >> \in Seq(Chunk) /\ << >> \in Seq(PosNat)
      OBVIOUS
    <3>4. PICK rest \in PosNat : rest = left
      BY <3>1
    <3>5. Cut(numbered, << >>, Append(<< >>, rest), rest, (seg - 1) + 1)
      BY <2>1, <3>2, <3>3, <3>4, CutNew
    <3>6. Append(<< >>, rest) = << rest >> \o << >> /\ (seg - 1) + 1 = seg
      BY <2>1
    <3> QED BY <3>1, <3>4, <3>5, <3>6
  <2>5. TailIsCut(numbered, more, lens, left, seg)
    BY <1>4, <1>5, <2>1, <2>3, <2>4 DEF TailIsCut
  <2> QED BY <1>1, <1>2, <1>3, <2>2, <2>5 DEF Readable
<1>6. CASE q # << >>
  <2>1. lens # << >> /\ Tail(q) \in Seq(Chunk) /\ Tail(lens) \in Seq(PosNat)
    BY <1>1, <1>6 DEF Announced
  <2>2. Announced(more, lens, left) /\ HeadFits(numbered, more, lens, seg)
    BY <1>1, <1>4, <1>6, <2>1 DEF Announced, HeadFits
  <2>3. ASSUME Head(q).tlast
        PROVE  Cut(numbered, Append(Tail(q), c), Tail(lens), left, seg)
    <3>1. Cut(numbered, Tail(q), Tail(lens), due, seg)
      BY <1>1, <1>6, <2>3 DEF TailIsCut
    <3> QED BY <3>1, <2>1, CutWrite
  <2>4. ASSUME ~Head(q).tlast
        PROVE  /\ Head(lens) - ARW_BYTES \in PosNat
               /\ Cut(numbered, Append(Tail(q), c), << Head(lens) - ARW_BYTES >> \o Tail(lens),
                      left, seg)
    <3>1. /\ Head(lens) - ARW_BYTES \in PosNat
          /\ Cut(numbered, Tail(q), << Head(lens) - ARW_BYTES >> \o Tail(lens), due, seg)
      BY <1>1, <1>6, <2>4 DEF TailIsCut
    <3>2. << Head(lens) - ARW_BYTES >> \o Tail(lens) \in Seq(PosNat)
      BY <2>1, <3>1
    <3> QED BY <3>1, <3>2, <2>1, CutWrite
  <2>5. TailIsCut(numbered, more, lens, left, seg)
    BY <1>4, <1>6, <2>3, <2>4 DEF TailIsCut
  <2> QED BY <1>1, <1>2, <1>3, <2>2, <2>5 DEF Readable
<1> QED BY <1>5, <1>6

LEMMA ReadableEmpty == ASSUME NEW numbered \in BOOLEAN PROVE HasEmpty(Readable(numbered))
<1> SUFFICES ASSUME NEW seg \in Nat
             PROVE  << << >>, << >>, 0, seg >> \in Readable(numbered)
  BY DEF HasEmpty
<1>1. Cut(numbered, << >>, << >>, 0, seg)
  BY CutEmpty
<1>2. << << >>, << >>, 0, seg >> \in CutStreams
  BY <1>1 DEF Cut
<1>3. Announced(<< >>, << >>, 0)
  BY DEF Announced
<1>4. HeadFits(numbered, << >>, << >>, seg) /\ TailIsCut(numbered, << >>, << >>, 0, seg)
  BY DEF HeadFits, TailIsCut
<1>5. Len(<< >>) <= seg
  OBVIOUS
<1> QED BY <1>1, <1>2, <1>3, <1>4, <1>5 DEF Readable

\* A stream of segments is readable: the chunk at its head is cut from the
\* first segment, and what is left is a stream of segments again.
LEMMA CutRead ==
  ASSUME NEW numbered \in BOOLEAN, NEW q, NEW lens, NEW due, NEW seg,
         Cut(numbered, q, lens, due, seg)
  PROVE  /\ q \in Seq(Chunk) /\ lens \in Seq(PosNat) /\ due \in Nat /\ seg \in Nat
         /\ Announced(q, lens, due) /\ HeadFits(numbered, q, lens, seg)
         /\ TailIsCut(numbered, q, lens, due, seg)
         /\ Len(lens) <= seg
<1>1. Readable(numbered) \in SUBSET CutStreams
  BY DEF Readable
<1>2. Closed(Readable(numbered), numbered)
  BY ReadableEmpty, ReadableNew, ReadableWrite DEF Closed
<1>3. << q, lens, due, seg >> \in Readable(numbered)
  BY <1>1, <1>2 DEF Cut
<1>4. << q, lens, due, seg >> \in CutStreams
  BY DEF Cut
<1> QED BY <1>3, <1>4 DEF Readable, CutStreams

-----------------------------------------------------------------------------
(* The types of COn's side: the commands, the connections and the replies.  *)

ConTypes ==
  /\ piSHL_Enable \in BOOLEAN
  /\ ssRDpToCOn_OpnSockReq \in Seq(Socks) /\ ssRDpToCOn_TxCountReq \in Seq(TxCounts)
  /\ rdpCmds \in 0..MaxCmds
  /\ con_fsmState \in {"CON_IDLE", "CON_RD_RDp", "CON_OPN_REQ", "CON_OPN_REP", "CON_WR_WRp"}
  /\ con_testSockAddr \in Socks \cup {NoSock}
  /\ con_opnRep \in OpnRep /\ con_txBytesReq \in Nat
  /\ ssCOnToWRp_TxBytesReq \in Seq(Nat) /\ ssCOnToWRp_TxSessId \in Seq(SessIds)
  /\ soSHL_OpnReq \in Seq(Socks) /\ siSHL_OpnRep \in Seq(OpnRep)
  /\ soSHL_ClsReq \in Seq(SessIds)
  /\ toeOpen \subseteq SessIds /\ crossed \in BOOLEAN
  /\ con_fsmState = "CON_OPN_REQ" => con_testSockAddr \in Socks

conSide == << piSHL_Enable, rdpVars, conVars, txReqVars, opnVars, toeOpen, toeLast, crossed >>

LEMMA ConTypesInit == Init => ConTypes
<1> SUFFICES ASSUME Init PROVE ConTypes
  OBVIOUS
<1>1. AnySess \in SessIds
  BY TxSessAssumption DEF AnySess
<1>2. siSHL_OpnRep \in Seq(OpnRep) /\ soSHL_OpnReq \in Seq(Socks)
  BY TxResidueAssumption DEF Init
<1>3. con_opnRep \in OpnRep
  BY <1>1 DEF Init, OpnRep
<1>4. toeOpen \subseteq SessIds
  <2>1. \A i \in DOMAIN siSHL_OpnRep : siSHL_OpnRep[i] \in OpnRep
    BY <1>2
  <2>2. \A i \in DOMAIN siSHL_OpnRep : siSHL_OpnRep[i].sessId \in SessIds
    BY <2>1 DEF OpnRep
  <2> QED BY <2>2, TxSessAssumption DEF Init
<1>5. rdpCmds \in 0..MaxCmds
  BY TxDepthAssumption DEF Init
<1>6. /\ ssRDpToCOn_OpnSockReq \in Seq(Socks) /\ ssRDpToCOn_TxCountReq \in Seq(TxCounts)
      /\ ssCOnToWRp_TxBytesReq \in Seq(Nat) /\ ssCOnToWRp_TxSessId \in Seq(SessIds)
      /\ soSHL_ClsReq \in Seq(SessIds)
  BY DEF Init
<1> QED BY <1>2, <1>3, <1>4, <1>5, <1>6 DEF Init, ConTypes

LEMMA ConTypesSame == ConTypes /\ UNCHANGED conSide => ConTypes'
BY DEF ConTypes, conSide, rdpVars, conVars, txReqVars, opnVars

LEMMA ConTypesEnv ==
  ASSUME ConTypes,
         \/ MmioEnable
         \/ \E sock \in Socks, count \in TxCounts : RdpCommand(sock, count)
         \/ \E s \in SessIds : ToePeerCloses(s)
         \/ \E s \in SessIds, state \in OpnStates : ToeOpen(s, state)
         \/ ToeClose
  PROVE  ConTypes'
<1> USE DEF ConTypes
<1>1. CASE MmioEnable
  BY <1>1 DEF MmioEnable, rdpVars, conVars, txReqVars, opnVars, toeVars
<1>2. ASSUME NEW sock \in Socks, NEW count \in TxCounts, RdpCommand(sock, count)
      PROVE  ConTypes'
  <2>1. ssRDpToCOn_OpnSockReq' \in Seq(Socks) /\ ssRDpToCOn_TxCountReq' \in Seq(TxCounts)
    <3>1. /\ ssRDpToCOn_OpnSockReq' = Append(ssRDpToCOn_OpnSockReq, sock)
          /\ ssRDpToCOn_TxCountReq' = Append(ssRDpToCOn_TxCountReq, count)
      BY <1>2 DEF RdpCommand
    <3> QED BY <3>1, QueueOps
  <2>2. rdpCmds' \in 0..MaxCmds
    BY SMTT(30), <1>2, TxDepthAssumption DEF RdpCommand
  <2> QED BY <1>2, <2>1, <2>2 DEF RdpCommand, conVars, txReqVars, opnVars, toeVars
<1>3. ASSUME NEW s \in SessIds, ToePeerCloses(s)
      PROVE  ConTypes'
  BY <1>3 DEF ToePeerCloses, rdpVars, conVars, txReqVars, opnVars
<1>4. ASSUME NEW s \in SessIds, NEW state \in OpnStates, ToeOpen(s, state)
      PROVE  ConTypes'
  <2>1. [sessId |-> s, tcpState |-> state] \in OpnRep
    BY TxReplyAssumption DEF OpnRep
  <2>2. siSHL_OpnRep' \in Seq(OpnRep) /\ soSHL_OpnReq' \in Seq(Socks)
    BY <1>4, <2>1, QueueOps DEF ToeOpen, Dequeue
  <2>3. toeOpen' \subseteq SessIds
    BY <1>4 DEF ToeOpen
  <2> QED BY <1>4, <2>2, <2>3 DEF ToeOpen, rdpVars, conVars, txReqVars
<1>5. CASE ToeClose
  <2>1. soSHL_ClsReq' \in Seq(SessIds) /\ toeOpen' \subseteq SessIds
    BY <1>5, QueueOps DEF ToeClose, Dequeue
  <2> QED BY <1>5, <2>1 DEF ToeClose, rdpVars, conVars, txReqVars
<1> QED BY <1>1, <1>2, <1>3, <1>4, <1>5

LEMMA ConTypesCOn == ASSUME ConTypes, COn PROVE ConTypes'
<1> USE DEF ConTypes, ConUnchanged, txReqVars, opnVars, toeVars
<1>1. CASE ConIdleDrain
  <2>1. con_opnRep' \in OpnRep /\ siSHL_OpnRep' \in Seq(OpnRep)
    BY <1>1, QueueOps DEF ConIdleDrain, Dequeue
  <2>2. soSHL_ClsReq' \in Seq(SessIds)
    <3>1. con_opnRep'.sessId \in SessIds
      BY <2>1 DEF OpnRep
    <3> QED BY <1>1, <3>1, QueueOps DEF ConIdleDrain
  <2> QED BY <1>1, <2>1, <2>2 DEF ConIdleDrain
<1>2. CASE ConIdle
  BY <1>2 DEF ConIdle
<1>3. CASE ConRdRDp
  <2>1. /\ Head(ssRDpToCOn_OpnSockReq) \in Socks /\ Head(ssRDpToCOn_TxCountReq) \in Nat
        /\ ssRDpToCOn_OpnSockReq' \in Seq(Socks) /\ ssRDpToCOn_TxCountReq' \in Seq(TxCounts)
    BY <1>3, QueueOps, TxLenAssumption DEF ConRdRDp, Dequeue
  <2> QED BY <1>3, <2>1 DEF ConRdRDp, ConCommand
<1>4. CASE ConOpnReq
  <2>1. soSHL_OpnReq' \in Seq(Socks)
    BY <1>4, QueueOps DEF ConOpnReq
  <2>2. crossed' \in BOOLEAN
    BY <1>4 DEF ConOpnReq
  <2> QED BY <1>4, <2>1, <2>2 DEF ConOpnReq
<1>5. CASE ConOpnRep
  <2>1. con_opnRep' \in OpnRep /\ siSHL_OpnRep' \in Seq(OpnRep)
    BY <1>5, QueueOps DEF ConOpnRep, Dequeue
  <2> QED BY <1>5, <2>1 DEF ConOpnRep
<1>6. CASE ConWrWRp
  <2>1. con_opnRep.sessId \in SessIds
    BY DEF OpnRep
  <2>2. ssCOnToWRp_TxBytesReq' \in Seq(Nat) /\ ssCOnToWRp_TxSessId' \in Seq(SessIds)
    BY <1>6, <2>1, QueueOps DEF ConWrWRp
  <2> QED BY <1>6, <2>2 DEF ConWrWRp
<1> QED BY <1>1, <1>2, <1>3, <1>4, <1>5, <1>6 DEF COn

\* WRp takes the test requests.
LEMMA ConTypesWrpTest == ASSUME ConTypes, WrpIdleTest PROVE ConTypes'
<1>1. ssCOnToWRp_TxBytesReq' \in Seq(Nat) /\ ssCOnToWRp_TxSessId' \in Seq(SessIds)
  BY QueueOps DEF ConTypes, WrpIdleTest, TestWaits, Dequeue
<1> QED BY <1>1 DEF ConTypes, WrpIdleTest, WrpUnchanged, rdpVars, conVars, opnVars, toeVars

\* The other actions leave COn's side alone.
LEMMA ConSideSame ==
  ASSUME \/ \E s \in TafSessIds, n \in DatLens : TafAnnounce(s, n)
         \/ TafChunk
         \/ \E error \in SndReplies : ToeSndRep(error)
         \/ ToeData
         \/ WrpIdleTaf \/ WrpRts \/ WrpRtsRep \/ WrpStream \/ WrpDrain \/ WrpTxGen
  PROVE  UNCHANGED conSide
BY DEF conSide, toeVars, WrpUnchanged, TafAnnounce, TafChunk, ToeSndRep, ToeData, WrpIdleTaf,
       WrpRts, WrpRtsRep, WrpStream, WrpDrain, WrpTxGen, WrpTakesChunk

LEMMA ConTypesNext == ASSUME ConTypes, [Next]_vars PROVE ConTypes'
<1>1. CASE UNCHANGED vars
  BY <1>1, ConTypesSame DEF vars, conSide, toeVars
<1>2. CASE Next
  BY <1>2, ConTypesEnv, ConTypesCOn, ConTypesWrpTest, ConSideSame, ConTypesSame
     DEF Next, TOE, WRp
<1> QED BY <1>1, <1>2

-----------------------------------------------------------------------------
(* The flow of the segments: the types of TAF's side, of WRp and of the TOE, *)
(* the request that WRp waits for, and the two streams of chunks.            *)

TafTypes ==
  /\ siTAF_SessId \in Seq(SessIds) /\ siTAF_DatLen \in Seq(PosNat)
  /\ Len(siTAF_SessId) = Len(siTAF_DatLen)
  /\ tafSeg \in 0..MaxSegs /\ tafLeft \in Nat

WrpTypes ==
  /\ wrp_fsmState \in {"WRP_IDLE", "WRP_RTS", "WRP_RTS_REP", "WRP_STREAM", "WRP_TXGEN",
                       "WRP_DRAIN"}
  /\ wrp_genChunk \in GenChunks /\ wrp_sendReq \in SndReq
  /\ wrp_testMode \in BOOLEAN /\ wrp_retryCnt \in 0..RetryCnt

ToeTypes ==
  /\ toeGrants \in Seq(SndReq) /\ toeGot \in Nat /\ toeNoSpace \in Nat
  /\ toeGrants = << >> => toeGot = 0

\* One request at a time is on its way to the TOE or answered by it.
RequestInv ==
  /\ wrp_fsmState # "WRP_IDLE" => wrp_sendReq.length > 0
  /\ wrp_fsmState \in {"WRP_STREAM", "WRP_DRAIN"} => ~wrp_testMode
  /\ wrp_fsmState = "WRP_TXGEN" => wrp_testMode
  /\ wrp_fsmState # "WRP_RTS_REP" => soSHL_SndReq = << >> /\ siSHL_SndRep = << >>
  /\ wrp_fsmState = "WRP_RTS_REP" =>
       \/ soSHL_SndReq = << wrp_sendReq >> /\ siSHL_SndRep = << >>
       \/ soSHL_SndReq = << >> /\ \E e \in SndReplies : siSHL_SndRep = << e >>

\* A segment of TAF is in the hands of WRp; h bytes of it are in TAF's stream.
Held == wrp_fsmState # "WRP_IDLE" /\ ~wrp_testMode
Asked == wrp_fsmState \in {"WRP_RTS", "WRP_RTS_REP"}
TafLens(h) == IF Held THEN << h >> \o siTAF_DatLen ELSE siTAF_DatLen

\* What the TOE expects of each segment it has granted, and what WRp has still
\* to write of the last one.
OwedOf(grants, got) ==
  [i \in 1..Len(grants) |-> IF i = 1 THEN grants[1].length - got ELSE grants[i].length]
Owed == OwedOf(toeGrants, toeGot)
Granted == wrp_fsmState = "WRP_RTS_REP" /\ siSHL_SndRep = << "NO_ERROR" >>
Due(h) ==
  IF wrp_fsmState = "WRP_STREAM" THEN h
  ELSE IF wrp_fsmState = "WRP_TXGEN" \/ Granted THEN wrp_sendReq.length ELSE 0

StreamsCut(h) ==
  /\ Cut(TRUE, siTAF_Data, TafLens(h), tafLeft, tafSeg)
  /\ \E seg \in Nat : Cut(FALSE, soSHL_Data, Owed, Due(h), seg)
  /\ Held /\ Asked => h = wrp_sendReq.length

CutInv == \E h \in PosNat : StreamsCut(h)

FlowInv == TafTypes /\ WrpTypes /\ ToeTypes /\ RequestInv /\ CutInv

flow == << tafVars, wrpVars, sndVars, toeGrants, toeGot, toeNoSpace >>

LEMMA FlowSame == FlowInv /\ UNCHANGED flow => FlowInv'
<1> SUFFICES ASSUME FlowInv, UNCHANGED flow PROVE FlowInv'
  OBVIOUS
<1> USE DEF flow, tafVars, wrpVars, sndVars
<1>1. TafTypes' /\ WrpTypes'
  BY DEF FlowInv, TafTypes, WrpTypes
<1>2. ToeTypes' /\ RequestInv'
  BY DEF FlowInv, ToeTypes, RequestInv
<1>3. CutInv'
  <2>1. PICK h \in PosNat : StreamsCut(h)
    BY DEF FlowInv, CutInv
  <2>2. TafLens(h)' = TafLens(h) /\ Held' = Held /\ Asked' = Asked
    BY DEF TafLens, Held, Asked
  <2>3. Owed' = Owed /\ Due(h)' = Due(h)
    BY DEF Owed, Due, Granted
  <2>4. StreamsCut(h)'
    BY <2>1, <2>2, <2>3 DEF StreamsCut
  <2> QED BY <2>4 DEF CutInv
<1> QED BY <1>1, <1>2, <1>3 DEF FlowInv

LEMMA FlowInit == Init => FlowInv
<1> SUFFICES ASSUME Init PROVE FlowInv
  OBVIOUS
<1>1. TafTypes
  BY TxDepthAssumption DEF Init, TafTypes
<1>2. WrpTypes
  <2>1. AnySess \in SessIds
    BY TxSessAssumption DEF AnySess
  <2>2. wrp_sendReq \in SndReq
    BY <2>1 DEF Init, SndReq
  <2>3. wrp_retryCnt \in 0..RetryCnt
    BY TxDepthAssumption DEF Init
  <2> QED BY <2>2, <2>3 DEF Init, WrpTypes, GenChunks
<1>3. ToeTypes
  BY DEF Init, ToeTypes
<1>4. RequestInv
  BY DEF Init, RequestInv
<1>5. CutInv
  <2>1. Owed = << >>
    BY DEF Owed, OwedOf, Init
  <2>2. Cut(TRUE, << >>, << >>, 0, 0) /\ Cut(FALSE, << >>, << >>, 0, 0)
    BY CutEmpty
  <2>3. TafLens(1) = << >> /\ Due(1) = 0 /\ ~Held
    BY DEF Init, TafLens, Held, Due, Granted
  <2>4. StreamsCut(1)
    BY <2>1, <2>2, <2>3 DEF StreamsCut, Init
  <2> QED BY <2>4 DEF CutInv, PosNat
<1> QED BY <1>1, <1>2, <1>3, <1>4, <1>5 DEF FlowInv

\* The actions of COn's side leave the flow alone.
LEMMA FlowSideSame ==
  ASSUME \/ MmioEnable
         \/ \E sock \in Socks, count \in TxCounts : RdpCommand(sock, count)
         \/ \E s \in SessIds : ToePeerCloses(s)
         \/ \E s \in SessIds, state \in OpnStates : ToeOpen(s, state)
         \/ ToeClose
         \/ COn
  PROVE  UNCHANGED flow
BY DEF flow, toeVars, ConUnchanged, MmioEnable, RdpCommand, ToePeerCloses, ToeOpen, ToeClose, COn,
       ConIdleDrain, ConIdle, ConRdRDp, ConOpnReq, ConOpnRep, ConWrWRp

\* A function on 1..n is a sequence of n elements.
LEMMA FunctionSeq ==
  ASSUME NEW S, NEW n \in Nat, NEW f \in [1..n -> S]
  PROVE  f \in Seq(S) /\ Len(f) = n
OBVIOUS

\* What the TOE expects after a grant.
LEMMA OwedGrant ==
  ASSUME NEW grants \in Seq(SndReq), NEW got \in Nat, grants = << >> => got = 0,
         NEW req \in SndReq
  PROVE  OwedOf(Append(grants, req), got) = Append(OwedOf(grants, got), req.length)
<1> DEFINE more == Append(grants, req)
           left == OwedOf(more, got)
           right == Append(OwedOf(grants, got), req.length)
<1>1. more \in Seq(SndReq) /\ Len(more) = Len(grants) + 1 /\ Len(grants) \in Nat
  OBVIOUS
<1>2. \A i \in 1..Len(more) : more[i].length \in Int
  <2>1. \A i \in 1..Len(more) : more[i] \in SndReq
    BY <1>1
  <2> QED BY <2>1 DEF SndReq
<1>3. left \in Seq(Int) /\ Len(left) = Len(grants) + 1
  <2>1. left \in [1..Len(more) -> Int]
    BY <1>1, <1>2 DEF OwedOf
  <2> QED BY <1>1, <2>1
<1>4. OwedOf(grants, got) \in Seq(Int) /\ Len(OwedOf(grants, got)) = Len(grants)
  <2>1. \A i \in 1..Len(grants) : grants[i] = more[i] /\ i \in 1..Len(more)
    BY <1>1
  <2>2. \A i \in 1..Len(grants) : grants[i].length \in Int
    BY <1>2, <2>1
  <2>3. OwedOf(grants, got) \in [1..Len(grants) -> Int]
    BY <2>2 DEF OwedOf
  <2> QED BY <1>1, <2>3
<1>5. req.length \in Int
  BY DEF SndReq
<1>6. right \in Seq(Int) /\ Len(right) = Len(grants) + 1
  BY <1>1, <1>4, <1>5
<1>7. ASSUME NEW i \in 1..(Len(grants) + 1)
      PROVE  left[i] = right[i]
  <2>1. CASE i \in 1..Len(grants)
    <3>1. right[i] = OwedOf(grants, got)[i] /\ more[i] = grants[i] /\ more[1] = grants[1]
      BY <1>1, <1>4, <2>1
    <3> QED BY <3>1, <1>1, <2>1 DEF OwedOf
  <2>2. CASE i = Len(grants) + 1
    <3>1. right[i] = req.length /\ more[i] = req
      BY <1>1, <1>4, <2>2
    <3>2. i = 1 => got = 0 /\ req.length - 0 = req.length
      BY <1>1, <1>5, <2>2
    <3> QED BY <3>1, <3>2, <1>1, <2>2 DEF OwedOf
  <2>3. i \in 1..Len(grants) \/ i = Len(grants) + 1
    BY <1>1
  <2> HIDE DEF left, right
  <2> QED BY <2>1, <2>2, <2>3
<1> QED BY <1>3, <1>6, <1>7, SeqEqual

\* What it expects after the last chunk of a segment.
LEMMA OwedTail ==
  ASSUME NEW grants \in Seq(SndReq), NEW got \in Nat, grants # << >>
  PROVE  /\ OwedOf(Tail(grants), 0) = Tail(OwedOf(grants, got))
         /\ OwedOf(grants, got) # << >>
         /\ Head(OwedOf(grants, got)) = Head(grants).length - got
<1> DEFINE rest == Tail(grants)
           all == OwedOf(grants, got)
<1>1. rest \in Seq(SndReq) /\ Len(rest) = Len(grants) - 1 /\ Len(grants) \in Nat \ {0}
  OBVIOUS
<1>2. \A i \in 1..Len(grants) : grants[i].length \in Int
  <2>1. \A i \in 1..Len(grants) : grants[i] \in SndReq
    OBVIOUS
  <2> QED BY <2>1 DEF SndReq
<1>3. all \in Seq(Int) /\ Len(all) = Len(grants)
  <2>1. all \in [1..Len(grants) -> Int]
    BY <1>2 DEF OwedOf
  <2> QED BY <1>1, <2>1
<1>4. all # << >> /\ Head(all) = Head(grants).length - got
  <2>1. 1 \in 1..Len(grants) /\ Head(grants) = grants[1]
    BY <1>1
  <2>2. all[1] = grants[1].length - got
    BY <2>1 DEF OwedOf
  <2>3. all # << >> /\ Head(all) = all[1]
    BY <1>1, <1>3
  <2> QED BY <2>1, <2>2, <2>3
<1>5. Tail(all) \in Seq(Int) /\ Len(Tail(all)) = Len(grants) - 1
  BY <1>1, <1>3, <1>4
<1>6. ASSUME NEW i \in 1..Len(rest)
      PROVE  rest[i] = grants[i + 1] /\ i + 1 \in 1..Len(grants) /\ i + 1 # 1
  BY <1>1
<1>7. OwedOf(rest, 0) \in Seq(Int) /\ Len(OwedOf(rest, 0)) = Len(grants) - 1
  <2>1. \A i \in 1..Len(rest) : rest[i].length \in Int
    BY <1>2, <1>6
  <2>2. OwedOf(rest, 0) \in [1..Len(rest) -> Int]
    BY <2>1 DEF OwedOf
  <2>3. Len(rest) \in Nat
    BY <1>1
  <2> QED BY <1>1, <2>2, <2>3, FunctionSeq
<1>8. ASSUME NEW i \in 1..(Len(grants) - 1)
      PROVE  OwedOf(rest, 0)[i] = Tail(all)[i]
  <2>1. Tail(all)[i] = all[i + 1]
    BY <1>1, <1>3, <1>4, <1>5
  <2>2. i \in 1..Len(rest)
    BY <1>1
  <2>3. rest[i] = grants[i + 1] /\ i + 1 \in 1..Len(grants) /\ i + 1 # 1
    BY <1>6, <2>2
  <2>4. all[i + 1] = grants[i + 1].length
    BY <2>3 DEF OwedOf
  <2>5. OwedOf(rest, 0)[i] = rest[i].length
    <3>1. rest[i].length \in Int
      BY <1>2, <2>3
    <3>2. OwedOf(rest, 0)[i] = IF i = 1 THEN rest[1].length - 0 ELSE rest[i].length
      BY <2>2 DEF OwedOf
    <3>3. rest[i].length - 0 = rest[i].length
      BY <3>1
    <3> QED BY <3>2, <3>3
  <2> QED BY <2>1, <2>3, <2>4, <2>5
<1>9. OwedOf(rest, 0) = Tail(all)
  BY <1>5, <1>7, <1>8, SeqEqual
<1> QED BY <1>4, <1>9

\* What it expects after n bytes that are not the last ones.
LEMMA OwedLess ==
  ASSUME NEW grants \in Seq(SndReq), NEW got \in Nat, grants # << >>, NEW n \in Nat
  PROVE  OwedOf(grants, got + n)
           = << Head(OwedOf(grants, got)) - n >> \o Tail(OwedOf(grants, got))
<1> DEFINE all == OwedOf(grants, got)
           less == OwedOf(grants, got + n)
           right == << Head(all) - n >> \o Tail(all)
<1>1. Len(grants) \in Nat \ {0}
  OBVIOUS
<1>2. \A i \in 1..Len(grants) : grants[i].length \in Int
  <2>1. \A i \in 1..Len(grants) : grants[i] \in SndReq
    OBVIOUS
  <2> QED BY <2>1 DEF SndReq
<1>3. all \in Seq(Int) /\ Len(all) = Len(grants) /\ all # << >>
  <2>1. all \in [1..Len(grants) -> Int]
    BY <1>2 DEF OwedOf
  <2> QED BY <1>1, <2>1
<1>4. less \in Seq(Int) /\ Len(less) = Len(grants)
  <2>1. less \in [1..Len(grants) -> Int]
    BY <1>2 DEF OwedOf
  <2> QED BY <1>1, <2>1
<1>5. PICK x \in Int : x = Head(all) - n
  BY <1>3
<1>6. Tail(all) \in Seq(Int) /\ Len(Tail(all)) = Len(grants) - 1
  BY <1>1, <1>3
<1>7. /\ << x >> \o Tail(all) \in Seq(Int) /\ Len(<< x >> \o Tail(all)) = Len(grants)
      /\ (<< x >> \o Tail(all))[1] = x
      /\ \A i \in 2..Len(grants) : (<< x >> \o Tail(all))[i] = all[i]
  BY <1>1, <1>3, <1>6
<1>8. ASSUME NEW i \in 1..Len(grants)
      PROVE  less[i] = (<< x >> \o Tail(all))[i]
  <2>1. CASE i = 1
    <3>1. less[1] = grants[1].length - (got + n) /\ all[1] = grants[1].length - got
      BY <2>1 DEF OwedOf
    <3>2. Head(all) = all[1] /\ grants[1].length \in Int
      BY <1>2, <1>3, <2>1
    <3> QED BY <2>1, <3>1, <3>2, <1>5, <1>7
  <2>2. CASE i # 1
    <3>1. less[i] = grants[i].length /\ all[i] = grants[i].length /\ i \in 2..Len(grants)
      BY <1>1, <2>2 DEF OwedOf
    <3> QED BY <3>1, <1>7
  <2> QED BY <2>1, <2>2
<1>9. less = << x >> \o Tail(all)
  BY <1>1, <1>4, <1>7, <1>8, SeqEqual
<1> QED BY <1>5, <1>9

-----------------------------------------------------------------------------
(* The steps of TAF.                                                        *)

LEMMA FlowTafAnnounce ==
  ASSUME FlowInv, NEW s \in TafSessIds, NEW n \in DatLens, TafAnnounce(s, n)
  PROVE  FlowInv'
<1> USE DEF wrpVars, sndVars, toeVars
<1>1. n \in PosNat /\ n \in Nat /\ s \in SessIds
  BY TxLenAssumption, TxSessAssumption DEF PosNat
<1>2. TafTypes'
  <2>1. /\ siTAF_SessId' \in Seq(SessIds) /\ siTAF_DatLen' \in Seq(PosNat)
        /\ Len(siTAF_SessId') = Len(siTAF_SessId) + 1
        /\ Len(siTAF_DatLen') = Len(siTAF_DatLen) + 1
    BY <1>1, AppendReads, QueueOps DEF TafAnnounce, FlowInv, TafTypes
  <2>2. tafSeg' \in 0..MaxSegs
    BY TxDepthAssumption DEF TafAnnounce, FlowInv, TafTypes
  <2> QED BY <1>1, <2>1, <2>2 DEF TafAnnounce, FlowInv, TafTypes
<1>3. WrpTypes' /\ ToeTypes' /\ RequestInv'
  BY DEF FlowInv, WrpTypes, ToeTypes, RequestInv, TafAnnounce
<1>4. CutInv'
  <2>1. PICK h \in PosNat : StreamsCut(h)
    BY DEF FlowInv, CutInv
  <2>2. Held' = Held /\ Asked' = Asked /\ Owed' = Owed /\ Due(h)' = Due(h)
    BY DEF Held, Asked, Owed, Due, Granted, TafAnnounce
  <2>3. TafLens(h) \in Seq(PosNat) /\ siTAF_Data \in Seq(Chunk) /\ tafSeg \in Nat
    BY <2>1, CutRead DEF StreamsCut
  <2>4. TafLens(h)' = Append(TafLens(h), n)
    <3>1. siTAF_DatLen' = Append(siTAF_DatLen, n) /\ siTAF_DatLen \in Seq(PosNat)
      BY DEF TafAnnounce, FlowInv, TafTypes
    <3>2. << h >> \o Append(siTAF_DatLen, n) = Append(<< h >> \o siTAF_DatLen, n)
      BY <1>1, <3>1, PrependAppend
    <3> QED BY <2>2, <3>1, <3>2 DEF TafLens
  <2>5. Cut(TRUE, siTAF_Data, TafLens(h), 0, tafSeg)
    BY <2>1 DEF StreamsCut, TafAnnounce
  <2>6. Cut(TRUE, siTAF_Data, Append(TafLens(h), n), n, tafSeg + 1)
    BY <1>1, <2>3, <2>5, CutNew
  <2>7. StreamsCut(h)'
    BY <2>1, <2>2, <2>4, <2>6 DEF StreamsCut, TafAnnounce
  <2> QED BY <2>7 DEF CutInv
<1> QED BY <1>2, <1>3, <1>4 DEF FlowInv

LEMMA FlowTafChunk == ASSUME FlowInv, TafChunk PROVE FlowInv'
<1> USE DEF wrpVars, sndVars, toeVars
<1> DEFINE c == [seg |-> tafSeg, data |-> "TAF", tlast |-> tafLeft <= ARW_BYTES,
                 len |-> LenOfChunk(tafLeft)]
<1>1. tafLeft \in PosNat
  BY DEF FlowInv, TafTypes, TafChunk, PosNat
<1>2. /\ c \in Chunk /\ c.len = LenOfChunk(tafLeft) /\ Fits(c, tafLeft) /\ c.seg = tafSeg
      /\ tafLeft - LenOfChunk(tafLeft) \in Nat
  <2>1. LenOfChunk(tafLeft) \in 1..ARW_BYTES /\ tafLeft - LenOfChunk(tafLeft) \in Nat
    BY <1>1 DEF LenOfChunk, ARW_BYTES, PosNat
  <2>2. tafSeg \in Nat
    BY TxDepthAssumption DEF FlowInv, TafTypes
  <2>3. c.len = LenOfChunk(tafLeft) /\ c.seg = tafSeg /\ c.tlast = (tafLeft <= ARW_BYTES)
    OBVIOUS
  <2>4. (tafLeft <= ARW_BYTES) \in BOOLEAN
    OBVIOUS
  <2>5. c \in Chunk
    BY <2>1, <2>2, <2>4 DEF Chunk
  <2> HIDE DEF c
  <2> QED BY <2>1, <2>3, <2>5 DEF Fits
<1>3. TafTypes' /\ WrpTypes' /\ ToeTypes' /\ RequestInv'
  BY <1>2 DEF FlowInv, TafTypes, WrpTypes, ToeTypes, RequestInv, TafChunk
<1>4. siTAF_Data' = Append(siTAF_Data, c) /\ tafLeft' = tafLeft - c.len /\ tafSeg' = tafSeg
  BY <1>2 DEF TafChunk
<1>5. CutInv'
  <2>1. PICK h \in PosNat : StreamsCut(h)
    BY DEF FlowInv, CutInv
  <2>2. /\ Held' = Held /\ Asked' = Asked /\ Owed' = Owed /\ Due(h)' = Due(h)
        /\ TafLens(h)' = TafLens(h)
    BY DEF Held, Asked, Owed, Due, Granted, TafLens, TafChunk
  <2>3. TafLens(h) \in Seq(PosNat) /\ siTAF_Data \in Seq(Chunk) /\ tafSeg \in Nat
    BY <2>1, CutRead DEF StreamsCut
  <2>4. Cut(TRUE, siTAF_Data, TafLens(h), tafLeft, tafSeg)
    BY <2>1 DEF StreamsCut
  <2> HIDE DEF c
  <2>5. Cut(TRUE, Append(siTAF_Data, c), TafLens(h), tafLeft - c.len, tafSeg)
    BY <1>1, <1>2, <2>3, <2>4, CutWrite
  <2>6. StreamsCut(h)'
    BY <2>1, <2>2, <2>5, <1>4 DEF StreamsCut, TafChunk
  <2> QED BY <2>6 DEF CutInv
<1> QED BY <1>3, <1>5 DEF FlowInv

-----------------------------------------------------------------------------
(* The steps of the TOE.                                                    *)

LEMMA FlowToeSndRep ==
  ASSUME FlowInv, NEW error \in SndReplies, ToeSndRep(error) PROVE FlowInv'
<1> USE DEF tafVars, wrpVars
<1>1. /\ wrp_fsmState = "WRP_RTS_REP" /\ soSHL_SndReq = << wrp_sendReq >>
      /\ siSHL_SndRep = << >> /\ wrp_sendReq \in SndReq /\ wrp_sendReq.length \in PosNat
  <2>1. wrp_sendReq \in SndReq /\ wrp_sendReq.length \in Nat
    BY DEF FlowInv, WrpTypes, SndReq
  <2> QED BY <2>1 DEF FlowInv, RequestInv, ToeSndRep, PosNat
<1>2. Head(soSHL_SndReq) = wrp_sendReq /\ soSHL_SndReq' = << >> /\ siSHL_SndRep' = << error >>
  BY <1>1 DEF ToeSndRep, Dequeue
<1>3. /\ toeGrants' = IF error = "NO_ERROR" THEN Append(toeGrants, wrp_sendReq) ELSE toeGrants
      /\ toeGot' = toeGot
  BY <1>2 DEF ToeSndRep
<1>4. TafTypes' /\ WrpTypes'
  BY DEF FlowInv, TafTypes, WrpTypes, ToeSndRep
<1>5. ToeTypes'
  <2>1. toeGrants' \in Seq(SndReq) /\ (toeGrants' = << >> => toeGrants = << >>)
    BY <1>1, <1>3, QueueOps, AppendReads DEF FlowInv, ToeTypes
  <2> QED BY <1>3, <2>1 DEF FlowInv, ToeTypes, ToeSndRep
<1>6. RequestInv'
  BY <1>1, <1>2 DEF FlowInv, RequestInv, ToeSndRep
<1>7. CutInv'
  <2>1. PICK h \in PosNat : StreamsCut(h)
    BY DEF FlowInv, CutInv
  <2>2. /\ Held' = Held /\ Asked' = Asked /\ TafLens(h)' = TafLens(h)
        /\ Due(h) = 0
    BY <1>1 DEF Held, Asked, TafLens, Due, Granted, ToeSndRep
  <2>3. PICK seg \in Nat : Cut(FALSE, soSHL_Data, Owed, 0, seg)
    BY <2>1, <2>2 DEF StreamsCut
  <2>4. CASE error = "NO_ERROR"
    <3>1. Due(h)' = wrp_sendReq.length
      BY <1>1, <1>2, <2>4 DEF Due, Granted, ToeSndRep
    <3>2. Owed' = Append(Owed, wrp_sendReq.length)
      BY <1>1, <1>3, <2>4, OwedGrant DEF Owed, FlowInv, ToeTypes
    <3>3. soSHL_Data \in Seq(Chunk) /\ Owed \in Seq(PosNat)
      BY <2>3, CutRead
    <3>4. Cut(FALSE, soSHL_Data, Append(Owed, wrp_sendReq.length), wrp_sendReq.length, seg + 1)
      BY <1>1, <2>3, <3>3, CutNew
    <3>5. seg + 1 \in Nat /\ soSHL_Data' = soSHL_Data
      BY DEF ToeSndRep
    <3>6. StreamsCut(h)'
      BY <2>1, <2>2, <3>1, <3>2, <3>4, <3>5 DEF StreamsCut, ToeSndRep
    <3> QED BY <3>6 DEF CutInv
  <2>5. CASE error # "NO_ERROR"
    <3>1. Due(h)' = 0
      BY <1>1, <1>2, <2>5 DEF Due, Granted, ToeSndRep
    <3>2. Owed' = Owed
      BY <1>3, <2>5 DEF Owed
    <3>3. StreamsCut(h)'
      BY <2>1, <2>2, <2>3, <3>1, <3>2 DEF StreamsCut, ToeSndRep
    <3> QED BY <3>3 DEF CutInv
  <2> QED BY <2>4, <2>5
<1> QED BY <1>4, <1>5, <1>6, <1>7 DEF FlowInv

LEMMA FlowToeData == ASSUME FlowInv, ToeData PROVE FlowInv'
<1> USE DEF tafVars, wrpVars
<1>1. PICK h \in PosNat : StreamsCut(h)
  BY DEF FlowInv, CutInv
<1>2. PICK seg \in Nat : Cut(FALSE, soSHL_Data, Owed, Due(h), seg)
  BY <1>1 DEF StreamsCut
<1>3. /\ soSHL_Data \in Seq(Chunk) /\ Owed \in Seq(PosNat) /\ Owed # << >>
      /\ Fits(Head(soSHL_Data), Head(Owed))
      /\ TailIsCut(FALSE, soSHL_Data, Owed, Due(h), seg)
  BY <1>2, CutRead DEF Announced, HeadFits, ToeData
<1>4. toeGrants # << >> /\ toeGrants \in Seq(SndReq) /\ toeGot \in Nat
  <2>1. toeGrants = << >> => Owed = << >>
    BY DEF Owed, OwedOf
  <2> QED BY <1>3, <2>1 DEF FlowInv, ToeTypes
<1>5. /\ Held' = Held /\ Asked' = Asked /\ Due(h)' = Due(h) /\ TafLens(h)' = TafLens(h)
  BY DEF Held, Asked, Due, Granted, TafLens, ToeData
<1>6. TafTypes' /\ WrpTypes' /\ RequestInv'
  BY DEF FlowInv, TafTypes, WrpTypes, RequestInv, ToeData
<1>7. CASE Head(soSHL_Data).tlast
  <2>1. toeGrants' = Tail(toeGrants) /\ toeGot' = 0 /\ soSHL_Data' = Tail(soSHL_Data)
    BY <1>7 DEF ToeData, Dequeue
  <2>2. ToeTypes'
    BY <1>4, <2>1, QueueOps DEF FlowInv, ToeTypes, ToeData
  <2>3. Owed' = Tail(Owed)
    BY <1>4, <2>1, OwedTail DEF Owed
  <2>4. Cut(FALSE, Tail(soSHL_Data), Tail(Owed), Due(h), seg)
    BY <1>3, <1>7 DEF TailIsCut, ToeData
  <2>5. StreamsCut(h)'
    BY <1>1, <1>5, <2>1, <2>3, <2>4 DEF StreamsCut, ToeData
  <2> QED BY <1>6, <2>2, <2>5 DEF FlowInv, CutInv
<1>8. CASE ~Head(soSHL_Data).tlast
  <2>1. /\ toeGrants' = toeGrants /\ toeGot' = toeGot + Head(soSHL_Data).len
        /\ soSHL_Data' = Tail(soSHL_Data)
    BY <1>8 DEF ToeData, Dequeue
  <2>2. Head(Owed) \in PosNat
    BY <1>3, QueueOps
  <2>3. Head(soSHL_Data).len = ARW_BYTES /\ ARW_BYTES \in Nat
    BY <1>3, <1>8, <2>2 DEF Fits, LenOfChunk, PosNat, ARW_BYTES
  <2>4. ToeTypes'
    BY <1>4, <2>1, <2>3 DEF FlowInv, ToeTypes, ToeData
  <2>5. Owed' = << Head(Owed) - ARW_BYTES >> \o Tail(Owed)
    BY <1>4, <2>1, <2>3, OwedLess DEF Owed
  <2>6. Cut(FALSE, Tail(soSHL_Data), << Head(Owed) - ARW_BYTES >> \o Tail(Owed), Due(h), seg)
    BY <1>3, <1>8 DEF TailIsCut, ToeData
  <2>7. StreamsCut(h)'
    BY <1>1, <1>5, <2>1, <2>5, <2>6 DEF StreamsCut, ToeData
  <2> QED BY <1>6, <2>4, <2>7 DEF FlowInv, CutInv
<1> QED BY <1>7, <1>8

-----------------------------------------------------------------------------
(* The steps of WRp.                                                        *)

LEMMA FlowWrpIdleTest == ASSUME ConTypes, FlowInv, WrpIdleTest PROVE FlowInv'
<1> USE DEF sndVars, WrpUnchanged, toeVars
<1> DEFINE s == Head(ssCOnToWRp_TxSessId)
           n == Head(ssCOnToWRp_TxBytesReq)
<1>1. s \in SessIds /\ n \in Nat
  BY QueueOps DEF ConTypes, WrpIdleTest, TestWaits
<1>2. wrp_sendReq' = [sessId |-> s, length |-> n] /\ wrp_sendReq' \in SndReq
      /\ wrp_sendReq'.length = n
  BY <1>1 DEF WrpIdleTest, WrpStart, SndReq
<1>3. /\ n # 0 => wrp_fsmState' = "WRP_RTS" /\ wrp_testMode' = TRUE /\ wrp_retryCnt' = RetryCnt
      /\ n = 0 => /\ wrp_fsmState' = "WRP_IDLE" /\ wrp_testMode' = wrp_testMode
                  /\ wrp_retryCnt' = wrp_retryCnt
      /\ wrp_fsmState = "WRP_IDLE"
  BY DEF WrpIdleTest, WrpStart
<1> HIDE DEF s, n
<1>4. TafTypes' /\ ToeTypes'
  BY DEF FlowInv, TafTypes, ToeTypes, WrpIdleTest
<1>5. WrpTypes'
  <2>1. RetryCnt \in 0..RetryCnt
    BY TxDepthAssumption
  <2> QED BY <2>1, <1>1, <1>2, <1>3 DEF FlowInv, WrpTypes, WrpIdleTest
<1>6. soSHL_SndReq' = << >> /\ siSHL_SndRep' = << >>
  BY <1>3 DEF FlowInv, RequestInv, WrpIdleTest
<1>7. RequestInv'
  BY <1>1, <1>2, <1>3, <1>6 DEF RequestInv
<1>8. CutInv'
  <2>1. PICK h \in PosNat : StreamsCut(h)
    BY DEF FlowInv, CutInv
  <2>2. ~Held /\ ~Held'
    BY <1>3 DEF Held
  <2>3. TafLens(h)' = TafLens(h) /\ Due(h) = 0 /\ Due(h)' = 0 /\ Owed' = Owed
    BY <1>3, <2>2 DEF TafLens, Due, Granted, Owed, WrpIdleTest
  <2>4. StreamsCut(h)'
    BY <2>1, <2>2, <2>3 DEF StreamsCut, WrpIdleTest
  <2> QED BY <2>4 DEF CutInv
<1> QED BY <1>4, <1>5, <1>7, <1>8 DEF FlowInv

LEMMA FlowWrpIdleTaf == ASSUME FlowInv, WrpIdleTaf PROVE FlowInv'
<1> USE DEF sndVars, WrpUnchanged, toeVars
<1>0. PICK s, n : s = Head(siTAF_SessId) /\ n = Head(siTAF_DatLen)
  OBVIOUS
<1>1. s \in SessIds /\ n \in PosNat /\ n \in Nat /\ n # 0
  <2>1. s \in SessIds /\ n \in PosNat
    BY <1>0, QueueOps DEF FlowInv, TafTypes, WrpIdleTaf
  <2> QED BY <2>1 DEF PosNat
<1>2. wrp_sendReq' = [sessId |-> s, length |-> n] /\ wrp_sendReq' \in SndReq
      /\ wrp_sendReq'.length = n
  BY <1>0, <1>1 DEF WrpIdleTaf, WrpStart, SndReq
<1>3. /\ wrp_fsmState' = "WRP_RTS" /\ wrp_testMode' = FALSE /\ wrp_retryCnt' = RetryCnt
      /\ wrp_fsmState = "WRP_IDLE"
  BY <1>0, <1>1 DEF WrpIdleTaf, WrpStart
<1>4. /\ siTAF_DatLen \in Seq(PosNat) /\ siTAF_DatLen # << >>
      /\ siTAF_DatLen' = Tail(siTAF_DatLen) /\ siTAF_SessId' = Tail(siTAF_SessId)
      /\ siTAF_SessId # << >>
  BY DEF FlowInv, TafTypes, WrpIdleTaf, Dequeue
<1>5. << n >> \o Tail(siTAF_DatLen) = siTAF_DatLen
  <2>1. Append(<< >>, n) = << n >> /\ << >> \in Seq(PosNat) /\ << >> \o siTAF_DatLen = siTAF_DatLen
    BY <1>1, <1>4
  <2> QED BY <2>1, <1>0, <1>4, ShiftHead
<1>6. TafTypes'
  BY <1>4, QueueOps DEF FlowInv, TafTypes, WrpIdleTaf
<1>7. ToeTypes'
  BY DEF FlowInv, ToeTypes, WrpIdleTaf
<1>8. WrpTypes'
  <2>1. RetryCnt \in 0..RetryCnt
    BY TxDepthAssumption
  <2> QED BY <2>1, <1>1, <1>2, <1>3 DEF FlowInv, WrpTypes, WrpIdleTaf
<1>9. RequestInv'
  BY <1>1, <1>2, <1>3 DEF FlowInv, RequestInv, WrpIdleTaf
<1>10. CutInv'
  <2>1. PICK h \in PosNat : StreamsCut(h)
    BY DEF FlowInv, CutInv
  <2>2. ~Held /\ Held'
    BY <1>3 DEF Held
  <2>3. TafLens(n)' = TafLens(h)
    BY <1>4, <1>5, <2>2 DEF TafLens
  <2>4. Due(h) = 0 /\ Due(n)' = 0 /\ Owed' = Owed
    BY <1>3 DEF Due, Granted, Owed, WrpIdleTaf
  <2>5. StreamsCut(n)'
    BY <2>1, <2>3, <2>4, <1>2 DEF StreamsCut, WrpIdleTaf
  <2> QED BY <2>5, <1>1 DEF CutInv
<1> QED BY <1>6, <1>7, <1>8, <1>9, <1>10 DEF FlowInv

LEMMA FlowWrpRts == ASSUME FlowInv, WrpRts PROVE FlowInv'
<1> USE DEF WrpUnchanged, toeVars
<1>1. TafTypes' /\ ToeTypes' /\ WrpTypes'
  BY DEF FlowInv, TafTypes, ToeTypes, WrpTypes, WrpRts
<1>2. soSHL_SndReq' = << wrp_sendReq >> /\ siSHL_SndRep' = << >>
  BY DEF FlowInv, RequestInv, WrpRts
<1>3. RequestInv'
  BY <1>2 DEF FlowInv, RequestInv, WrpRts
<1>4. CutInv'
  <2>1. PICK h \in PosNat : StreamsCut(h)
    BY DEF FlowInv, CutInv
  <2>2. /\ TafLens(h)' = TafLens(h) /\ Due(h)' = Due(h) /\ Owed' = Owed
        /\ (Held /\ Asked)' => Held /\ Asked
    BY <1>2 DEF TafLens, Held, Asked, Due, Granted, Owed, WrpRts
  <2>3. StreamsCut(h)'
    BY <2>1, <2>2 DEF StreamsCut, WrpRts
  <2> QED BY <2>3 DEF CutInv
<1> QED BY <1>1, <1>3, <1>4 DEF FlowInv

LEMMA FlowWrpRtsRep == ASSUME FlowInv, WrpRtsRep PROVE FlowInv'
<1> USE DEF WrpUnchanged, toeVars
<1>1. PICK error \in {"NO_ERROR", "NO_SPACE", "NO_CONNECTION"} : siSHL_SndRep = << error >>
  BY TxReplyAssumption DEF FlowInv, RequestInv, WrpRtsRep, SndReplies
<1>2. /\ Head(siSHL_SndRep) = error /\ siSHL_SndRep' = << >> /\ soSHL_SndReq' = << >>
      /\ wrp_fsmState = "WRP_RTS_REP" /\ wrp_sendReq' = wrp_sendReq
      /\ wrp_testMode' = wrp_testMode
  BY <1>1 DEF FlowInv, RequestInv, WrpRtsRep, Dequeue
<1>3. wrp_fsmState' = AfterSndRep(error)
  BY <1>2 DEF WrpRtsRep
<1>4. /\ error = "NO_ERROR" => wrp_fsmState' = IF wrp_testMode THEN "WRP_TXGEN" ELSE "WRP_STREAM"
      /\ error # "NO_ERROR" =>
           \/ wrp_fsmState' = "WRP_RTS"
           \/ wrp_fsmState' = IF wrp_testMode THEN "WRP_IDLE" ELSE "WRP_DRAIN"
  BY <1>3 DEF AfterSndRep
<1>5. TafTypes' /\ ToeTypes'
  BY DEF FlowInv, TafTypes, ToeTypes, WrpRtsRep
<1>6. WrpTypes'
  <2>1. wrp_genChunk' \in GenChunks
    BY <1>2 DEF FlowInv, WrpTypes, WrpRtsRep, GenChunkAfter, GenChunks
  <2>2. wrp_retryCnt' \in 0..RetryCnt
    BY TxDepthAssumption DEF FlowInv, WrpTypes, WrpRtsRep, MayRetry
  <2> QED BY <1>2, <1>4, <2>1, <2>2 DEF FlowInv, WrpTypes
<1>7. RequestInv'
  BY <1>2, <1>4 DEF FlowInv, WrpTypes, RequestInv
<1>8. CutInv'
  <2>1. PICK h \in PosNat : StreamsCut(h)
    BY DEF FlowInv, CutInv
  <2>2. wrp_testMode \in BOOLEAN
    BY DEF FlowInv, WrpTypes
  <2>3. Held' => Held
    BY <1>2 DEF Held
  <2>4. TafLens(h)' = TafLens(h) /\ Owed' = Owed
    BY <1>2, <1>4 DEF TafLens, Held, Owed, WrpRtsRep
  <2>5. Held => h = wrp_sendReq.length
    BY <2>1, <1>2 DEF StreamsCut, Asked
  <2>6. Granted <=> error = "NO_ERROR"
    BY <1>1, <1>2 DEF Granted
  <2>7. Due(h)' = Due(h)
    <3>1. CASE error = "NO_ERROR"
      <4>1. Due(h) = wrp_sendReq.length
        BY <2>6, <3>1, <1>2 DEF Due
      <4>2. Due(h)' = IF wrp_testMode THEN wrp_sendReq.length ELSE h
        BY <1>2, <1>4, <3>1, <2>2 DEF Due
      <4>3. ~wrp_testMode => Held
        BY <1>2 DEF Held
      <4> QED BY <4>1, <4>2, <4>3, <2>2, <2>5
    <3>2. CASE error # "NO_ERROR"
      <4>1. Due(h) = 0
        BY <2>6, <3>2, <1>2 DEF Due
      <4>2. Due(h)' = 0
        BY <1>2, <1>4, <3>2, <2>2 DEF Due, Granted
      <4> QED BY <4>1, <4>2
    <3> QED BY <3>1, <3>2
  <2>8. StreamsCut(h)'
    BY <2>1, <2>3, <2>4, <2>5, <2>7, <1>2 DEF StreamsCut, WrpRtsRep
  <2> QED BY <2>8 DEF CutInv
<1> QED BY <1>5, <1>6, <1>7, <1>8 DEF FlowInv

\* A chunk leaves TAF's stream: what that does to the segment that WRp holds.
LEMMA TafChunkTaken ==
  ASSUME FlowInv, wrp_fsmState \in {"WRP_STREAM", "WRP_DRAIN"}, WrpTakesChunk,
         NEW h \in PosNat, StreamsCut(h)
  PROVE  /\ siTAF_Data # << >> /\ Head(siTAF_Data) \in Chunk /\ Fits(Head(siTAF_Data), h)
         /\ Head(siTAF_Data).tlast =>
              /\ wrp_fsmState' = "WRP_IDLE" /\ h - Head(siTAF_Data).len = 0
              /\ Cut(TRUE, siTAF_Data', TafLens(h)', tafLeft', tafSeg')
         /\ ~Head(siTAF_Data).tlast =>
              /\ wrp_fsmState' = wrp_fsmState /\ h - ARW_BYTES \in PosNat
              /\ Head(siTAF_Data).len = ARW_BYTES
              /\ Cut(TRUE, siTAF_Data', TafLens(h - ARW_BYTES)', tafLeft', tafSeg')
<1> USE DEF WrpUnchanged
<1>1. /\ Held /\ wrp_testMode' = wrp_testMode /\ siTAF_DatLen' = siTAF_DatLen
      /\ tafLeft' = tafLeft /\ tafSeg' = tafSeg /\ siTAF_Data' = Tail(siTAF_Data)
      /\ siTAF_Data # << >>
  BY DEF Held, FlowInv, RequestInv, WrpTakesChunk, Dequeue
<1>2. /\ TafLens(h) = << h >> \o siTAF_DatLen
      /\ Head(TafLens(h)) = h /\ Tail(TafLens(h)) = siTAF_DatLen
  <2>1. TafLens(h) = << h >> \o siTAF_DatLen
    BY <1>1 DEF TafLens
  <2>2. /\ Head(<< h >> \o siTAF_DatLen) = Head(<< h >>)
        /\ Tail(<< h >> \o siTAF_DatLen) = Tail(<< h >>) \o siTAF_DatLen
    <3>1. << h >> \in Seq(PosNat) /\ << h >> # << >> /\ siTAF_DatLen \in Seq(PosNat)
      BY DEF FlowInv, TafTypes
    <3> QED BY <3>1, HeadTailConcat
  <2>3. Head(<< h >>) = h /\ Tail(<< h >>) \o siTAF_DatLen = siTAF_DatLen
    BY DEF FlowInv, TafTypes
  <2> QED BY <2>1, <2>2, <2>3
<1>3. /\ siTAF_Data \in Seq(Chunk) /\ Fits(Head(siTAF_Data), h)
      /\ TailIsCut(TRUE, siTAF_Data, TafLens(h), tafLeft, tafSeg)
  <2>1. Cut(TRUE, siTAF_Data, TafLens(h), tafLeft, tafSeg)
    BY DEF StreamsCut
  <2>2. /\ siTAF_Data \in Seq(Chunk) /\ HeadFits(TRUE, siTAF_Data, TafLens(h), tafSeg)
        /\ TailIsCut(TRUE, siTAF_Data, TafLens(h), tafLeft, tafSeg)
    BY <2>1, CutRead
  <2> QED BY <2>2, <1>1, <1>2 DEF HeadFits
<1>4. Head(siTAF_Data) \in Chunk
  BY <1>1, <1>3, QueueOps
<1>5. ASSUME Head(siTAF_Data).tlast
      PROVE  /\ wrp_fsmState' = "WRP_IDLE" /\ h - Head(siTAF_Data).len = 0
             /\ Cut(TRUE, siTAF_Data', TafLens(h)', tafLeft', tafSeg')
  <2>1. wrp_fsmState' = "WRP_IDLE"
    BY <1>5 DEF WrpTakesChunk
  <2>2. h - Head(siTAF_Data).len = 0
    BY <1>3, <1>5 DEF Fits, LenOfChunk, PosNat, ARW_BYTES
  <2>3. TafLens(h)' = siTAF_DatLen
    BY <2>1, <1>1 DEF TafLens, Held
  <2>4. Cut(TRUE, Tail(siTAF_Data), siTAF_DatLen, tafLeft, tafSeg)
    BY <1>1, <1>2, <1>3, <1>5 DEF TailIsCut
  <2> QED BY <2>1, <2>2, <2>3, <2>4, <1>1
<1>6. ASSUME ~Head(siTAF_Data).tlast
      PROVE  /\ wrp_fsmState' = wrp_fsmState /\ h - ARW_BYTES \in PosNat
             /\ Head(siTAF_Data).len = ARW_BYTES
             /\ Cut(TRUE, siTAF_Data', TafLens(h - ARW_BYTES)', tafLeft', tafSeg')
  <2>1. wrp_fsmState' = wrp_fsmState
    BY <1>6 DEF WrpTakesChunk
  <2>2. Head(siTAF_Data).len = ARW_BYTES
    BY <1>3, <1>6 DEF Fits, LenOfChunk, PosNat, ARW_BYTES
  <2>3. /\ h - ARW_BYTES \in PosNat
        /\ Cut(TRUE, Tail(siTAF_Data), << h - ARW_BYTES >> \o siTAF_DatLen, tafLeft, tafSeg)
    BY <1>1, <1>2, <1>3, <1>6 DEF TailIsCut
  <2>4. TafLens(h - ARW_BYTES)' = << h - ARW_BYTES >> \o siTAF_DatLen
    BY <2>1, <1>1 DEF TafLens, Held
  <2> QED BY <2>1, <2>2, <2>3, <2>4, <1>1
<1> QED BY <1>1, <1>3, <1>4, <1>5, <1>6

\* The types after WRp has taken or generated a chunk.
LEMMA FlowTypesData ==
  ASSUME FlowInv, WrpStream \/ WrpDrain
  PROVE  TafTypes' /\ WrpTypes' /\ ToeTypes' /\ RequestInv'
<1> USE DEF WrpUnchanged, WrpTakesChunk, toeVars
<1>1. CASE WrpStream
  BY <1>1 DEF FlowInv, TafTypes, WrpTypes, ToeTypes, RequestInv, WrpStream
<1>2. CASE WrpDrain
  BY <1>2 DEF FlowInv, TafTypes, WrpTypes, ToeTypes, RequestInv, WrpDrain
<1> QED BY <1>1, <1>2

LEMMA FlowWrpDrain == ASSUME FlowInv, WrpDrain PROVE FlowInv'
<1>1. PICK h \in PosNat : StreamsCut(h)
  BY DEF FlowInv, CutInv
<1>2. wrp_fsmState = "WRP_DRAIN" /\ WrpTakesChunk /\ soSHL_Data' = soSHL_Data /\ Owed' = Owed
  BY DEF WrpDrain, WrpTakesChunk, WrpUnchanged, toeVars, Owed
<1>3. PICK seg \in Nat : Cut(FALSE, soSHL_Data, Owed, 0, seg)
  <2>1. Due(h) = 0
    BY <1>2 DEF Due, Granted
  <2> QED BY <1>1, <2>1 DEF StreamsCut
<1>4. CASE Head(siTAF_Data).tlast
  <2>1. /\ wrp_fsmState' = "WRP_IDLE"
        /\ Cut(TRUE, siTAF_Data', TafLens(h)', tafLeft', tafSeg')
    BY <1>1, <1>2, <1>4, TafChunkTaken
  <2>2. Due(h)' = 0 /\ ~Held'
    BY <2>1 DEF Due, Granted, Held
  <2>3. StreamsCut(h)'
    BY <2>1, <2>2, <1>2, <1>3 DEF StreamsCut
  <2> QED BY <2>3, FlowTypesData DEF FlowInv, CutInv
<1>5. CASE ~Head(siTAF_Data).tlast
  <2>1. PICK r \in PosNat :
          /\ r = h - ARW_BYTES /\ wrp_fsmState' = wrp_fsmState
          /\ Cut(TRUE, siTAF_Data', TafLens(r)', tafLeft', tafSeg')
    BY <1>1, <1>2, <1>5, TafChunkTaken
  <2>2. Due(r)' = 0 /\ ~Asked'
    BY <2>1, <1>2 DEF Due, Granted, Asked
  <2>3. StreamsCut(r)'
    BY <2>1, <2>2, <1>2, <1>3 DEF StreamsCut
  <2> QED BY <2>3, FlowTypesData DEF FlowInv, CutInv
<1> QED BY <1>4, <1>5

LEMMA FlowWrpStream == ASSUME FlowInv, WrpStream PROVE FlowInv'
<1>1. PICK h \in PosNat : StreamsCut(h)
  BY DEF FlowInv, CutInv
<1>2. /\ wrp_fsmState = "WRP_STREAM" /\ WrpTakesChunk /\ Owed' = Owed
      /\ soSHL_Data' = Append(soSHL_Data, Head(siTAF_Data))
  BY DEF WrpStream, WrpTakesChunk, WrpUnchanged, toeVars, Owed
<1>3. Head(siTAF_Data) \in Chunk /\ Fits(Head(siTAF_Data), h)
  BY <1>1, <1>2, TafChunkTaken
<1>4. PICK seg \in Nat : Cut(FALSE, soSHL_Data, Owed, h, seg)
  <2>1. Due(h) = h
    BY <1>2 DEF Due
  <2> QED BY <1>1, <2>1 DEF StreamsCut
<1>5. Cut(FALSE, soSHL_Data', Owed', h - Head(siTAF_Data).len, seg)
  <2>1. soSHL_Data \in Seq(Chunk) /\ Owed \in Seq(PosNat)
    BY <1>4, CutRead
  <2> QED BY <2>1, <1>2, <1>3, <1>4, CutWrite
<1>6. CASE Head(siTAF_Data).tlast
  <2>1. /\ wrp_fsmState' = "WRP_IDLE" /\ h - Head(siTAF_Data).len = 0
        /\ Cut(TRUE, siTAF_Data', TafLens(h)', tafLeft', tafSeg')
    BY <1>1, <1>2, <1>6, TafChunkTaken
  <2>2. Due(h)' = 0 /\ ~Held'
    BY <2>1 DEF Due, Granted, Held
  <2>3. StreamsCut(h)'
    BY <2>1, <2>2, <1>5 DEF StreamsCut
  <2> QED BY <2>3, FlowTypesData DEF FlowInv, CutInv
<1>7. CASE ~Head(siTAF_Data).tlast
  <2>1. PICK r \in PosNat :
          /\ r = h - ARW_BYTES /\ wrp_fsmState' = wrp_fsmState
          /\ r = h - Head(siTAF_Data).len
          /\ Cut(TRUE, siTAF_Data', TafLens(r)', tafLeft', tafSeg')
    BY <1>1, <1>2, <1>7, TafChunkTaken
  <2>2. Due(r)' = r /\ ~Asked'
    BY <2>1, <1>2 DEF Due, Asked
  <2>3. StreamsCut(r)'
    BY <2>1, <2>2, <1>5 DEF StreamsCut
  <2> QED BY <2>3, FlowTypesData DEF FlowInv, CutInv
<1> QED BY <1>6, <1>7

LEMMA FlowWrpTxGen == ASSUME FlowInv, WrpTxGen PROVE FlowInv'
<1> USE DEF WrpUnchanged, toeVars
<1>1. PICK n \in PosNat : n = wrp_sendReq.length /\ n \in Nat
  <2>1. wrp_sendReq.length \in Nat /\ wrp_sendReq.length > 0
    BY DEF FlowInv, WrpTypes, SndReq, RequestInv, WrpTxGen
  <2> QED BY <2>1 DEF PosNat
<1>2. PICK c : /\ c = [seg |-> 0, data |-> wrp_genChunk, tlast |-> n <= ARW_BYTES,
                       len |-> LenOfChunk(n)]
               /\ soSHL_Data' = Append(soSHL_Data, c)
  BY <1>1 DEF WrpTxGen, IsLastChunk
<1>3. /\ wrp_fsmState = "WRP_TXGEN" /\ wrp_testMode /\ ~Held /\ ~Held'
      /\ wrp_testMode' = wrp_testMode /\ wrp_fsmState' \in {"WRP_TXGEN", "WRP_IDLE"}
  BY DEF FlowInv, RequestInv, WrpTxGen, Held
<1>4. /\ n <= ARW_BYTES => wrp_fsmState' = "WRP_IDLE" /\ wrp_sendReq' = wrp_sendReq
      /\ ~(n <= ARW_BYTES) =>
           /\ wrp_fsmState' = "WRP_TXGEN"
           /\ wrp_sendReq' = [wrp_sendReq EXCEPT !.length = @ - ARW_BYTES]
  BY <1>1 DEF WrpTxGen, IsLastChunk
<1>5. c \in Chunk /\ Fits(c, n)
  <2>1. LenOfChunk(n) \in 1..ARW_BYTES /\ (n <= ARW_BYTES) \in BOOLEAN
    BY <1>1 DEF LenOfChunk, ARW_BYTES, PosNat
  <2>2. wrp_genChunk \in GenChunks
    BY DEF FlowInv, WrpTypes
  <2>3. c \in Chunk
    BY <1>2, <2>1, <2>2 DEF Chunk
  <2>4. c.len = LenOfChunk(n) /\ c.tlast = (n <= ARW_BYTES)
    BY <1>2
  <2> QED BY <2>3, <2>4 DEF Fits
<1>6. /\ wrp_sendReq' \in SndReq
      /\ ~(n <= ARW_BYTES) => wrp_sendReq'.length = n - ARW_BYTES /\ n - ARW_BYTES \in PosNat
  BY <1>1, <1>4 DEF FlowInv, WrpTypes, SndReq, PosNat, ARW_BYTES
<1>7. TafTypes' /\ ToeTypes'
  BY DEF FlowInv, TafTypes, ToeTypes, WrpTxGen
<1>8. WrpTypes'
  BY <1>3, <1>6 DEF FlowInv, WrpTypes, WrpTxGen, GenChunks
<1>9. RequestInv'
  <2>1. soSHL_SndReq' = << >> /\ siSHL_SndRep' = << >>
    BY <1>3 DEF FlowInv, RequestInv, WrpTxGen
  <2>2. wrp_fsmState' # "WRP_IDLE" => wrp_sendReq'.length > 0
    BY <1>4, <1>6 DEF PosNat
  <2> QED BY <1>3, <2>1, <2>2 DEF RequestInv
<1>10. CutInv'
  <2>1. PICK h \in PosNat : StreamsCut(h)
    BY DEF FlowInv, CutInv
  <2>2. Due(h) = n /\ TafLens(h)' = TafLens(h) /\ Owed' = Owed
    BY <1>1, <1>3 DEF Due, TafLens, Owed, WrpTxGen
  <2>3. PICK seg \in Nat : Cut(FALSE, soSHL_Data, Owed, n, seg)
    BY <2>1, <2>2 DEF StreamsCut
  <2>4. Cut(FALSE, Append(soSHL_Data, c), Owed, n - c.len, seg)
    <3>1. soSHL_Data \in Seq(Chunk) /\ Owed \in Seq(PosNat)
      BY <2>3, CutRead
    <3> QED BY <3>1, <2>3, <1>5, CutWrite
  <2>5. Due(h)' = n - c.len
    <3>1. CASE n <= ARW_BYTES
      <4>1. Due(h)' = 0
        BY <3>1, <1>4 DEF Due, Granted
      <4>2. n - c.len = 0
        BY <3>1, <1>1, <1>5 DEF Fits, LenOfChunk, ARW_BYTES
      <4> QED BY <4>1, <4>2
    <3>2. CASE ~(n <= ARW_BYTES)
      <4>1. c.len = ARW_BYTES
        BY <3>2, <1>1, <1>5 DEF Fits, LenOfChunk, ARW_BYTES
      <4>2. Due(h)' = wrp_sendReq'.length
        BY <3>2, <1>4 DEF Due
      <4> QED BY <3>2, <4>1, <4>2, <1>6
    <3> QED BY <3>1, <3>2
  <2>6. StreamsCut(h)'
    BY <2>1, <2>2, <2>4, <2>5, <1>2, <1>3 DEF StreamsCut, WrpTxGen
  <2> QED BY <2>6 DEF CutInv
<1> QED BY <1>7, <1>8, <1>9, <1>10 DEF FlowInv

-----------------------------------------------------------------------------
LEMMA FlowNext == ASSUME ConTypes, FlowInv, [Next]_vars PROVE FlowInv'
<1>1. CASE UNCHANGED vars
  BY <1>1, FlowSame DEF vars, flow, toeVars
<1>2. ASSUME NEW s \in TafSessIds, NEW n \in DatLens, TafAnnounce(s, n)
      PROVE  FlowInv'
  BY <1>2, FlowTafAnnounce
<1>3. ASSUME NEW error \in SndReplies, ToeSndRep(error)
      PROVE  FlowInv'
  BY <1>3, FlowToeSndRep
<1>4. CASE TafChunk \/ ToeData
  BY <1>4, FlowTafChunk, FlowToeData
<1>5. CASE WRp
  BY <1>5, FlowWrpIdleTest, FlowWrpIdleTaf, FlowWrpRts, FlowWrpRtsRep, FlowWrpStream,
     FlowWrpDrain, FlowWrpTxGen DEF WRp
<1>6. CASE \/ MmioEnable
           \/ \E sock \in Socks, count \in TxCounts : RdpCommand(sock, count)
           \/ \E s \in SessIds : ToePeerCloses(s)
           \/ \E s \in SessIds, state \in OpnStates : ToeOpen(s, state)
           \/ ToeClose
           \/ COn
  BY <1>6, FlowSideSame, FlowSame
<1> QED BY <1>1, <1>2, <1>3, <1>4, <1>5, <1>6 DEF Next, TOE

\* The flow invariant holds in every behaviour.
LEMMA FlowHolds == Spec => [](ConTypes /\ FlowInv)
<1>1. Init => ConTypes /\ FlowInv
  BY ConTypesInit, FlowInit
<1>2. ConTypes /\ FlowInv /\ [Next]_vars => (ConTypes /\ FlowInv)'
  BY ConTypesNext, FlowNext
<1> QED BY <1>1, <1>2, PTL DEF Spec

\* COn, WRp, TAF and the TOE keep their types: no length, no count of retries
\* and no stream leaves its range.
THEOREM TxTypes == Spec => []TypeOK
<1>1. ConTypes /\ FlowInv => TypeOK
  <2> SUFFICES ASSUME ConTypes, FlowInv PROVE TypeOK
    OBVIOUS
  <2>1. PICK h \in PosNat : StreamsCut(h)
    BY DEF FlowInv, CutInv
  <2>2. siTAF_Data \in Seq(Chunk) /\ soSHL_Data \in Seq(Chunk)
    BY <2>1, CutRead DEF StreamsCut
  <2>3. siTAF_DatLen \in Seq(Nat)
    <3>1. Seq(PosNat) \subseteq Seq(Nat)
      BY DEF PosNat
    <3> QED BY <3>1 DEF FlowInv, TafTypes
  <2>4. soSHL_SndReq \in Seq(SndReq) /\ siSHL_SndRep \in Seq(SndReplies)
    <3>1. wrp_sendReq \in SndReq
      BY DEF FlowInv, WrpTypes
    <3>2. CASE soSHL_SndReq = << >> /\ siSHL_SndRep = << >>
      BY <3>2
    <3>3. CASE soSHL_SndReq = << wrp_sendReq >> /\ siSHL_SndRep = << >>
      BY <3>1, <3>3
    <3>4. ASSUME soSHL_SndReq = << >>, NEW e \in SndReplies, siSHL_SndRep = << e >>
          PROVE  soSHL_SndReq \in Seq(SndReq) /\ siSHL_SndRep \in Seq(SndReplies)
      BY <3>4
    <3> QED BY <3>2, <3>3, <3>4 DEF FlowInv, RequestInv
  <2> QED BY <2>2, <2>3, <2>4 DEF ConTypes, FlowInv, TafTypes, WrpTypes, ToeTypes, TypeOK
<1> QED BY <1>1, FlowHolds, PTL

\* The chunks WRp sends fill the segments the TOE has granted to the byte,
\* whatever it refused in between and however long the segments are.
THEOREM GrantsAreFilled == Spec => []GrantsFilled
<1>1. FlowInv => GrantsFilled
  <2> SUFFICES ASSUME FlowInv, soSHL_Data # << >>
               PROVE  /\ toeGrants # << >>
                      /\ LET chunk == Head(soSHL_Data)
                             left == Head(toeGrants).length - toeGot
                         IN /\ chunk.len <= left
                            /\ chunk.tlast <=> chunk.len = left
    BY DEF GrantsFilled
  <2>1. PICK h \in PosNat, seg \in Nat : Cut(FALSE, soSHL_Data, Owed, Due(h), seg)
    BY DEF FlowInv, CutInv, StreamsCut
  <2>2. /\ Owed \in Seq(PosNat) /\ Owed # << >>
        /\ Fits(Head(soSHL_Data), Head(Owed))
    BY <2>1, CutRead DEF Announced, HeadFits
  <2>3. toeGrants # << >>
    BY <2>2 DEF Owed, OwedOf
  <2>4. Head(Owed) = Head(toeGrants).length - toeGot
    BY <2>3, OwedTail DEF Owed, FlowInv, ToeTypes
  <2>5. PICK left \in PosNat : left = Head(toeGrants).length - toeGot /\ left = Head(Owed)
    BY <2>2, <2>4, QueueOps
  <2>6. Head(soSHL_Data).len <= left /\ (Head(soSHL_Data).tlast <=> Head(soSHL_Data).len = left)
    BY <2>2, <2>5 DEF Fits, LenOfChunk, PosNat, ARW_BYTES
  <2> QED BY <2>3, <2>5, <2>6
<1> QED BY <1>1, FlowHolds, PTL

\* WRp forwards and drains the segment whose request it has read last: the
\* lengths and the chunks of TAF never slip against each other.
THEOREM TafStaysAligned == Spec => []TafAligned
<1>1. FlowInv => TafAligned
  <2> SUFFICES ASSUME FlowInv, wrp_fsmState \in {"WRP_STREAM", "WRP_DRAIN"}, siTAF_Data # << >>
               PROVE  Head(siTAF_Data).seg = tafSeg - Len(siTAF_SessId)
    BY DEF TafAligned
  <2>1. PICK h \in PosNat : Cut(TRUE, siTAF_Data, TafLens(h), tafLeft, tafSeg)
    BY DEF FlowInv, CutInv, StreamsCut
  <2>2. Head(siTAF_Data).seg = (tafSeg - Len(TafLens(h))) + 1 /\ tafSeg \in Nat
    BY <2>1, CutRead DEF HeadFits
  <2>3. TafLens(h) = << h >> \o siTAF_DatLen
    BY DEF TafLens, Held, FlowInv, RequestInv
  <2>4. /\ Len(<< h >> \o siTAF_DatLen) = Len(siTAF_DatLen) + 1 /\ Len(siTAF_DatLen) \in Nat
        /\ Len(siTAF_SessId) = Len(siTAF_DatLen)
    <3>1. << h >> \in Seq(PosNat) /\ Len(<< h >>) = 1 /\ siTAF_DatLen \in Seq(PosNat)
      BY DEF FlowInv, TafTypes
    <3> QED BY <3>1 DEF FlowInv, TafTypes
  <2> QED BY <2>2, <2>3, <2>4
<1> QED BY <1>1, FlowHolds, PTL

-----------------------------------------------------------------------------
(* The test pattern.                                                        *)

Toggle(gen) == IF gen = "GEN_CHK0" THEN "GEN_CHK1" ELSE "GEN_CHK0"

\* The chunk of the pattern due after got bytes of a segment.
PhaseOf(got) == IF (got \div ARW_BYTES) % 2 = 0 THEN "GEN_CHK0" ELSE "GEN_CHK1"

\* A generated chunk that holds gen may come after chunk c.
MayFollow(c, gen) == IF c.tlast THEN gen = "GEN_CHK0" ELSE c.seg = 0 /\ gen = Toggle(c.data)

LastChunk == soSHL_Data[Len(soSHL_Data)]

HeadPattern ==
  /\ toeGot % ARW_BYTES = 0
  /\ soSHL_Data # << >> /\ soSHL_Data[1].seg = 0 => soSHL_Data[1].data = PhaseOf(toeGot)

ChunksPattern ==
  \A i \in 1..(Len(soSHL_Data) - 1) :
    soSHL_Data[i + 1].seg = 0 => MayFollow(soSHL_Data[i], soSHL_Data[i + 1].data)

\* The chunk that WRp generates next goes on with the pattern.
NextPattern ==
  wrp_fsmState = "WRP_TXGEN" =>
    IF soSHL_Data = << >> THEN wrp_genChunk = PhaseOf(toeGot)
    ELSE MayFollow(LastChunk, wrp_genChunk)

\* Out of the two states that write chunks, the last segment is complete.
EndOfSegment ==
  wrp_fsmState \notin {"WRP_TXGEN", "WRP_STREAM"} =>
    IF soSHL_Data = << >> THEN toeGot = 0 ELSE LastChunk.tlast

PatternInv == HeadPattern /\ ChunksPattern /\ NextPattern /\ EndOfSegment

patternSide == << wrp_fsmState, wrp_genChunk, soSHL_Data, toeGot >>

LEMMA PatternSame == ASSUME PatternInv, UNCHANGED patternSide PROVE PatternInv'
BY DEF patternSide, PatternInv, HeadPattern, ChunksPattern, NextPattern, EndOfSegment, LastChunk

\* The pattern after eight bytes more.
LEMMA PhaseStep ==
  ASSUME NEW got \in Nat, got % ARW_BYTES = 0
  PROVE  /\ (got + ARW_BYTES) % ARW_BYTES = 0
         /\ PhaseOf(got + ARW_BYTES) = Toggle(PhaseOf(got))
         /\ PhaseOf(0) = "GEN_CHK0" /\ 0 % ARW_BYTES = 0
<1> USE DEF ARW_BYTES
<1>1. (got + 8) \div 8 = got \div 8 + 1 /\ (got + 8) % 8 = 0
  OBVIOUS
<1>2. ASSUME NEW k \in Nat PROVE (k + 1) % 2 = 0 <=> ~(k % 2 = 0)
  OBVIOUS
<1>3. PICK k \in Nat : k = got \div 8
  OBVIOUS
<1>4. 0 \div 8 = 0 /\ 0 % 2 = 0 /\ 0 % 8 = 0
  OBVIOUS
<1> QED BY <1>1, <1>2, <1>3, <1>4 DEF PhaseOf, Toggle

\* What FlowInv says of the chunks at the heads of the two streams.
LEMMA FlowHeads ==
  ASSUME FlowInv
  PROVE  /\ soSHL_Data \in Seq(Chunk) /\ toeGot \in Nat
         /\ soSHL_Data # << >> /\ ~Head(soSHL_Data).tlast => Head(soSHL_Data).len = ARW_BYTES
         /\ siTAF_Data \in Seq(Chunk)
         /\ siTAF_Data # << >> => Head(siTAF_Data).seg # 0
<1>1. PICK h \in PosNat, seg \in Nat :
        /\ Cut(FALSE, soSHL_Data, Owed, Due(h), seg)
        /\ Cut(TRUE, siTAF_Data, TafLens(h), tafLeft, tafSeg)
  BY DEF FlowInv, CutInv, StreamsCut
<1>2. ASSUME soSHL_Data # << >>, ~Head(soSHL_Data).tlast
      PROVE  Head(soSHL_Data).len = ARW_BYTES
  <2>1. Owed \in Seq(PosNat) /\ Owed # << >> /\ Fits(Head(soSHL_Data), Head(Owed))
    BY <1>1, <1>2, CutRead DEF Announced, HeadFits
  <2>2. Head(Owed) \in PosNat
    BY <2>1, QueueOps
  <2> QED BY <1>2, <2>1, <2>2 DEF Fits, LenOfChunk, PosNat, ARW_BYTES
<1>3. ASSUME siTAF_Data # << >>
      PROVE  Head(siTAF_Data).seg # 0
  <2>1. /\ Head(siTAF_Data).seg = (tafSeg - Len(TafLens(h))) + 1 /\ tafSeg \in Nat
        /\ TafLens(h) \in Seq(PosNat) /\ Len(TafLens(h)) <= tafSeg
    BY <1>1, <1>3, CutRead DEF HeadFits
  <2>2. Len(TafLens(h)) \in Nat
    BY <2>1
  <2> QED BY <2>1, <2>2
<1>4. soSHL_Data \in Seq(Chunk) /\ siTAF_Data \in Seq(Chunk)
  BY <1>1, CutRead
<1> QED BY <1>2, <1>3, <1>4 DEF FlowInv, ToeTypes

\* WRp writes chunk c behind the chunks of the stream.
LEMMA PatternWrite ==
  ASSUME soSHL_Data \in Seq(Chunk), NEW c \in Chunk, soSHL_Data' = Append(soSHL_Data, c),
         UNCHANGED toeGot, HeadPattern, ChunksPattern,
         c.seg = 0 => IF soSHL_Data = << >> THEN c.data = PhaseOf(toeGot)
                      ELSE MayFollow(LastChunk, c.data)
  PROVE  /\ HeadPattern' /\ ChunksPattern'
         /\ soSHL_Data' # << >> /\ LastChunk' = c
<1>1. /\ soSHL_Data' \in Seq(Chunk) /\ Len(soSHL_Data') = Len(soSHL_Data) + 1
      /\ Len(soSHL_Data) \in Nat
      /\ \A i \in 1..Len(soSHL_Data) : soSHL_Data'[i] = soSHL_Data[i]
      /\ soSHL_Data'[Len(soSHL_Data) + 1] = c
  OBVIOUS
<1>2. HeadPattern'
  <2>1. CASE soSHL_Data = << >>
    BY <1>1, <2>1 DEF HeadPattern
  <2>2. CASE soSHL_Data # << >>
    <3>1. soSHL_Data'[1] = soSHL_Data[1]
      BY <1>1, <2>2
    <3> QED BY <2>2, <3>1 DEF HeadPattern
  <2> QED BY <2>1, <2>2
<1>3. ChunksPattern'
  <2> SUFFICES ASSUME NEW i \in 1..Len(soSHL_Data), soSHL_Data'[i + 1].seg = 0
               PROVE  MayFollow(soSHL_Data'[i], soSHL_Data'[i + 1].data)
    BY <1>1 DEF ChunksPattern
  <2>1. soSHL_Data'[i] = soSHL_Data[i]
    BY <1>1
  <2>2. CASE i = Len(soSHL_Data)
    <3>1. soSHL_Data'[i + 1] = c /\ soSHL_Data # << >> /\ LastChunk = soSHL_Data[i]
      BY <1>1, <2>2 DEF LastChunk
    <3> QED BY <2>1, <3>1
  <2>3. CASE i # Len(soSHL_Data)
    <3>1. i \in 1..(Len(soSHL_Data) - 1) /\ soSHL_Data'[i + 1] = soSHL_Data[i + 1]
      BY <1>1, <2>3
    <3> QED BY <2>1, <3>1 DEF ChunksPattern
  <2> QED BY <2>2, <2>3
<1>4. soSHL_Data' # << >> /\ LastChunk' = c
  BY <1>1 DEF LastChunk
<1> QED BY <1>2, <1>3, <1>4

\* The TOE takes the chunk at the head.
LEMMA PatternToeData == ASSUME FlowInv, PatternInv, ToeData PROVE PatternInv'
<1> DEFINE c == Head(soSHL_Data)
<1>1. /\ soSHL_Data \in Seq(Chunk) /\ soSHL_Data # << >> /\ toeGot \in Nat
      /\ ~c.tlast => c.len = ARW_BYTES
      /\ soSHL_Data' = Tail(soSHL_Data)
      /\ toeGot' = IF c.tlast THEN 0 ELSE toeGot + c.len
      /\ wrp_fsmState' = wrp_fsmState /\ wrp_genChunk' = wrp_genChunk
  BY FlowHeads DEF ToeData, Dequeue, wrpVars
<1>2. /\ Len(soSHL_Data) \in Nat \ {0} /\ Len(soSHL_Data') = Len(soSHL_Data) - 1
      /\ \A i \in 1..Len(soSHL_Data') : soSHL_Data'[i] = soSHL_Data[i + 1]
      /\ c = soSHL_Data[1]
      /\ soSHL_Data' = << >> <=> Len(soSHL_Data) = 1
  <2>1. /\ Len(soSHL_Data) \in Nat \ {0} /\ Len(Tail(soSHL_Data)) = Len(soSHL_Data) - 1
        /\ Tail(soSHL_Data) \in Seq(Chunk)
        /\ \A i \in 1..Len(Tail(soSHL_Data)) : Tail(soSHL_Data)[i] = soSHL_Data[i + 1]
        /\ c = soSHL_Data[1]
    BY <1>1
  <2>2. Tail(soSHL_Data) = << >> <=> Len(soSHL_Data) = 1
    BY SMTT(30), <2>1
  <2> HIDE DEF c
  <2> QED BY <1>1, <2>1, <2>2
<1>3. /\ toeGot' = IF c.tlast THEN 0 ELSE toeGot + ARW_BYTES
      /\ toeGot' % ARW_BYTES = 0
      /\ PhaseOf(toeGot') = IF c.tlast THEN "GEN_CHK0" ELSE Toggle(PhaseOf(toeGot))
  BY <1>1, PhaseStep DEF PatternInv, HeadPattern
<1>4. ASSUME NEW gen, MayFollow(c, gen)
      PROVE  gen = PhaseOf(toeGot')
  BY <1>1, <1>2, <1>3, <1>4 DEF MayFollow, PatternInv, HeadPattern
<1>5. HeadPattern'
  <2> SUFFICES ASSUME soSHL_Data' # << >>, soSHL_Data'[1].seg = 0
               PROVE  soSHL_Data'[1].data = PhaseOf(toeGot')
    BY <1>3 DEF HeadPattern
  <2>1. soSHL_Data'[1] = soSHL_Data[2] /\ 1 \in 1..(Len(soSHL_Data) - 1)
    BY <1>2
  <2>2. MayFollow(c, soSHL_Data[1 + 1].data)
    BY <1>2, <2>1 DEF PatternInv, ChunksPattern
  <2> QED BY <2>1, <2>2, <1>4
<1>6. ChunksPattern'
  <2> SUFFICES ASSUME NEW i \in 1..(Len(soSHL_Data') - 1), soSHL_Data'[i + 1].seg = 0
               PROVE  MayFollow(soSHL_Data'[i], soSHL_Data'[i + 1].data)
    BY DEF ChunksPattern
  <2>1. /\ i + 1 \in 1..(Len(soSHL_Data) - 1)
        /\ soSHL_Data'[i] = soSHL_Data[i + 1]
        /\ soSHL_Data'[i + 1] = soSHL_Data[(i + 1) + 1]
    BY <1>2
  <2> QED BY <2>1 DEF PatternInv, ChunksPattern
<1>7. /\ soSHL_Data' # << >> => LastChunk' = LastChunk
      /\ soSHL_Data' = << >> => LastChunk = c
  BY <1>2 DEF LastChunk
<1>8. NextPattern'
  BY <1>1, <1>4, <1>7 DEF PatternInv, NextPattern
<1>9. EndOfSegment'
  BY <1>1, <1>3, <1>7 DEF PatternInv, EndOfSegment
<1> QED BY <1>5, <1>6, <1>8, <1>9 DEF PatternInv

LEMMA PatternWRp == ASSUME FlowInv, PatternInv, WRp PROVE PatternInv'
<1> USE DEF WrpUnchanged, toeVars
<1>0. /\ HeadPattern /\ ChunksPattern /\ NextPattern /\ EndOfSegment
      /\ soSHL_Data \in Seq(Chunk) /\ siTAF_Data \in Seq(Chunk)
      /\ siTAF_Data # << >> => Head(siTAF_Data) \in Chunk /\ Head(siTAF_Data).seg # 0
  BY FlowHeads, QueueOps DEF PatternInv
\* Nothing is written, and no segment is under way before or after.
<1>1. ASSUME UNCHANGED << soSHL_Data, toeGot >>,
             wrp_fsmState \notin {"WRP_TXGEN", "WRP_STREAM"},
             wrp_fsmState' = "WRP_TXGEN" => wrp_genChunk' = "GEN_CHK0"
      PROVE  PatternInv'
  <2>1. HeadPattern' /\ ChunksPattern'
    BY <1>0, <1>1 DEF HeadPattern, ChunksPattern
  <2>2. LastChunk' = LastChunk
    BY <1>1 DEF LastChunk
  <2>3. EndOfSegment'
    BY <1>0, <1>1, <2>2 DEF EndOfSegment
  <2>4. PhaseOf(0) = "GEN_CHK0"
    BY PhaseStep DEF ARW_BYTES
  <2>5. NextPattern'
    BY <1>0, <1>1, <2>2, <2>4 DEF NextPattern, EndOfSegment, MayFollow
  <2> QED BY <2>1, <2>3, <2>5 DEF PatternInv
<1>2. CASE WrpIdleTest \/ WrpIdleTaf
  BY <1>1, <1>2 DEF WrpIdleTest, WrpIdleTaf, WrpStart, sndVars
<1>3. CASE WrpRts
  BY <1>1, <1>3 DEF WrpRts
<1>4. CASE WrpRtsRep
  <2>1. wrp_fsmState' = "WRP_TXGEN" => wrp_genChunk' = "GEN_CHK0"
    BY <1>4 DEF WrpRtsRep, AfterSndRep, GenChunkAfter
  <2> QED BY <1>1, <1>4, <2>1 DEF WrpRtsRep
<1>5. CASE WrpDrain
  BY <1>1, <1>5 DEF WrpDrain, WrpTakesChunk
<1>6. CASE WrpStream
  <2> DEFINE c == Head(siTAF_Data)
  <2>1. /\ c \in Chunk /\ c.seg # 0 /\ wrp_fsmState = "WRP_STREAM"
        /\ soSHL_Data' = Append(soSHL_Data, c) /\ toeGot' = toeGot
        /\ wrp_fsmState' = IF c.tlast THEN "WRP_IDLE" ELSE wrp_fsmState
    BY <1>0, <1>6 DEF WrpStream, WrpTakesChunk
  <2>2. HeadPattern' /\ ChunksPattern' /\ soSHL_Data' # << >> /\ LastChunk' = c
    BY <1>0, <2>1, PatternWrite
  <2>3. NextPattern' /\ EndOfSegment'
    BY <2>1, <2>2 DEF NextPattern, EndOfSegment
  <2> QED BY <2>2, <2>3 DEF PatternInv
<1>7. CASE WrpTxGen
  <2>1. PICK c : /\ c = [seg |-> 0, data |-> wrp_genChunk,
                         tlast |-> IsLastChunk(wrp_sendReq.length),
                         len |-> LenOfChunk(wrp_sendReq.length)]
                 /\ soSHL_Data' = Append(soSHL_Data, c)
    BY <1>7 DEF WrpTxGen
  <2>2. c \in Chunk
    <3>1. wrp_sendReq.length \in Nat /\ wrp_sendReq.length > 0 /\ wrp_genChunk \in GenChunks
      BY <1>7 DEF FlowInv, WrpTypes, SndReq, RequestInv, WrpTxGen
    <3>2. /\ LenOfChunk(wrp_sendReq.length) \in 1..ARW_BYTES
          /\ IsLastChunk(wrp_sendReq.length) \in BOOLEAN
      BY <3>1 DEF LenOfChunk, IsLastChunk, ARW_BYTES
    <3> QED BY <2>1, <3>1, <3>2 DEF Chunk
  <2>3. /\ c.seg = 0 /\ c.data = wrp_genChunk /\ (c.tlast <=> IsLastChunk(wrp_sendReq.length))
        /\ wrp_fsmState = "WRP_TXGEN" /\ toeGot' = toeGot
        /\ wrp_fsmState' = IF c.tlast THEN "WRP_IDLE" ELSE wrp_fsmState
        /\ wrp_genChunk' = Toggle(wrp_genChunk)
    BY <1>7, <2>1 DEF WrpTxGen, Toggle
  <2>4. HeadPattern' /\ ChunksPattern' /\ soSHL_Data' # << >> /\ LastChunk' = c
    BY <1>0, <2>1, <2>2, <2>3, PatternWrite DEF NextPattern
  <2>5. NextPattern' /\ EndOfSegment'
    BY <2>3, <2>4 DEF NextPattern, EndOfSegment, MayFollow
  <2> QED BY <2>4, <2>5 DEF PatternInv
<1> QED BY <1>2, <1>3, <1>4, <1>5, <1>6, <1>7 DEF WRp

LEMMA PatternNext == ASSUME FlowInv, PatternInv, [Next]_vars PROVE PatternInv'
<1>1. CASE UNCHANGED flow
  BY <1>1, PatternSame DEF flow, wrpVars, sndVars, patternSide
<1>2. CASE UNCHANGED vars
  BY <1>2, PatternSame DEF vars, wrpVars, sndVars, toeVars, patternSide
<1>3. ASSUME NEW s \in TafSessIds, NEW n \in DatLens, TafAnnounce(s, n)
      PROVE  PatternInv'
  BY <1>3, PatternSame DEF TafAnnounce, wrpVars, sndVars, toeVars, patternSide
<1>4. CASE TafChunk
  BY <1>4, PatternSame DEF TafChunk, wrpVars, sndVars, toeVars, patternSide
<1>5. ASSUME NEW error \in SndReplies, ToeSndRep(error)
      PROVE  PatternInv'
  BY <1>5, PatternSame DEF ToeSndRep, wrpVars, patternSide
<1> QED BY <1>1, <1>2, <1>3, <1>4, <1>5, PatternToeData, PatternWRp, FlowSideSame DEF Next, TOE

\* tcp_shell_if.cpp:1580, 1641-1650: the chunks of a test segment alternate, from the
\* first one of the pattern, for segments of any length, however many tests and
\* segments of TAF came before and whatever the TOE refused.
THEOREM PatternAlternates == Spec => []TestPattern
<1>1. Init => PatternInv
  BY DEF Init, PatternInv, HeadPattern, ChunksPattern, NextPattern, EndOfSegment, ARW_BYTES
<1>2. FlowInv /\ PatternInv /\ [Next]_vars => PatternInv'
  BY PatternNext
<1>3. FlowInv /\ PatternInv => TestPattern
  BY FlowHeads DEF PatternInv, HeadPattern, TestPattern, PhaseOf
<1> QED BY <1>1, <1>2, <1>3, FlowHolds, PTL DEF Spec

-----------------------------------------------------------------------------
(* The replies of the TOE to the connections that COn asks for.             *)

replySide == << conVars, opnVars, toeLast, crossed >>

\* The actions that neither COn nor the TOE takes on a connection.
LEMMA ReplySideSame ==
  ASSUME \/ MmioEnable
         \/ \E sock \in Socks, count \in TxCounts : RdpCommand(sock, count)
         \/ \E s \in TafSessIds, n \in DatLens : TafAnnounce(s, n)
         \/ TafChunk
         \/ \E s \in SessIds : ToePeerCloses(s)
         \/ \E error \in SndReplies : ToeSndRep(error)
         \/ ToeData
         \/ WRp
         \/ UNCHANGED vars
  PROVE  UNCHANGED replySide
BY DEF replySide, vars, toeVars, conVars, opnVars, WrpUnchanged, MmioEnable, RdpCommand, TafAnnounce,
       TafChunk, ToePeerCloses, ToeSndRep, ToeData, WRp, WrpIdleTest, WrpIdleTaf, WrpRts, WrpRtsRep,
       WrpStream, WrpDrain, WrpTxGen, WrpTakesChunk

\* While COn waits for a reply there is one to come.
ReplyInv == Unasked \in Nat

\* The lengths of a stream that is written and of one that is read.
LEMMA LenOps ==
  ASSUME NEW S, NEW q \in Seq(S)
  PROVE  /\ Len(q) \in Nat
         /\ Len(q) = 0 <=> q = << >>
         /\ \A x \in S : Len(Append(q, x)) = Len(q) + 1
         /\ q # << >> => Len(Dequeue(q)) = Len(q) - 1
  BY DEF Dequeue

\* A reply is taken off the account only by COn's drain.
LEMMA UnaskedStep ==
  ASSUME ConTypes, ReplyInv, [Next]_vars PROVE Unasked' \in 0..Unasked
<1> DEFINE reqs == Len(soSHL_OpnReq)
           reps == Len(siSHL_OpnRep)
<1>0. /\ reqs \in Nat /\ reps \in Nat /\ soSHL_OpnReq \in Seq(Socks) /\ siSHL_OpnRep \in Seq(OpnRep)
      /\ soSHL_OpnReq # << >> => Len(Dequeue(soSHL_OpnReq)) = reqs - 1
      /\ siSHL_OpnRep # << >> => Len(Dequeue(siSHL_OpnRep)) = reps - 1 /\ reps > 0
  BY LenOps DEF ConTypes
<1> USE DEF Unasked, ReplyInv, ConUnchanged
<1>1. CASE UNCHANGED replySide
  BY <1>1 DEF replySide, conVars, opnVars
<1>2. CASE ToeClose
  BY <1>2 DEF ToeClose, conVars
<1>3. ASSUME NEW s \in SessIds, NEW state \in OpnStates, ToeOpen(s, state)
      PROVE  Unasked' \in 0..Unasked
  <2>1. [sessId |-> s, tcpState |-> state] \in OpnRep
    BY TxReplyAssumption DEF OpnRep
  <2>2. Len(Append(siSHL_OpnRep, [sessId |-> s, tcpState |-> state])) = reps + 1
    BY <1>0, <2>1, LenOps
  <2>3. Len(siSHL_OpnRep') = reps + 1 /\ Len(soSHL_OpnReq') = reqs - 1
    BY <1>0, <1>3, <2>2 DEF ToeOpen
  <2> QED BY <1>0, <1>3, <2>3 DEF ToeOpen, conVars
<1>4. CASE ConIdleDrain
  <2>1. Len(siSHL_OpnRep') = reps - 1 /\ reps > 0
    BY <1>0, <1>4 DEF ConIdleDrain
  <2> QED BY <1>0, <1>4, <2>1 DEF ConIdleDrain
<1>5. CASE ConIdle
  BY <1>0, <1>5 DEF ConIdle, opnVars
<1>6. CASE ConRdRDp
  BY <1>0, <1>6 DEF ConRdRDp, ConCommand, opnVars
<1>7. CASE ConOpnReq
  <2>1. Len(soSHL_OpnReq') = reqs + 1
    BY <1>0, <1>7, LenOps DEF ConOpnReq, ConTypes
  <2> QED BY <1>0, <1>7, <2>1 DEF ConOpnReq
<1>8. CASE ConOpnRep
  <2>1. Len(siSHL_OpnRep') = reps - 1 /\ reps > 0
    BY <1>0, <1>8 DEF ConOpnRep
  <2> QED BY <1>0, <1>8, <2>1 DEF ConOpnRep
<1>9. CASE ConWrWRp
  BY <1>0, <1>9 DEF ConWrWRp, opnVars
<1> QED BY <1>1, <1>2, <1>3, <1>4, <1>5, <1>6, <1>7, <1>8, <1>9, ReplySideSame
        DEF Next, TOE, COn

LEMMA ReplyHolds == Spec => [](ConTypes /\ ReplyInv)
<1>1. Init => ConTypes /\ ReplyInv
  <2> SUFFICES ASSUME Init PROVE ConTypes /\ ReplyInv
    OBVIOUS
  <2>1. ConTypes
    BY ConTypesInit
  <2>2. con_fsmState = "CON_IDLE"
    BY DEF Init
  <2> QED BY <2>1, <2>2, LenOps DEF ConTypes, ReplyInv, Unasked
<1>2. ConTypes /\ ReplyInv /\ [Next]_vars => (ConTypes /\ ReplyInv)'
  <2> SUFFICES ASSUME ConTypes, ReplyInv, [Next]_vars PROVE (ConTypes /\ ReplyInv)'
    OBVIOUS
  <2>1. Unasked' \in Nat
    BY UnaskedStep DEF ReplyInv
  <2> QED BY <2>1, ConTypesNext DEF ReplyInv
<1> QED BY <1>1, <1>2, PTL DEF Spec

\* Whatever a reset of the role has left with the TOE and whenever the SHELL enables or
\* disables COn, the reply that COn waits for is on its way, and the replies nobody waits
\* for are only drained: COn leaves none behind itself.
THEOREM NoReplyIsLeft == Spec => NothingLeftBehind
<1>1. ConTypes /\ ReplyInv /\ [Next]_vars => [Unasked' \in 0..Unasked]_vars
  BY UnaskedStep
<1> QED BY <1>1, ReplyHolds, PTL DEF Spec, NothingLeftBehind

\* COn has opened a connection, and its request has crossed no older one.
Opened == con_testSockAddr \in Socks /\ con_fsmState # "CON_OPN_REQ" /\ ~crossed

\* Then what COn knows of it is what the TOE has opened: the request is the only one the
\* TOE has, its reply the only one that waits, and none is left afterwards.
OpenedInv ==
  /\ con_fsmState \in {"CON_OPN_REP", "CON_WR_WRp"} => con_testSockAddr \in Socks
  /\ Opened /\ con_fsmState = "CON_OPN_REP" =>
       \/ soSHL_OpnReq = << con_testSockAddr >> /\ siSHL_OpnRep = << >>
       \/ /\ soSHL_OpnReq = << >>
          /\ \E r \in OpnRep : /\ siSHL_OpnRep = << r >>
                               /\ toeLast = [sessId |-> r.sessId, sock |-> con_testSockAddr]
  /\ Opened /\ con_fsmState # "CON_OPN_REP" =>
       /\ soSHL_OpnReq = << >> /\ siSHL_OpnRep = << >>
       /\ toeLast = [sessId |-> con_opnRep.sessId, sock |-> con_testSockAddr]

\* What COn remembers follows the TOE as long as no open fails.
LEMMA OpenedInvNext ==
  ASSUME OpnStates = {"ESTABLISHED"}, ConTypes, OpenedInv, [Next]_vars
  PROVE  OpenedInv'
<1> USE DEF OpenedInv, Opened, ConUnchanged, toeVars
<1>1. CASE UNCHANGED replySide
  BY <1>1 DEF replySide, conVars, opnVars
<1>2. CASE ToeClose
  BY <1>2 DEF ToeClose, conVars
<1>3. ASSUME NEW s \in SessIds, NEW state \in OpnStates, ToeOpen(s, state)
      PROVE  OpenedInv'
  <2> DEFINE r == [sessId |-> s, tcpState |-> state]
  <2>1. UNCHANGED << con_fsmState, con_testSockAddr, con_opnRep, crossed >> /\ soSHL_OpnReq # << >>
    BY <1>3 DEF ToeOpen, conVars
  <2>2. r \in OpnRep /\ r.sessId = s
    BY TxReplyAssumption DEF OpnRep
  <2>3. CASE Opened
    <3>1. /\ con_fsmState = "CON_OPN_REP"
          /\ soSHL_OpnReq = << con_testSockAddr >> /\ siSHL_OpnRep = << >>
      BY <2>1, <2>3
    <3>2. /\ soSHL_OpnReq' = << >> /\ siSHL_OpnRep' = << r >>
          /\ toeLast' = [sessId |-> s, sock |-> con_testSockAddr]
      BY <1>3, <3>1 DEF ToeOpen, Dequeue
    <3> HIDE DEF r
    <3> QED BY <2>1, <2>2, <3>1, <3>2
  <2> QED BY <2>1, <2>3
<1>4. CASE ConIdleDrain
  BY <1>4 DEF ConIdleDrain
<1>5. CASE ConIdle
  BY <1>5 DEF ConIdle, opnVars
<1>6. CASE ConRdRDp
  <2>1. Head(ssRDpToCOn_OpnSockReq) \in Socks
    BY <1>6, QueueOps DEF ConRdRDp, ConTypes
  <2>2. NoSock \notin Socks /\ con_fsmState = "CON_RD_RDp"
    BY <1>6, TxSessAssumption DEF ConRdRDp
  <2>3. \/ con_fsmState' = "CON_OPN_REQ"
        \/ /\ con_fsmState' \in {"CON_WR_WRp", "CON_RD_RDp"}
           /\ UNCHANGED << con_testSockAddr, con_opnRep, soSHL_OpnReq, siSHL_OpnRep, toeLast,
                           crossed >>
           /\ con_fsmState' = "CON_WR_WRp" => con_testSockAddr \in Socks
    BY <1>6, <2>1 DEF ConRdRDp, ConCommand, IsOpened, opnVars
  <2> QED BY <2>2, <2>3
<1>7. CASE ConOpnReq
  <2>1. con_testSockAddr \in Socks /\ con_testSockAddr' = con_testSockAddr
    BY <1>7 DEF ConOpnReq, ConTypes
  <2>2. ASSUME ~crossed'
        PROVE  soSHL_OpnReq' = << con_testSockAddr >> /\ siSHL_OpnRep' = << >>
    <3>1. ~(Unasked > 0) /\ con_fsmState = "CON_OPN_REQ"
      BY <1>7, <2>2 DEF ConOpnReq
    <3>2. /\ Len(soSHL_OpnReq) \in Nat /\ Len(siSHL_OpnRep) \in Nat
          /\ Len(soSHL_OpnReq) = 0 <=> soSHL_OpnReq = << >>
          /\ Len(siSHL_OpnRep) = 0 <=> siSHL_OpnRep = << >>
      BY LenOps DEF ConTypes
    <3>3. soSHL_OpnReq = << >> /\ siSHL_OpnRep = << >>
      BY <3>1, <3>2 DEF Unasked
    <3> QED BY <1>7, <3>3 DEF ConOpnReq
  <2>3. con_fsmState' = "CON_OPN_REP"
    BY <1>7 DEF ConOpnReq
  <2> QED BY <2>1, <2>2, <2>3
<1>8. CASE ConOpnRep
  <2>1. /\ con_fsmState = "CON_OPN_REP" /\ siSHL_OpnRep # << >> /\ con_fsmState' = "CON_IDLE"
        /\ UNCHANGED << con_testSockAddr, soSHL_OpnReq, toeLast, crossed >>
        /\ con_opnRep' = Head(siSHL_OpnRep) /\ siSHL_OpnRep' = Dequeue(siSHL_OpnRep)
    BY <1>8 DEF ConOpnRep
  <2>2. ASSUME Opened'
        PROVE  /\ soSHL_OpnReq' = << >> /\ siSHL_OpnRep' = << >>
               /\ toeLast' = [sessId |-> con_opnRep'.sessId, sock |-> con_testSockAddr']
    <3>1. Opened
      BY <2>1, <2>2
    <3>2. PICK r \in OpnRep : /\ soSHL_OpnReq = << >> /\ siSHL_OpnRep = << r >>
                              /\ toeLast = [sessId |-> r.sessId, sock |-> con_testSockAddr]
      BY <2>1, <3>1
    <3>3. siSHL_OpnRep' = << >> /\ con_opnRep' = r
      BY <2>1, <3>2 DEF Dequeue
    <3> QED BY <2>1, <3>2, <3>3
  <2> QED BY <2>1, <2>2
<1>9. CASE ConWrWRp
  BY <1>9 DEF ConWrWRp, opnVars
<1> QED BY <1>1, <1>2, <1>3, <1>4, <1>5, <1>6, <1>7, <1>8, <1>9, ReplySideSame
        DEF Next, TOE, COn

\* When every connection that is asked for is established, a test is sent on the
\* session the TOE opened last, to the socket that the command names, unless COn has
\* been enabled while the TOE still owed it an answer of before a reset.
THEOREM TestsGoToLastOpened ==
  ASSUME OpnStates = {"ESTABLISHED"}
  PROVE  Spec => []SendsToLastOpened
<1>1. Init => OpenedInv
  BY TxSessAssumption DEF Init, OpenedInv, Opened
<1>2. ConTypes /\ OpenedInv /\ [Next]_vars => OpenedInv'
  BY OpenedInvNext
<1>3. OpenedInv => SendsToLastOpened
  BY DEF OpenedInv, Opened, SendsToLastOpened
<1> QED BY <1>1, <1>2, <1>3, ReplyHolds, PTL DEF Spec
-----------------------------------------------------------------------------
(* The retries of a request and the refusals that the TOE has counted.      *)

LEMMA DivMod ==
  ASSUME NEW p \in Nat \ {0}, NEW n \in Nat
  PROVE  n = p * (n \div p) + (n % p) /\ n % p \in 0..(p - 1) /\ n \div p \in Nat
<1>1. n = p * (n \div p) + (n % p)
  OBVIOUS
<1>2. n % p \in 0..(p - 1) /\ n \div p \in Nat
  OBVIOUS
<1> QED BY <1>1, <1>2

\* The only multiple of p below p is 0.
LEMMA SmallMultiple ==
  ASSUME NEW p \in Nat \ {0}, NEW q \in Int, NEW r \in 0..(p - 1), p * q = r
  PROVE  r = 0
<1>1. CASE q <= 0
  <2>1. p * q <= 0
    BY <1>1
  <2> QED BY <2>1
<1>2. CASE q >= 1
  <2>1. p * q >= p
    BY <1>2
  <2> QED BY <2>1
<1> QED BY <1>1, <1>2

\* A multiple of p and p more is a multiple of p.
LEMMA ModTurn ==
  ASSUME NEW p \in Nat \ {0}, NEW n \in Nat, n >= p, (n - p) % p = 0
  PROVE  n % p = 0
<1>1. PICK m \in Nat : m = n - p
  OBVIOUS
<1>2. PICK q \in Nat : m = p * q
  <2>1. m % p = 0
    BY <1>1
  <2>2. m = p * (m \div p) + (m % p) /\ m \div p \in Nat
    BY DivMod
  <2>3. PICK k \in Nat : k = m \div p
    BY <2>2
  <2>4. m = p * k
    BY <2>1, <2>2, <2>3
  <2> QED BY <2>4
<1>3. PICK u \in Nat, r \in 0..(p - 1) : r = n % p /\ n = p * u + r
  <2>1. n = p * (n \div p) + (n % p) /\ n % p \in 0..(p - 1) /\ n \div p \in Nat
    BY DivMod
  <2>2. PICK u \in Nat, r \in 0..(p - 1) : u = n \div p /\ r = n % p
    BY <2>1
  <2> QED BY <2>1, <2>2
<1>4. p * ((q + 1) - u) = p * q + p - p * u
  OBVIOUS
<1>5. p * ((q + 1) - u) = r
  BY <1>1, <1>2, <1>3, <1>4
<1>6. r = 0
  BY <1>5, SmallMultiple
<1> QED BY <1>3, <1>6

\* How often the request has been refused and tried again.
Retried == RetryCnt - wrp_retryCnt

\* n refusals in a row: as many as the request has had, and RetryCnt + 1 for each
\* request given up before it.
Counted(n, refusals) == n >= refusals /\ (n - refusals) % (RetryCnt + 1) = 0

RetryInv ==
  /\ ~Asked => Counted(toeNoSpace, 0)
  /\ Asked /\ siSHL_SndRep = << >> => Counted(toeNoSpace, Retried)
  /\ siSHL_SndRep = << "NO_SPACE" >> => Counted(toeNoSpace, Retried + 1)
  /\ siSHL_SndRep \in {<< "NO_ERROR" >>, << "NO_CONNECTION" >>} => toeNoSpace = 0

retrySide == << wrp_fsmState, wrp_retryCnt, siSHL_SndRep, toeNoSpace >>

LEMMA RetrySame == ASSUME RetryInv, UNCHANGED retrySide PROVE RetryInv'
BY DEF RetryInv, Counted, Retried, Asked, retrySide

LEMMA CountedZero == Counted(0, 0)
<1>1. PICK p \in Nat \ {0} : p = RetryCnt + 1
  BY TxDepthAssumption
<1>2. 0 % p = 0
  OBVIOUS
<1> QED BY <1>1, <1>2 DEF Counted

\* A request that is given up has been refused RetryCnt + 1 times.
LEMMA GivenUp ==
  ASSUME NEW n \in Nat, Counted(n, RetryCnt + 1)
  PROVE  n > 0 /\ n % (RetryCnt + 1) = 0 /\ Counted(n, 0)
<1>1. PICK p \in Nat \ {0} : p = RetryCnt + 1
  BY TxDepthAssumption
<1>2. n >= p /\ (n - p) % p = 0
  BY <1>1 DEF Counted
<1>3. n % p = 0
  BY <1>2, ModTurn
<1>5. n > 0
  BY <1>2
<1>4. n - 0 = n
  OBVIOUS
<1> QED BY <1>1, <1>3, <1>4, <1>5 DEF Counted

\* An answer of the TOE.
LEMMA RetryToeSndRep ==
  ASSUME FlowInv, RetryInv, NEW error \in SndReplies, ToeSndRep(error) PROVE RetryInv'
<1>1. /\ wrp_fsmState = "WRP_RTS_REP" /\ siSHL_SndRep = << >>
      /\ wrp_retryCnt \in 0..RetryCnt /\ toeNoSpace \in Nat
  BY DEF FlowInv, RequestInv, ToeSndRep, WrpTypes, ToeTypes
<1>2. /\ wrp_fsmState' = wrp_fsmState /\ wrp_retryCnt' = wrp_retryCnt
      /\ siSHL_SndRep' = << error >>
      /\ toeNoSpace' = IF error = "NO_SPACE" THEN toeNoSpace + 1 ELSE 0
  BY <1>1 DEF ToeSndRep, wrpVars
<1>3. Counted(toeNoSpace, Retried)
  BY <1>1 DEF RetryInv, Asked
<1>4. Counted(toeNoSpace + 1, Retried + 1)
  <2>1. Retried \in Int
    BY <1>1, TxDepthAssumption DEF Retried
  <2>2. (toeNoSpace + 1) - (Retried + 1) = toeNoSpace - Retried
    BY <1>1, <2>1
  <2> QED BY <1>1, <1>3, <2>1, <2>2 DEF Counted
<1>5. Retried' = Retried
  BY <1>2 DEF Retried
<1> QED BY <1>1, <1>2, <1>4, <1>5 DEF RetryInv, Asked, Counted

\* WRp reads an answer.
LEMMA RetryWrpRtsRep ==
  ASSUME FlowInv, RetryInv, WrpRtsRep
  PROVE  /\ RetryInv'
         /\ wrp_fsmState' = "WRP_DRAIN" =>
              \/ Head(siSHL_SndRep) = "NO_CONNECTION"
              \/ toeNoSpace > 0 /\ toeNoSpace % (RetryCnt + 1) = 0
<1>1. PICK error \in {"NO_ERROR", "NO_SPACE", "NO_CONNECTION"} : siSHL_SndRep = << error >>
  BY TxReplyAssumption DEF FlowInv, RequestInv, WrpRtsRep, SndReplies
<1>2. /\ Head(siSHL_SndRep) = error /\ siSHL_SndRep' = << >>
      /\ toeNoSpace' = toeNoSpace /\ toeNoSpace \in Nat
      /\ wrp_fsmState = "WRP_RTS_REP" /\ wrp_fsmState' = AfterSndRep(error)
      /\ wrp_retryCnt' = IF error = "NO_SPACE" /\ MayRetry THEN wrp_retryCnt - 1
                         ELSE wrp_retryCnt
      /\ wrp_retryCnt \in 0..RetryCnt
  BY <1>1 DEF WrpRtsRep, Dequeue, WrpUnchanged, toeVars, FlowInv, WrpTypes, ToeTypes
<1>3. CASE error = "NO_SPACE" /\ MayRetry
  <2>1. wrp_fsmState' = "WRP_RTS" /\ wrp_retryCnt' = wrp_retryCnt - 1
    BY <1>2, <1>3 DEF AfterSndRep
  <2>2. Counted(toeNoSpace, Retried + 1)
    BY <1>1, <1>3 DEF RetryInv
  <2>3. Retried' = Retried + 1
    BY <1>2, <2>1, TxDepthAssumption DEF Retried
  <2> QED BY <1>2, <2>1, <2>2, <2>3 DEF RetryInv, Asked, Counted
<1>4. CASE error = "NO_SPACE" /\ ~MayRetry
  <2>1. wrp_fsmState' \in {"WRP_IDLE", "WRP_DRAIN"} /\ wrp_retryCnt = 0
    BY <1>2, <1>4 DEF AfterSndRep, MayRetry
  <2>2. Retried + 1 = RetryCnt + 1
    BY <2>1, TxDepthAssumption DEF Retried
  <2>3. Counted(toeNoSpace, RetryCnt + 1)
    BY <1>1, <1>4, <2>2 DEF RetryInv
  <2>4. /\ toeNoSpace > 0 /\ toeNoSpace % (RetryCnt + 1) = 0
        /\ Counted(toeNoSpace, 0)
    BY <1>2, <2>3, GivenUp
  <2> QED BY <1>2, <2>1, <2>4 DEF RetryInv, Asked, Counted
<1>5. CASE error # "NO_SPACE"
  <2>1. toeNoSpace = 0
    BY <1>1, <1>5 DEF RetryInv
  <2>2. wrp_fsmState' \in {"WRP_TXGEN", "WRP_STREAM", "WRP_IDLE", "WRP_DRAIN"}
    BY <1>2, <1>5 DEF AfterSndRep
  <2>3. wrp_fsmState' = "WRP_DRAIN" => error = "NO_CONNECTION"
    BY <1>2, <1>5 DEF AfterSndRep
  <2> QED BY <1>2, <2>1, <2>2, <2>3, CountedZero DEF RetryInv, Asked, Counted
<1> QED BY <1>3, <1>4, <1>5

LEMMA RetryWRp == ASSUME FlowInv, RetryInv, WRp PROVE RetryInv'
<1> USE DEF WrpUnchanged, toeVars
<1>0. /\ wrp_fsmState # "WRP_RTS_REP" => siSHL_SndRep = << >>
      /\ toeNoSpace \in Nat
  BY DEF FlowInv, RequestInv, ToeTypes
<1>1. CASE WrpIdleTest \/ WrpIdleTaf
  <2>1. /\ wrp_fsmState = "WRP_IDLE" /\ siSHL_SndRep = << >> /\ siSHL_SndRep' = << >>
        /\ toeNoSpace' = toeNoSpace
        /\ \/ wrp_fsmState' = "WRP_RTS" /\ wrp_retryCnt' = RetryCnt
           \/ wrp_fsmState' = "WRP_IDLE" /\ wrp_retryCnt' = wrp_retryCnt
    BY <1>0, <1>1 DEF WrpIdleTest, WrpIdleTaf, WrpStart, sndVars
  <2>2. Counted(toeNoSpace, 0)
    BY <2>1 DEF RetryInv, Asked
  <2>3. wrp_fsmState' = "WRP_RTS" => Retried' = 0
    BY <2>1, TxDepthAssumption DEF Retried
  <2> QED BY <2>1, <2>2, <2>3 DEF RetryInv, Asked, Counted
<1>2. CASE WrpRts
  <2>1. /\ Asked /\ Asked' /\ siSHL_SndRep = << >>
        /\ UNCHANGED << siSHL_SndRep, toeNoSpace, wrp_retryCnt >>
    BY <1>0, <1>2 DEF WrpRts, Asked
  <2> QED BY <2>1 DEF RetryInv, Counted, Retried
<1>3. CASE WrpStream \/ WrpDrain \/ WrpTxGen
  <2>1. /\ ~Asked /\ ~Asked' /\ siSHL_SndRep = << >>
        /\ UNCHANGED << siSHL_SndRep, toeNoSpace >>
    BY <1>0, <1>3 DEF WrpStream, WrpDrain, WrpTxGen, WrpTakesChunk, Asked
  <2> QED BY <2>1 DEF RetryInv, Counted
<1> QED BY <1>1, <1>2, <1>3, RetryWrpRtsRep DEF WRp

LEMMA RetryNext == ASSUME FlowInv, RetryInv, [Next]_vars PROVE RetryInv'
<1>1. CASE UNCHANGED flow
  BY <1>1, RetrySame DEF flow, wrpVars, sndVars, retrySide
<1>2. CASE UNCHANGED vars
  BY <1>2, RetrySame DEF vars, wrpVars, sndVars, toeVars, retrySide
<1>3. ASSUME NEW s \in TafSessIds, NEW n \in DatLens, TafAnnounce(s, n)
      PROVE  RetryInv'
  BY <1>3, RetrySame DEF TafAnnounce, wrpVars, sndVars, toeVars, retrySide
<1>4. CASE TafChunk \/ ToeData
  BY <1>4, RetrySame DEF TafChunk, ToeData, wrpVars, sndVars, toeVars, retrySide
<1>5. ASSUME NEW error \in SndReplies, ToeSndRep(error)
      PROVE  RetryInv'
  BY <1>5, RetryToeSndRep
<1> QED BY <1>1, <1>2, <1>3, <1>4, <1>5, RetryWRp, FlowSideSame DEF Next, TOE

\* tcp_shell_if.cpp:1587-1608: WRp drains a segment of TAF only when its session is
\* not established or after RetryCnt + 1 refusals of that segment, whatever the TOE
\* answered to the requests before it and however often they were retried.
THEOREM RetriesComeFirst == Spec => GivesUpLate
<1>1. Init => RetryInv
  BY CountedZero DEF Init, RetryInv, Asked
<1>2. FlowInv /\ RetryInv /\ [Next]_vars => RetryInv'
  BY RetryNext
<1>3. FlowInv /\ RetryInv /\ [Next]_vars =>
        [wrp_fsmState = "WRP_RTS_REP" /\ wrp_fsmState' = "WRP_DRAIN"
           => \/ Head(siSHL_SndRep) = "NO_CONNECTION"
              \/ toeNoSpace > 0 /\ toeNoSpace % (RetryCnt + 1) = 0]_vars
  <2> SUFFICES ASSUME FlowInv, RetryInv, [Next]_vars,
                      wrp_fsmState = "WRP_RTS_REP", wrp_fsmState' = "WRP_DRAIN"
               PROVE  \/ Head(siSHL_SndRep) = "NO_CONNECTION"
                      \/ toeNoSpace > 0 /\ toeNoSpace % (RetryCnt + 1) = 0
    OBVIOUS
  <2>1. WrpRtsRep
    <3>1. wrp_fsmState' # wrp_fsmState
      OBVIOUS
    <3>2. \/ UNCHANGED << tafVars, wrp_fsmState >> \/ WRp
          \/ \E s \in TafSessIds, n \in DatLens : TafAnnounce(s, n)
          \/ TafChunk \/ ToeData \/ \E error \in SndReplies : ToeSndRep(error)
      BY FlowSideSame DEF Next, TOE, vars, wrpVars, flow
    <3>3. WRp
      BY <3>1, <3>2 DEF TafAnnounce, TafChunk, ToeData, ToeSndRep, wrpVars
    <3> QED BY <3>3 DEF WRp, WrpIdleTest, WrpIdleTaf, WrpRts, WrpStream, WrpDrain, WrpTxGen
  <2> QED BY <2>1, RetryWrpRtsRep
<1> QED BY <1>1, <1>2, <1>3, FlowHolds, PTL DEF Spec, GivesUpLate
=============================================================================
