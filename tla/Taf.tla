--------------------------------- MODULE Taf ---------------------------------
(***************************************************************************)
(* The TCP Application Flash of tcp_app_flash.cpp, which echoes the        *)
(* segments TSIF hands it: the processes Receive Path (RXp), Echo Store    *)
(* and Forward (ESf) and Transmit Path (TXp).                              *)
(*                                                                         *)
(*                  +---------> ESf ---------+                             *)
(*   TSIF/RDp --> RXp                       TXp --> TSIF/WRp               *)
(*                  +--------- (EPt) --------+                             *)
(*                                                                         *)
(* Every connection has a Data stream, and a SessId and a DatLen stream    *)
(* that are always read and written together: these are one stream of      *)
(* pairs here, called Meta.  The length of a segment counts its chunks.    *)
(* One invocation of a process is one step.  This is the code built        *)
(* without TAF_USE_NON_FIFO_IO, which no file of the repository defines.   *)
(***************************************************************************)
EXTENDS Streams

CONSTANTS
  SessIds,
  Lsb,                \* Lsb[s]: bit 0 of the session-id s
  DatLens,            \* the lengths of the segments, in chunks
  SegMod,             \* bound of the model: segments are numbered modulo SegMod
  cDepth_TSIF,        \* depth of the streams between TSIF and TAF
  cDepth_RXpToTXp_Data, cDepth_RXpToTXp_Meta,
  cDepth_RXpToESf_Data, cDepth_ESfToTXp_Data, cDepth_ESf_Meta

ASSUME TafSessAssumption == SessIds # {} /\ Lsb \in [SessIds -> {0, 1}]
ASSUME TafLenAssumption == DatLens \subseteq Nat \ {0}
ASSUME TafDepthAssumption ==
  {SegMod, cDepth_TSIF, cDepth_RXpToTXp_Data, cDepth_RXpToTXp_Meta, cDepth_RXpToESf_Data,
   cDepth_ESfToTXp_Data, cDepth_ESf_Meta} \subseteq Nat \ {0}

VARIABLES
  siTSIF_Data, siTSIF_Meta, rdpMeta, rdpLeft,        \* RDp, the writer
  rxp_fsmState, rxp_EchoCtrl,                        \* RXp
  ssRXpToTXp_Data, ssRXpToTXp_Meta, ssRXpToESf_Data, ssRXpToESf_Meta,
  ssESfToTXp_Data, ssESfToTXp_Meta,                  \* ESf
  txp_fsmState, txp_EchoCtrl,                        \* TXp
  soTSIF_Data, soTSIF_Meta, wrpMeta, wrpLeft         \* WRp, the reader

inVars == << siTSIF_Data, siTSIF_Meta, rdpMeta, rdpLeft >>
rxpVars == << rxp_fsmState, rxp_EchoCtrl >>
eptVars == << ssRXpToTXp_Data, ssRXpToTXp_Meta >>
esfInVars == << ssRXpToESf_Data, ssRXpToESf_Meta >>
esfOutVars == << ssESfToTXp_Data, ssESfToTXp_Meta >>
txpVars == << txp_fsmState, txp_EchoCtrl >>
outVars == << soTSIF_Data, soTSIF_Meta, wrpMeta, wrpLeft >>
vars == << inVars, rxpVars, eptVars, esfInVars, esfOutVars, txpVars, outVars >>

-----------------------------------------------------------------------------
Meta == [sessId : SessIds, datLen : Nat, seg : 0..(SegMod - 1)]
Chunk == [sessId : SessIds, seg : 0..(SegMod - 1), tlast : BOOLEAN]
Paths == {"ECHO_PATH_THRU", "ECHO_STORE_FWD"}

\* The line RXp puts the segments of session s on.
EchoCtrl(s) == IF Lsb[s] = 1 THEN "ECHO_PATH_THRU" ELSE "ECHO_STORE_FWD"

NoMeta == [sessId |-> CHOOSE s \in SessIds : TRUE, datLen |-> 0, seg |-> 0]

Init ==
  /\ siTSIF_Data = << >> /\ siTSIF_Meta = << >> /\ rdpMeta = NoMeta /\ rdpLeft = 0
  /\ rxp_fsmState = "RXP_START_OF_STREAM" /\ rxp_EchoCtrl = "ECHO_PATH_THRU"
  /\ ssRXpToTXp_Data = << >> /\ ssRXpToTXp_Meta = << >>
  /\ ssRXpToESf_Data = << >> /\ ssRXpToESf_Meta = << >>
  /\ ssESfToTXp_Data = << >> /\ ssESfToTXp_Meta = << >>
  /\ txp_fsmState = "TXP_START_OF_STREAM" /\ txp_EchoCtrl = "ECHO_PATH_THRU"
  /\ soTSIF_Data = << >> /\ soTSIF_Meta = << >> /\ wrpMeta = NoMeta /\ wrpLeft = 0

-----------------------------------------------------------------------------
(* The environment: TSIF.                                                   *)

\* RDp announces a segment (RDP_FWD_META), then writes its chunks.
RdpMeta(s, n) ==
  /\ rdpLeft = 0
  /\ HasRoom(siTSIF_Meta, cDepth_TSIF)
  /\ rdpMeta' = [sessId |-> s, datLen |-> n, seg |-> (rdpMeta.seg + 1) % SegMod]
  /\ siTSIF_Meta' = Append(siTSIF_Meta, rdpMeta')
  /\ rdpLeft' = n
  /\ UNCHANGED << siTSIF_Data, rxpVars, eptVars, esfInVars, esfOutVars, txpVars, outVars >>

RdpData ==
  /\ rdpLeft > 0
  /\ HasRoom(siTSIF_Data, cDepth_TSIF)
  /\ siTSIF_Data' = Append(siTSIF_Data, [sessId |-> rdpMeta.sessId, seg |-> rdpMeta.seg,
                                         tlast |-> rdpLeft = 1])
  /\ rdpLeft' = rdpLeft - 1
  /\ UNCHANGED << siTSIF_Meta, rdpMeta, rxpVars, eptVars, esfInVars, esfOutVars, txpVars,
                  outVars >>

\* WRp takes the metadata of a segment (WRP_IDLE), then its chunks up to TLAST.
WrpMeta ==
  /\ wrpLeft = 0
  /\ soTSIF_Meta # << >>
  /\ wrpMeta' = Head(soTSIF_Meta)
  /\ wrpLeft' = Head(soTSIF_Meta).datLen
  /\ soTSIF_Meta' = Dequeue(soTSIF_Meta)
  /\ UNCHANGED << inVars, rxpVars, eptVars, esfInVars, esfOutVars, txpVars, soTSIF_Data >>

WrpData ==
  /\ wrpLeft > 0
  /\ soTSIF_Data # << >>
  /\ wrpLeft' = IF Head(soTSIF_Data).tlast THEN 0 ELSE wrpLeft - 1
  /\ soTSIF_Data' = Dequeue(soTSIF_Data)
  /\ UNCHANGED << inVars, rxpVars, eptVars, esfInVars, esfOutVars, txpVars, soTSIF_Meta,
                  wrpMeta >>

-----------------------------------------------------------------------------
(* Receive Path.                                                            *)

RxpMayStart ==
  HasRoom(ssRXpToTXp_Meta, cDepth_RXpToTXp_Meta) /\ HasRoom(ssRXpToESf_Meta, cDepth_ESf_Meta)

RxpStart ==
  /\ rxp_fsmState = "RXP_START_OF_STREAM"
  /\ siTSIF_Meta # << >>
  /\ RxpMayStart
  /\ siTSIF_Meta' = Dequeue(siTSIF_Meta)
  /\ LET meta == Head(siTSIF_Meta)
     IN \/ /\ Lsb[meta.sessId] = 1
           /\ ssRXpToTXp_Meta' = Append(ssRXpToTXp_Meta, meta)
           /\ rxp_EchoCtrl' = "ECHO_PATH_THRU"
           /\ UNCHANGED ssRXpToESf_Meta
        \/ /\ Lsb[meta.sessId] = 0
           /\ ssRXpToESf_Meta' = Append(ssRXpToESf_Meta, meta)
           /\ rxp_EchoCtrl' = "ECHO_STORE_FWD"
           /\ UNCHANGED ssRXpToTXp_Meta
  /\ rxp_fsmState' = "RXP_CONTINUATION_OF_STREAM"
  /\ UNCHANGED << siTSIF_Data, rdpMeta, rdpLeft, ssRXpToTXp_Data, ssRXpToESf_Data,
                  esfOutVars, txpVars, outVars >>

\* Seeded fault: RXp goes back to its start after any chunk.
RxpAfter_Any(chunk) == "RXP_START_OF_STREAM"

RxpAfter(chunk) == IF chunk.tlast THEN "RXP_START_OF_STREAM" ELSE rxp_fsmState

RxpContinue ==
  /\ rxp_fsmState = "RXP_CONTINUATION_OF_STREAM"
  /\ siTSIF_Data # << >>
  /\ LET chunk == Head(siTSIF_Data)
     IN /\ \/ /\ rxp_EchoCtrl = "ECHO_PATH_THRU"
              /\ HasRoom(ssRXpToTXp_Data, cDepth_RXpToTXp_Data)
              /\ ssRXpToTXp_Data' = Append(ssRXpToTXp_Data, chunk)
              /\ UNCHANGED ssRXpToESf_Data
           \/ /\ rxp_EchoCtrl = "ECHO_STORE_FWD"
              /\ HasRoom(ssRXpToESf_Data, cDepth_RXpToESf_Data)
              /\ ssRXpToESf_Data' = Append(ssRXpToESf_Data, chunk)
              /\ UNCHANGED ssRXpToTXp_Data
        /\ rxp_fsmState' = RxpAfter(chunk)
  /\ siTSIF_Data' = Dequeue(siTSIF_Data)
  /\ UNCHANGED << siTSIF_Meta, rdpMeta, rdpLeft, rxp_EchoCtrl, ssRXpToTXp_Meta,
                  ssRXpToESf_Meta, esfOutVars, txpVars, outVars >>

RXp == RxpStart \/ RxpContinue

-----------------------------------------------------------------------------
(* Echo Store and Forward: one chunk and one metadata pair, each on its own *)
(* condition.                                                               *)

EsfMovesData == ssRXpToESf_Data # << >> /\ HasRoom(ssESfToTXp_Data, cDepth_ESfToTXp_Data)
EsfMovesMeta == ssRXpToESf_Meta # << >> /\ HasRoom(ssESfToTXp_Meta, cDepth_ESf_Meta)

ESf ==
  /\ EsfMovesData \/ EsfMovesMeta
  /\ IF EsfMovesData
     THEN /\ ssESfToTXp_Data' = Append(ssESfToTXp_Data, Head(ssRXpToESf_Data))
          /\ ssRXpToESf_Data' = Dequeue(ssRXpToESf_Data)
     ELSE UNCHANGED << ssESfToTXp_Data, ssRXpToESf_Data >>
  /\ IF EsfMovesMeta
     THEN /\ ssESfToTXp_Meta' = Append(ssESfToTXp_Meta, Head(ssRXpToESf_Meta))
          /\ ssRXpToESf_Meta' = Dequeue(ssRXpToESf_Meta)
     ELSE UNCHANGED << ssESfToTXp_Meta, ssRXpToESf_Meta >>
  /\ UNCHANGED << inVars, rxpVars, eptVars, txpVars, outVars >>

-----------------------------------------------------------------------------
(* Transmit Path.                                                           *)

\* The line TXp would take a segment from: EPt comes first, whatever
\* txp_EchoCtrl has been toggled to.
TxpNext ==
  IF ssRXpToTXp_Meta # << >> THEN "ECHO_PATH_THRU" ELSE "ECHO_STORE_FWD"

\* Seeded fault: the line is not noted when a segment starts.
TxpTakes_Toggled(p) == txp_EchoCtrl

\* The line whose chunks follow the metadata taken from line p.
TxpTakes(p) == p

TxpStart ==
  /\ txp_fsmState = "TXP_START_OF_STREAM"
  /\ HasRoom(soTSIF_Meta, cDepth_TSIF)
  /\ \/ /\ TxpNext = "ECHO_PATH_THRU"
        /\ soTSIF_Meta' = Append(soTSIF_Meta, Head(ssRXpToTXp_Meta))
        /\ ssRXpToTXp_Meta' = Dequeue(ssRXpToTXp_Meta)
        /\ UNCHANGED ssESfToTXp_Meta
     \/ /\ TxpNext = "ECHO_STORE_FWD"
        /\ ssESfToTXp_Meta # << >>
        /\ soTSIF_Meta' = Append(soTSIF_Meta, Head(ssESfToTXp_Meta))
        /\ ssESfToTXp_Meta' = Dequeue(ssESfToTXp_Meta)
        /\ UNCHANGED ssRXpToTXp_Meta
  /\ txp_EchoCtrl' = TxpTakes(TxpNext)
  /\ txp_fsmState' = "TXP_CONTINUATION_OF_STREAM"
  /\ UNCHANGED << inVars, rxpVars, ssRXpToTXp_Data, esfInVars, ssESfToTXp_Data,
                  soTSIF_Data, wrpMeta, wrpLeft >>

\* Seeded fault: the line keeps the output after the end of its segment.
TxpAfter_Kept(chunk) == UNCHANGED txpVars

\* Seeded fault: the toggle steps to the next value of the enumeration.
TxpAfter_Off(chunk) ==
  \/ ~chunk.tlast /\ UNCHANGED txpVars
  \/ /\ chunk.tlast
     /\ txp_fsmState' = "TXP_START_OF_STREAM"
     /\ txp_EchoCtrl' = IF txp_EchoCtrl = "ECHO_PATH_THRU" THEN "ECHO_STORE_FWD"
                        ELSE "ECHO_OFF"

\* After a chunk: the last one of a segment ends the stream, toggles the line.
TxpAfter(chunk) ==
  \/ ~chunk.tlast /\ UNCHANGED txpVars
  \/ /\ chunk.tlast
     /\ txp_fsmState' = "TXP_START_OF_STREAM"
     /\ txp_EchoCtrl' = IF txp_EchoCtrl = "ECHO_PATH_THRU" THEN "ECHO_STORE_FWD"
                        ELSE "ECHO_PATH_THRU"

TxpContinue ==
  /\ txp_fsmState = "TXP_CONTINUATION_OF_STREAM"
  /\ HasRoom(soTSIF_Data, cDepth_TSIF)
  /\ \/ /\ txp_EchoCtrl = "ECHO_PATH_THRU"
        /\ ssRXpToTXp_Data # << >>
        /\ soTSIF_Data' = Append(soTSIF_Data, Head(ssRXpToTXp_Data))
        /\ TxpAfter(Head(ssRXpToTXp_Data))
        /\ ssRXpToTXp_Data' = Dequeue(ssRXpToTXp_Data)
        /\ UNCHANGED ssESfToTXp_Data
     \/ /\ txp_EchoCtrl = "ECHO_STORE_FWD"
        /\ ssESfToTXp_Data # << >>
        /\ soTSIF_Data' = Append(soTSIF_Data, Head(ssESfToTXp_Data))
        /\ TxpAfter(Head(ssESfToTXp_Data))
        /\ ssESfToTXp_Data' = Dequeue(ssESfToTXp_Data)
        /\ UNCHANGED ssRXpToTXp_Data
  /\ UNCHANGED << inVars, rxpVars, ssRXpToTXp_Meta, esfInVars, ssESfToTXp_Meta,
                  soTSIF_Meta, wrpMeta, wrpLeft >>

TXp == TxpStart \/ TxpContinue

-----------------------------------------------------------------------------
TsifWrites == \E s \in SessIds, n \in DatLens : RdpMeta(s, n)
TsifReads == WrpMeta \/ WrpData

Next == TsifWrites \/ RdpData \/ TsifReads \/ RXp \/ ESf \/ TXp

Spec == Init /\ [][Next]_vars

\* TAF has no enable bit: its processes are always invoked.  RDp finishes a
\* segment it has begun and WRp keeps reading; no segment need ever arrive.
FairSpec ==
  /\ Spec
  /\ WF_vars(RdpData) /\ WF_vars(TsifReads)
  /\ WF_vars(RXp) /\ WF_vars(ESf) /\ WF_vars(TXp)

-----------------------------------------------------------------------------
(* Properties.                                                              *)

\* Every variable keeps its type.
TypeOK ==
  /\ rdpMeta \in Meta /\ wrpMeta \in Meta /\ rdpLeft \in Nat /\ wrpLeft \in Int
  /\ {siTSIF_Meta, ssRXpToTXp_Meta, ssRXpToESf_Meta, ssESfToTXp_Meta, soTSIF_Meta}
       \subseteq Seq(Meta)
  /\ {siTSIF_Data, ssRXpToTXp_Data, ssRXpToESf_Data, ssESfToTXp_Data, soTSIF_Data}
       \subseteq Seq(Chunk)
  /\ rxp_fsmState \in {"RXP_START_OF_STREAM", "RXP_CONTINUATION_OF_STREAM"}
  /\ txp_fsmState \in {"TXP_START_OF_STREAM", "TXP_CONTINUATION_OF_STREAM"}
  /\ rxp_EchoCtrl \in Paths /\ txp_EchoCtrl \in Paths

\* What WRp reads after a {SessId, DatLen} pair is that segment, whole: the
\* metadata and the data, which cross TAF in different streams and on two
\* lines, meet again, and TLAST comes with the last of the DatLen chunks.
EchoAligned ==
  wrpLeft > 0 /\ soTSIF_Data # << >>
    => LET chunk == Head(soTSIF_Data)
       IN /\ chunk.sessId = wrpMeta.sessId
          /\ chunk.seg = wrpMeta.seg
          /\ chunk.tlast <=> wrpLeft = 1

\* TAF implements the echo of two lines.
ChunkLine(chunk) == EchoCtrl(chunk.sessId)

Echo == INSTANCE TafEcho WITH
  LineOf <- ChunkLine,
  in <- siTSIF_Data,
  line <- [p \in Paths |-> IF p = "ECHO_PATH_THRU" THEN ssRXpToTXp_Data
                           ELSE ssESfToTXp_Data \o ssRXpToESf_Data],
  open <- IF txp_fsmState = "TXP_START_OF_STREAM" THEN "NONE" ELSE txp_EchoCtrl,
  out <- soTSIF_Data

\* The chunks of a line leave in the order they came, and the segments of the
\* two lines are never mixed.
EchoesInOrder == Echo!Spec

\* RXp never stays in the middle of a segment: the line it writes to drains
\* even when the other one is full, so neither line blocks the other for ever.
RxpCompletes ==
  rxp_fsmState = "RXP_CONTINUATION_OF_STREAM" ~> rxp_fsmState = "RXP_START_OF_STREAM"
=============================================================================
