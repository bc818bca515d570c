---------------------------------- MODULE Uaf ----------------------------------
(***************************************************************************)
(* The UDP Application Flash of udp_app_flash.cpp, which echoes the        *)
(* datagrams USIF hands it: the processes Receive Path (RXp), Echo Store   *)
(* and Forward (ESf) and Transmit Path (TXp).                              *)
(*                                                                         *)
(*                  +---------> ESf ---------+                             *)
(*   USIF/RDp --> RXp                       TXp --> USIF/WRp               *)
(*                  +--------- (EPt) --------+                             *)
(*                                                                         *)
(* The states and streams that the code has twice, with EPT and with ESF   *)
(* in their names, are one here with the line as an index:                 *)
(* ssRXp_Data["EPT"] is ssRXpToTXp_Data, ssRXp_Data["ESF"] ssRXpToESf_Data.*)
(* The metadata and the length that ESf moves together are one stream.     *)
(* The comparison of the counted length with the announced one only traces.*)
(***************************************************************************)
EXTENDS UdpLink

CONSTANTS
  cDepth_RXp_Data, cDepth_RXp_Meta,         \* indexed by the line
  cDepth_ESfToTXp_Data, cDepth_ESfToTXp_Meta

Lines == {"EPT", "ESF"}

ASSUME UafDepthAssumption ==
  /\ cDepth_RXp_Data \in [Lines -> Nat \ {0}] /\ cDepth_RXp_Meta \in [Lines -> Nat \ {0}]
  /\ {cDepth_ESfToTXp_Data, cDepth_ESfToTXp_Meta} \subseteq Nat \ {0}

VARIABLES
  rxp_fsmState, rxp_echoMode, rxp_appMeta, rxp_byteCnt,    \* RXp
  ssRXp_Data, ssRXp_Meta, ssRXp_DLen,
  ssESfToTXp_Data, ssESfToTXp_Meta,                        \* ESf
  txp_fsmState, txp_echoMode, txp_appMeta, txp_lenCnt,     \* TXp
  txp_stalled         \* the stream whose read blocks TXp, or "NONE"

rxpVars == << rxp_fsmState, rxp_echoMode, rxp_appMeta, rxp_byteCnt >>
rxpOutVars == << ssRXp_Data, ssRXp_Meta, ssRXp_DLen >>
esfOutVars == << ssESfToTXp_Data, ssESfToTXp_Meta >>
txpVars == << txp_fsmState, txp_echoMode, txp_appMeta, txp_lenCnt, txp_stalled >>
uafVars == << rxpVars, rxpOutVars, esfOutVars, txpVars >>

UafInit ==
  /\ rxp_fsmState = "RXP_IDLE" /\ rxp_echoMode = "EPT" /\ rxp_byteCnt = 0
  /\ rxp_appMeta = [dgm |-> 0, src |-> AnyHost, dst |-> AnyHost]
  /\ ssRXp_Data = [p \in Lines |-> << >>]
  /\ ssRXp_Meta = [p \in Lines |-> << >>]
  /\ ssRXp_DLen = [p \in Lines |-> << >>]
  /\ ssESfToTXp_Data = << >> /\ ssESfToTXp_Meta = << >>
  /\ txp_fsmState = "TXP_IDLE" /\ txp_echoMode = "EPT" /\ txp_lenCnt = 0
  /\ txp_appMeta = [dgm |-> 0, src |-> AnyHost, dst |-> AnyHost, dLen |-> 0]
  /\ txp_stalled = "NONE"

-----------------------------------------------------------------------------
(* Receive Path.                                                            *)

RXpUnchanged == UNCHANGED << piSHL_Enable, fromUafVars, esfOutVars, txpVars >>

\* The line of the datagrams for a port.
EchoLine(port) == IF port = ECHO_PATH_THRU_PORT THEN "EPT" ELSE "ESF"

\* Without the enable bit RXp leaves its idle state to drain its inputs.
RxpDisabled ==
  /\ rxp_fsmState = "RXP_IDLE"
  /\ ~piSHL_Enable
  /\ rxp_fsmState' = "RXP_DRAIN_INPUT_FIFOS"
  /\ UNCHANGED << rxp_echoMode, rxp_appMeta, rxp_byteCnt, toUafVars, rxpOutVars >>
  /\ RXpUnchanged

RxpDrain ==
  /\ rxp_fsmState = "RXP_DRAIN_INPUT_FIFOS"
  /\ CASE ssUSIFToUAF_Data # << >> ->
            /\ ssUSIFToUAF_Data' = Dequeue(ssUSIFToUAF_Data)
            /\ UNCHANGED << ssUSIFToUAF_Meta, ssUSIFToUAF_DLen, rxp_fsmState >>
       [] ssUSIFToUAF_Data = << >> /\ ssUSIFToUAF_Meta # << >> ->
            /\ ssUSIFToUAF_Meta' = Dequeue(ssUSIFToUAF_Meta)
            /\ UNCHANGED << ssUSIFToUAF_Data, ssUSIFToUAF_DLen, rxp_fsmState >>
       [] ssUSIFToUAF_Data = << >> /\ ssUSIFToUAF_Meta = << >> /\ ssUSIFToUAF_DLen # << >> ->
            /\ ssUSIFToUAF_DLen' = Dequeue(ssUSIFToUAF_DLen)
            /\ UNCHANGED << ssUSIFToUAF_Data, ssUSIFToUAF_Meta, rxp_fsmState >>
       [] OTHER -> rxp_fsmState' = "RXP_IDLE" /\ UNCHANGED toUafVars
  /\ UNCHANGED << rxp_echoMode, rxp_appMeta, rxp_byteCnt, rxpOutVars >>
  /\ RXpUnchanged

\* Seeded fault: the count of the bytes goes on from the last datagram.
RxpByteCnt_Kept == rxp_byteCnt

\* The count of the bytes when a datagram starts.
RxpByteCnt == 0

RxpIdle ==
  /\ rxp_fsmState = "RXP_IDLE"
  /\ piSHL_Enable
  /\ ssUSIFToUAF_Meta # << >>
  /\ ssUSIFToUAF_DLen # << >>
  /\ rxp_appMeta' = Head(ssUSIFToUAF_Meta)
  /\ rxp_echoMode' = EchoLine(rxp_appMeta'.dst)
  /\ rxp_byteCnt' = RxpByteCnt
  /\ rxp_fsmState' = "RXP_META"
  /\ ssUSIFToUAF_Meta' = Dequeue(ssUSIFToUAF_Meta)
  /\ ssUSIFToUAF_DLen' = Dequeue(ssUSIFToUAF_DLen)
  /\ UNCHANGED << ssUSIFToUAF_Data, rxpOutVars >>
  /\ RXpUnchanged

RxpMeta ==
  /\ rxp_fsmState = "RXP_META"
  /\ HasRoom(ssRXp_Meta[rxp_echoMode], cDepth_RXp_Meta[rxp_echoMode])
  /\ ssRXp_Meta' = [ssRXp_Meta EXCEPT ![rxp_echoMode] = Append(@, rxp_appMeta)]
  /\ rxp_fsmState' = "RXP_DATA"
  /\ UNCHANGED << rxp_echoMode, rxp_appMeta, rxp_byteCnt, toUafVars, ssRXp_Data, ssRXp_DLen >>
  /\ RXpUnchanged

RxpData ==
  /\ rxp_fsmState = "RXP_DATA"
  /\ ssUSIFToUAF_Data # << >>
  /\ HasRoom(ssRXp_Data[rxp_echoMode], cDepth_RXp_Data[rxp_echoMode])
  /\ LET chunk == Head(ssUSIFToUAF_Data)
     IN /\ ssRXp_Data' = [ssRXp_Data EXCEPT ![rxp_echoMode] = Append(@, chunk)]
        /\ rxp_byteCnt' = rxp_byteCnt + chunk.len
        /\ rxp_fsmState' = IF chunk.tlast THEN "RXP_DLEN" ELSE rxp_fsmState
  /\ ssUSIFToUAF_Data' = Dequeue(ssUSIFToUAF_Data)
  /\ UNCHANGED << rxp_echoMode, rxp_appMeta, ssUSIFToUAF_Meta, ssUSIFToUAF_DLen, ssRXp_Meta,
                  ssRXp_DLen >>
  /\ RXpUnchanged

\* The length that is forwarded is the one counted, once the data is through.
RxpDLen ==
  /\ rxp_fsmState = "RXP_DLEN"
  /\ HasRoom(ssRXp_DLen[rxp_echoMode], cDepth_RXp_Meta[rxp_echoMode])
  /\ ssRXp_DLen' = [ssRXp_DLen EXCEPT ![rxp_echoMode] = Append(@, rxp_byteCnt)]
  /\ rxp_fsmState' = "RXP_IDLE"
  /\ UNCHANGED << rxp_echoMode, rxp_appMeta, rxp_byteCnt, toUafVars, ssRXp_Data, ssRXp_Meta >>
  /\ RXpUnchanged

RXp == RxpDisabled \/ RxpDrain \/ RxpIdle \/ RxpMeta \/ RxpData \/ RxpDLen

-----------------------------------------------------------------------------
(* Echo Store and Forward: one chunk, and one metadata with its length,     *)
(* each on its own condition.                                               *)

EsfMovesData ==
  ssRXp_Data["ESF"] # << >> /\ HasRoom(ssESfToTXp_Data, cDepth_ESfToTXp_Data)
EsfMovesMeta ==
  /\ ssRXp_Meta["ESF"] # << >> /\ ssRXp_DLen["ESF"] # << >>
  /\ HasRoom(ssESfToTXp_Meta, cDepth_ESfToTXp_Meta)

ESf ==
  /\ piSHL_Enable
  /\ EsfMovesData \/ EsfMovesMeta
  /\ IF EsfMovesData
     THEN /\ ssESfToTXp_Data' = Append(ssESfToTXp_Data, Head(ssRXp_Data["ESF"]))
          /\ ssRXp_Data' = [ssRXp_Data EXCEPT !["ESF"] = Dequeue(@)]
     ELSE UNCHANGED << ssESfToTXp_Data, ssRXp_Data >>
  /\ IF EsfMovesMeta
     THEN /\ LET meta == Head(ssRXp_Meta["ESF"])
             IN ssESfToTXp_Meta' =
                  Append(ssESfToTXp_Meta, [dgm |-> meta.dgm, src |-> meta.src,
                                           dst |-> meta.dst, dLen |-> Head(ssRXp_DLen["ESF"])])
          /\ ssRXp_Meta' = [ssRXp_Meta EXCEPT !["ESF"] = Dequeue(@)]
          /\ ssRXp_DLen' = [ssRXp_DLen EXCEPT !["ESF"] = Dequeue(@)]
     ELSE UNCHANGED << ssESfToTXp_Meta, ssRXp_Meta, ssRXp_DLen >>
  /\ UNCHANGED << linkVars, rxpVars, txpVars >>

-----------------------------------------------------------------------------
(* Transmit Path.                                                           *)

TXpUnchanged == UNCHANGED << piSHL_Enable, toUafVars, rxpVars >>

\* A datagram starts: its mode and its count come from its length.  (The code
\* loads the count in every invocation of TXP_IDLE; nothing reads it there.)
TxpStart(line, meta, dLen) ==
  /\ txp_appMeta' = [dgm |-> meta.dgm, src |-> meta.src, dst |-> meta.dst, dLen |-> dLen]
  /\ txp_echoMode' = line
  /\ txp_lenCnt' = dLen
  /\ txp_fsmState' = "TXP_META"

TxpDisabled ==
  /\ txp_fsmState = "TXP_IDLE"
  /\ ~piSHL_Enable
  /\ txp_fsmState' = "TXP_DRAIN_INPUT_FIFOS"
  /\ UNCHANGED << txp_echoMode, txp_appMeta, txp_lenCnt, txp_stalled, rxpOutVars, esfOutVars,
                  fromUafVars >>
  /\ TXpUnchanged

EPtWaits == ssRXp_Meta["EPT"] # << >> /\ ssRXp_DLen["EPT"] # << >>

TxpIdleEPt ==
  /\ txp_fsmState = "TXP_IDLE"
  /\ piSHL_Enable
  /\ EPtWaits
  /\ TxpStart("EPT", Head(ssRXp_Meta["EPT"]), Head(ssRXp_DLen["EPT"]))
  /\ ssRXp_Meta' = [ssRXp_Meta EXCEPT !["EPT"] = Dequeue(@)]
  /\ ssRXp_DLen' = [ssRXp_DLen EXCEPT !["EPT"] = Dequeue(@)]
  /\ UNCHANGED << ssRXp_Data, esfOutVars, fromUafVars, txp_stalled >>
  /\ TXpUnchanged

TxpIdleESf ==
  /\ txp_fsmState = "TXP_IDLE"
  /\ piSHL_Enable
  /\ ~EPtWaits
  /\ ssESfToTXp_Meta # << >>
  /\ TxpStart("ESF", Head(ssESfToTXp_Meta), Head(ssESfToTXp_Meta).dLen)
  /\ ssESfToTXp_Meta' = Dequeue(ssESfToTXp_Meta)
  /\ UNCHANGED << rxpOutVars, ssESfToTXp_Data, fromUafVars, txp_stalled >>
  /\ TXpUnchanged

\* "Swap IP_SA/IP_DA as well as UPD_SP/UDP_DP".
Swapped(meta) == [meta EXCEPT !.src = meta.dst, !.dst = meta.src]

TxpMeta ==
  /\ txp_fsmState = "TXP_META"
  /\ HasRoom(ssUAFToUSIF_Meta, cDepth_UAF)
  /\ ssUAFToUSIF_Meta' = Append(ssUAFToUSIF_Meta, Swapped(txp_appMeta))
  /\ txp_fsmState' = "TXP_DATA"
  /\ UNCHANGED << txp_echoMode, txp_appMeta, txp_lenCnt, txp_stalled, rxpOutVars, esfOutVars,
                  ssUAFToUSIF_Data >>
  /\ TXpUnchanged

\* Seeded faults: any chunk ends the datagram; its last byte does not.
TxpEnds_Any(chunk) == TRUE
TxpEnds_Never(chunk) == txp_lenCnt - chunk.len < 0

\* A chunk ends the datagram: by its length, or, when that is 0, by TLAST.
TxpEnds(chunk) == chunk.tlast \/ (txp_appMeta.dLen # 0 /\ txp_lenCnt - chunk.len <= 0)

\* TXp sends a chunk of its line: TLAST stays only on a chunk that ends it.
TxpSends(chunk) ==
  /\ HasRoom(ssUAFToUSIF_Data, cDepth_UAF)
  /\ ssUAFToUSIF_Data' = Append(ssUAFToUSIF_Data, chunk)
  /\ txp_lenCnt' = IF txp_appMeta.dLen = 0 THEN txp_lenCnt + chunk.len
                   ELSE txp_lenCnt - chunk.len
  /\ txp_fsmState' = IF TxpEnds(chunk) THEN "TXP_IDLE" ELSE txp_fsmState

TxpData ==
  /\ txp_fsmState = "TXP_DATA"
  /\ \/ /\ txp_echoMode = "EPT"
        /\ ssRXp_Data["EPT"] # << >>
        /\ TxpSends(Head(ssRXp_Data["EPT"]))
        /\ ssRXp_Data' = [ssRXp_Data EXCEPT !["EPT"] = Dequeue(@)]
        /\ UNCHANGED ssESfToTXp_Data
     \/ /\ txp_echoMode = "ESF"
        /\ ssESfToTXp_Data # << >>
        /\ TxpSends(Head(ssESfToTXp_Data))
        /\ ssESfToTXp_Data' = Dequeue(ssESfToTXp_Data)
        /\ UNCHANGED ssRXp_Data
  /\ UNCHANGED << txp_echoMode, txp_appMeta, txp_stalled, ssRXp_Meta, ssRXp_DLen,
                  ssESfToTXp_Meta, ssUAFToUSIF_Meta >>
  /\ TXpUnchanged

\* The stream of the pass-through line that the drain reads, "NONE" when it
\* finds its six streams empty.  The last four branches of the code test one
\* stream and read another.
TxpDrains ==
  CASE ssRXp_Data["EPT"] # << >> -> "EPt_Data"
    [] ssRXp_Data["EPT"] = << >> /\ ssRXp_Meta["EPT"] \o ssRXp_DLen["EPT"] # << >> -> "EPt_Meta"
    [] ssRXp_Data["EPT"] \o ssRXp_Meta["EPT"] \o ssRXp_DLen["EPT"] = << >> ->
         IF ssESfToTXp_Data # << >> THEN "EPt_Data"
         ELSE IF ssESfToTXp_Meta # << >> THEN "EPt_Meta" ELSE "NONE"

\* The stream that TXp reads, or waits for.
TxpReads == IF txp_stalled = "NONE" THEN TxpDrains ELSE txp_stalled

TxpDrainData ==
  /\ TxpReads = "EPt_Data" /\ ssRXp_Data["EPT"] # << >>
  /\ ssRXp_Data' = [ssRXp_Data EXCEPT !["EPT"] = Dequeue(@)]
  /\ txp_stalled' = "NONE"
  /\ UNCHANGED << ssRXp_Meta, txp_fsmState >>

TxpDrainMeta ==
  /\ TxpReads = "EPt_Meta" /\ ssRXp_Meta["EPT"] # << >>
  /\ ssRXp_Meta' = [ssRXp_Meta EXCEPT !["EPT"] = Dequeue(@)]
  /\ txp_stalled' = "NONE"
  /\ UNCHANGED << ssRXp_Data, txp_fsmState >>

\* A read of an empty stream blocks.
TxpDrainStalls ==
  /\ txp_stalled = "NONE"
  /\ \/ TxpDrains = "EPt_Data" /\ ssRXp_Data["EPT"] = << >>
     \/ TxpDrains = "EPt_Meta" /\ ssRXp_Meta["EPT"] = << >>
  /\ txp_stalled' = TxpDrains
  /\ UNCHANGED << ssRXp_Data, ssRXp_Meta, txp_fsmState >>

TxpDrainEnds ==
  /\ TxpReads = "NONE"
  /\ txp_fsmState' = "TXP_IDLE"
  /\ UNCHANGED << ssRXp_Data, ssRXp_Meta, txp_stalled >>

TxpDrain ==
  /\ txp_fsmState = "TXP_DRAIN_INPUT_FIFOS"
  /\ TxpDrainData \/ TxpDrainMeta \/ TxpDrainStalls \/ TxpDrainEnds
  /\ UNCHANGED << txp_echoMode, txp_appMeta, txp_lenCnt, ssRXp_DLen, esfOutVars, fromUafVars >>
  /\ TXpUnchanged

TXp == TxpDisabled \/ TxpIdleEPt \/ TxpIdleESf \/ TxpMeta \/ TxpData \/ TxpDrain

-----------------------------------------------------------------------------
UafTypeOK ==
  /\ rxp_fsmState \in {"RXP_IDLE", "RXP_META", "RXP_DATA", "RXP_DLEN",
                       "RXP_DRAIN_INPUT_FIFOS"}
  /\ rxp_echoMode \in Lines /\ rxp_byteCnt \in Nat
  /\ ssRXp_Data \in [Lines -> Seq(Chunk)]
  /\ ssRXp_Meta \in [Lines -> Seq(Meta)] /\ ssRXp_DLen \in [Lines -> Seq(Nat)]
  /\ ssESfToTXp_Data \in Seq(Chunk) /\ ssESfToTXp_Meta \in Seq(MetaDLen)
  /\ txp_fsmState \in {"TXP_IDLE", "TXP_META", "TXP_DATA", "TXP_DRAIN_INPUT_FIFOS"}
  /\ txp_echoMode \in Lines /\ txp_lenCnt \in Int
  /\ txp_stalled \in {"NONE", "EPt_Data", "EPt_Meta"}
=============================================================================
