---------------------------------- MODULE Udp ----------------------------------
(***************************************************************************)
(* The UDP half of the role: USIF and UAF between the same streams, under  *)
(* the enable bit they share.                                              *)
(***************************************************************************)
EXTENDS Usif, Uaf

VARIABLE interrupted  \* history: the bit was cleared while UAF held a datagram

allVars == << linkVars, usifVars, uafVars, interrupted >>

\* A datagram fits the data streams of its line: its length comes behind it.
ASSUME UdpFitsAssumption ==
  \A n \in DatLens, p \in Lines : n <= ARW_BYTES * cDepth_RXp_Data[p]

UdpInit == LinkInit /\ UsifInit /\ UafInit /\ interrupted = FALSE

-----------------------------------------------------------------------------
(* The host sets and clears the enable bit in the MMIO register.            *)

\* UAF has accepted a datagram that TXp has not started to send.
UafHolds ==
  \/ rdp_fsmState \in {"RDP_FWD_META", "RDP_FWD_STREAM"}
  \/ rxp_fsmState \in {"RXP_META", "RXP_DATA", "RXP_DLEN"}
  \/ ssUSIFToUAF_Meta # << >>
  \/ \E p \in Lines : ssRXp_Meta[p] # << >>
  \/ ssESfToTXp_Meta # << >>

MmioClear ==
  /\ piSHL_Enable
  /\ piSHL_Enable' = FALSE
  /\ interrupted' = (interrupted \/ UafHolds)

\* The host sets the bit long after it has cleared it: UAF has drained what it
\* can.  That it may be one invocation away from its idle state is too short
\* for RDp, which takes two before it writes to UAF.
MmioSet ==
  /\ ~piSHL_Enable
  /\ rxp_fsmState # "RXP_DRAIN_INPUT_FIFOS"
  /\ txp_fsmState # "TXP_DRAIN_INPUT_FIFOS" \/ txp_stalled # "NONE"
  /\ piSHL_Enable' = TRUE
  /\ UNCHANGED interrupted

Mmio == (MmioClear \/ MmioSet) /\ UNCHANGED << toUafVars, fromUafVars, usifVars, uafVars >>

UoeWrites == \E port \in DstPorts, n \in DatLens : UoeAnnounce(port, n)
UoeReads == UoeTakesMeta \/ UoeTakesData

USIF == (RDp \/ WRp) /\ UNCHANGED uafVars
UAF == (RXp \/ ESf \/ TXp) /\ UNCHANGED usifVars

UdpNext ==
  \/ Mmio
  \/ (UoeWrites \/ UoeData \/ UoeReads) /\ UNCHANGED << uafVars, interrupted >>
  \/ (USIF \/ UAF) /\ UNCHANGED interrupted

UdpSpec == UdpInit /\ [][UdpNext]_allVars

\* Every process is invoked again and again, and the UOE completes the
\* datagrams it announces and takes what it is sent.
UdpFairSpec ==
  /\ UdpSpec
  /\ WF_allVars(UoeData /\ UNCHANGED << uafVars, interrupted >>)
  /\ WF_allVars(UoeReads /\ UNCHANGED << uafVars, interrupted >>)
  /\ WF_allVars(RDp /\ UNCHANGED << uafVars, interrupted >>)
  /\ WF_allVars(WRp /\ UNCHANGED << uafVars, interrupted >>)
  /\ WF_allVars(RXp /\ UNCHANGED << usifVars, interrupted >>)
  /\ WF_allVars(ESf /\ UNCHANGED << usifVars, interrupted >>)
  /\ WF_allVars(TXp /\ UNCHANGED << usifVars, interrupted >>)

-----------------------------------------------------------------------------
(* Properties.                                                              *)

\* Every variable keeps its type.
TypeOK == LinkTypeOK /\ UsifTypeOK /\ UafTypeOK /\ interrupted \in BOOLEAN

\* The bytes the UOE sends after a metadata are those of the datagram it names,
\* the announced number of them, and TLAST comes with the last: echoes of the
\* two lines and generated datagrams never mix.  The length TXp sends is the
\* one RXp has counted, and clearing the bit while TXp or WRp is in the middle
\* of a datagram does no harm.
DatagramsExact ==
  ~interrupted /\ uoeDue > 0 /\ soSHL_Data # << >> =>
    LET chunk == Head(soSHL_Data)
    IN /\ chunk.dgm = uoeMeta.dgm
       /\ chunk.port = uoeMeta.src
       /\ chunk.len <= uoeDue
       /\ chunk.tlast <=> chunk.len = uoeDue

\* Where the bytes of a datagram that the role sends from a port belong.
Addressee(dgm, port) == IF port = XMIT_MODE_LSN_PORT THEN Targets[dgm] ELSE Senders[dgm]

\* Until an interruption the bytes the UOE sends go where they belong: those of an
\* echo to the sender of that very datagram, those of a test to the target that its
\* command names, and what came for port 8800 to nobody.  An interruption may leave
\* data in UAF that the next metadata takes for its own.
RightAddressee ==
  ~interrupted /\ uoeDue > 0 /\ soSHL_Data # << >> =>
    LET chunk == Head(soSHL_Data)
    IN /\ chunk.port # RECV_MODE_LSN_PORT
       /\ uoeMeta.dst = Addressee(chunk.dgm, chunk.port)

\* A generated datagram starts with GEN_CHK0 and alternates, and no other
\* datagram has such a chunk, while nothing was interrupted.
TestPattern ==
  ~interrupted /\ uoeDue > 0 /\ soSHL_Data # << >> =>
    Head(soSHL_Data).data =
      IF uoeMeta.src # XMIT_MODE_LSN_PORT THEN "RX"
      ELSE IF ((uoeMeta.dLen - uoeDue) \div ARW_BYTES) % 2 = 0 THEN "GEN_CHK0" ELSE "GEN_CHK1"

\* UAF implements the echo of two lines.
Echo == INSTANCE TafEcho WITH
  Paths <- Lines,
  LineOf <- LAMBDA chunk : EchoLine(chunk.port),
  in <- ssUSIFToUAF_Data,
  line <- [p \in Lines |-> IF p = "EPT" THEN ssRXp_Data["EPT"]
                           ELSE ssESfToTXp_Data \o ssRXp_Data["ESF"]],
  open <- IF txp_fsmState \in {"TXP_META", "TXP_DATA"} THEN txp_echoMode ELSE "NONE",
  out <- ssUAFToUSIF_Data

\* Until an interruption every step of the role is one of that echo: the
\* chunks of a line leave in the order they came, and a datagram owns the
\* output from its metadata to its last chunk.
EchoesInOrder == [][interrupted' \/ [Echo!Next]_Echo!vars]_allVars

UdpIdle ==
  /\ uoeLeft = 0 /\ siSHL_Meta = << >> /\ rdp_fsmState = "RDP_IDLE"
  /\ ~UafHolds /\ ssRDpToWRp_Req = << >>
  /\ txp_fsmState = "TXP_IDLE" /\ ssUAFToUSIF_Meta = << >> /\ wrp_fsmState = "WRP_IDLE"
  /\ soSHL_Meta = << >> /\ uoeDue <= 0 /\ soSHL_Data = << >>

\* While the role stays enabled, and was not interrupted before, every
\* datagram that comes is echoed, sunk or answered by a test: nothing stalls,
\* though RXp passes the length on only after the data.
AllAnswered == <>[]piSHL_Enable => <>[](interrupted \/ UdpIdle)

\* "Drain all the incoming FIFOs as long as MMIO control signal is disabled"
\* (udp_app_flash.cpp:302): with the signal enabled for good, TXp goes on.
DrainEnds ==
  <>[]piSHL_Enable => []<>(txp_fsmState # "TXP_DRAIN_INPUT_FIFOS")
=============================================================================
