------------------------------- MODULE UdpLink -------------------------------
(***************************************************************************)
(* What the UDP Shell Interface (USIF) and the UDP Application Flash (UAF) *)
(* share: the enable bit, the streams between them and the messages.       *)
(*                                                                         *)
(*   UOE --> USIF/RDp --Data, Meta, DLen--> UAF/RXp ...                    *)
(*   UOE <-- USIF/WRp <---Data, Meta(DLen)-- UAF/TXp                       *)
(*                                                                         *)
(* A metadata and a length that are always written and read together are   *)
(* one message here, with a field dLen.  The wires between USIF and UAF go *)
(* through register slices of Role.vhdl, which count for the depth.        *)
(***************************************************************************)
EXTENDS Streams

CONSTANTS
  DstPorts,           \* the ports the datagrams received are sent to
  DatLens,            \* the lengths of the datagrams received, in bytes
  TxCounts,           \* the byte counts of test commands
  Hosts,              \* the sockets of other hosts
  Senders, Targets,   \* by datagram: where it comes from, what its test command names
  MaxDgms,            \* bound of the model: datagrams received in a behaviour
  cDepth_SHELL,       \* depth of the streams between the SHELL and USIF
  cDepth_UAF          \* depth of the streams between USIF and UAF

ARW_BYTES == 8

RECV_MODE_LSN_PORT == 8800
XMIT_MODE_LSN_PORT == 8801
ECHO_PATH_THRU_PORT == 8803

ASSUME UdpPortAssumption == DstPorts \subseteq Nat
ASSUME UdpLenAssumption == DatLens \subseteq Nat \ {0} /\ TxCounts \subseteq Nat \ {0}
ASSUME UdpDepthAssumption ==
  MaxDgms \in Nat /\ {cDepth_SHELL, cDepth_UAF} \subseteq Nat \ {0}
ASSUME UdpHostAssumption ==
  Hosts # {} /\ Senders \in [1..MaxDgms -> Hosts] /\ Targets \in [1..MaxDgms -> Hosts]

VARIABLES
  piSHL_Enable,                                            \* the MMIO enable bit
  ssUSIFToUAF_Data, ssUSIFToUAF_Meta, ssUSIFToUAF_DLen,    \* written by RDp
  ssUAFToUSIF_Data, ssUAFToUSIF_Meta                       \* written by TXp

toUafVars == << ssUSIFToUAF_Data, ssUSIFToUAF_Meta, ssUSIFToUAF_DLen >>
fromUafVars == << ssUAFToUSIF_Data, ssUAFToUSIF_Meta >>
linkVars == << piSHL_Enable, toUafVars, fromUafVars >>

-----------------------------------------------------------------------------
(* A datagram is named by the order of its arrival; the one that a test     *)
(* command generates has the name of the command.  A socket of the role is  *)
(* named by its port.                                                       *)

Socks == DstPorts \cup Hosts
AnyHost == CHOOSE h \in Hosts : TRUE
Meta == [dgm : 1..MaxDgms, src : Socks, dst : Socks]
MetaDLen == [dgm : 1..MaxDgms, src : Socks, dst : Socks, dLen : Nat]
Payloads == {"RX", "GEN_CHK0", "GEN_CHK1"}
Chunk == [dgm : 1..MaxDgms, port : DstPorts, data : Payloads, len : 1..ARW_BYTES,
          tlast : BOOLEAN]

LenOfChunk(left) == IF left > ARW_BYTES THEN ARW_BYTES ELSE left

\* The next chunk of a datagram of which 'left' bytes remain.
ChunkOf(dgm, port, data, left) ==
  [dgm |-> dgm, port |-> port, data |-> data, len |-> LenOfChunk(left),
   tlast |-> left <= ARW_BYTES]

LinkInit ==
  /\ piSHL_Enable = FALSE
  /\ ssUSIFToUAF_Data = << >> /\ ssUSIFToUAF_Meta = << >> /\ ssUSIFToUAF_DLen = << >>
  /\ ssUAFToUSIF_Data = << >> /\ ssUAFToUSIF_Meta = << >>

LinkTypeOK ==
  /\ piSHL_Enable \in BOOLEAN
  /\ ssUSIFToUAF_Data \in Seq(Chunk) /\ ssUAFToUSIF_Data \in Seq(Chunk)
  /\ ssUSIFToUAF_Meta \in Seq(Meta) /\ ssUSIFToUAF_DLen \in Seq(Nat)
  /\ ssUAFToUSIF_Meta \in Seq(MetaDLen)
=============================================================================
