--------------------------------- MODULE Usif ---------------------------------
(***************************************************************************)
(* The read and the write path of the UDP Shell Interface of               *)
(* udp_shell_if.cpp (RDp and WRp), with the UDP Offload Engine (UOE) of    *)
(* the SHELL as their environment.  One invocation of a process is one     *)
(* step.  pListen and pClose are modelled in UsifListen.                   *)
(***************************************************************************)
EXTENDS UdpLink

VARIABLES
  siSHL_Data, siSHL_Meta, uoeDgms, uoeLeft, uoePort,     \* the UOE, the writer
  rdp_fsmState, rdp_appMeta,                             \* RDp
  ssRDpToWRp_Req,     \* ssRDpToWRp_SockPair and ssRDpToWRp_DReq
  wrp_fsmState, wrp_genChunk, wrp_appDReq, wrp_dgm,      \* WRp
  soSHL_Data, soSHL_Meta, uoeMeta, uoeDue    \* the UOE, the reader

uoeInVars == << siSHL_Data, siSHL_Meta, uoeDgms, uoeLeft, uoePort >>
rdpVars == << rdp_fsmState, rdp_appMeta >>
wrpVars == << wrp_fsmState, wrp_genChunk, wrp_appDReq, wrp_dgm >>
uoeOutVars == << uoeMeta, uoeDue >>
usifVars == << uoeInVars, rdpVars, ssRDpToWRp_Req, wrpVars, soSHL_Data, soSHL_Meta,
               uoeOutVars >>

cDepth_RDpToWRp == 2

NoDgm == [dgm |-> 0, src |-> AnyHost, dst |-> AnyHost, dLen |-> 0]

UsifInit ==
  /\ siSHL_Data = << >> /\ siSHL_Meta = << >>
  /\ uoeDgms = 0 /\ uoeLeft = 0 /\ uoePort = ECHO_PATH_THRU_PORT
  /\ rdp_fsmState = "RDP_IDLE" /\ rdp_appMeta = NoDgm
  /\ ssRDpToWRp_Req = << >>
  /\ wrp_fsmState = "WRP_IDLE" /\ wrp_genChunk = "GEN_CHK0" /\ wrp_appDReq = 0 /\ wrp_dgm = 0
  /\ soSHL_Data = << >> /\ soSHL_Meta = << >>
  /\ uoeMeta = NoDgm /\ uoeDue = 0

-----------------------------------------------------------------------------
(* The environment: the UOE.                                                *)

\* A datagram of n bytes has come for a port.
UoeAnnounce(port, n) ==
  /\ uoeLeft = 0 /\ uoeDgms < MaxDgms
  /\ HasRoom(siSHL_Meta, cDepth_SHELL)
  /\ uoeDgms' = uoeDgms + 1 /\ uoeLeft' = n /\ uoePort' = port
  /\ siSHL_Meta' = Append(siSHL_Meta, [dgm |-> uoeDgms', src |-> Senders[uoeDgms'],
                                       dst |-> port, dLen |-> n])
  /\ UNCHANGED << siSHL_Data, rdpVars, ssRDpToWRp_Req, wrpVars, soSHL_Data, soSHL_Meta,
                  uoeOutVars, linkVars >>

UoeData ==
  /\ uoeLeft > 0
  /\ HasRoom(siSHL_Data, cDepth_SHELL)
  /\ siSHL_Data' = Append(siSHL_Data, ChunkOf(uoeDgms, uoePort, "RX", uoeLeft))
  /\ uoeLeft' = uoeLeft - LenOfChunk(uoeLeft)
  /\ UNCHANGED << siSHL_Meta, uoeDgms, uoePort, rdpVars, ssRDpToWRp_Req, wrpVars,
                  soSHL_Data, soSHL_Meta, uoeOutVars, linkVars >>

\* The UOE takes the metadata of a datagram to send, then its bytes.
UoeTakesMeta ==
  /\ uoeDue <= 0
  /\ soSHL_Meta # << >>
  /\ uoeMeta' = Head(soSHL_Meta)
  /\ uoeDue' = Head(soSHL_Meta).dLen
  /\ soSHL_Meta' = Dequeue(soSHL_Meta)
  /\ UNCHANGED << uoeInVars, rdpVars, ssRDpToWRp_Req, wrpVars, soSHL_Data, linkVars >>

UoeTakesData ==
  /\ uoeDue > 0
  /\ soSHL_Data # << >>
  /\ uoeDue' = IF Head(soSHL_Data).tlast THEN 0 ELSE uoeDue - Head(soSHL_Data).len
  /\ soSHL_Data' = Dequeue(soSHL_Data)
  /\ UNCHANGED << uoeInVars, rdpVars, ssRDpToWRp_Req, wrpVars, soSHL_Meta, uoeMeta,
                  linkVars >>

-----------------------------------------------------------------------------
(* Read Path.                                                               *)

RDpUnchanged ==
  UNCHANGED << piSHL_Enable, fromUafVars, uoeDgms, uoeLeft, uoePort, wrpVars, soSHL_Data,
               soSHL_Meta, uoeOutVars >>

\* Seeded fault: the switch on the port without its 8801 case.
RdpTask_No8801(port) ==
  IF port = RECV_MODE_LSN_PORT THEN "RDP_SINK_STREAM" ELSE "RDP_FWD_META"

\* What RDp does with a datagram for a port.
RdpTask(port) ==
  CASE port = RECV_MODE_LSN_PORT -> "RDP_SINK_STREAM"
    [] port = XMIT_MODE_LSN_PORT -> "RDP_8801"
    [] OTHER -> "RDP_FWD_META"

RdpIdle ==
  /\ piSHL_Enable
  /\ rdp_fsmState = "RDP_IDLE"
  /\ siSHL_Meta # << >>
  /\ rdp_appMeta' = Head(siSHL_Meta)
  /\ siSHL_Meta' = Dequeue(siSHL_Meta)
  /\ rdp_fsmState' = RdpTask(rdp_appMeta'.dst)
  /\ UNCHANGED << siSHL_Data, toUafVars, ssRDpToWRp_Req >>
  /\ RDpUnchanged

RdpFwdMeta ==
  /\ piSHL_Enable
  /\ rdp_fsmState = "RDP_FWD_META"
  /\ HasRoom(ssUSIFToUAF_Meta, cDepth_UAF)
  /\ HasRoom(ssUSIFToUAF_DLen, cDepth_UAF)
  /\ ssUSIFToUAF_Meta' = Append(ssUSIFToUAF_Meta, [dgm |-> rdp_appMeta.dgm,
                                  src |-> rdp_appMeta.src, dst |-> rdp_appMeta.dst])
  /\ ssUSIFToUAF_DLen' = Append(ssUSIFToUAF_DLen, rdp_appMeta.dLen)
  /\ rdp_fsmState' = "RDP_FWD_STREAM"
  /\ UNCHANGED << siSHL_Data, siSHL_Meta, rdp_appMeta, ssUSIFToUAF_Data, ssRDpToWRp_Req >>
  /\ RDpUnchanged

\* A chunk leaves the stream of the UOE; RDp goes on to 'next' unless it was
\* the last one.
RdpTakesChunk(next) ==
  /\ siSHL_Data # << >>
  /\ siSHL_Data' = Dequeue(siSHL_Data)
  /\ rdp_fsmState' = IF Head(siSHL_Data).tlast THEN "RDP_IDLE" ELSE next
  /\ UNCHANGED << siSHL_Meta, rdp_appMeta, ssUSIFToUAF_Meta, ssUSIFToUAF_DLen >>
  /\ RDpUnchanged

RdpFwdStream ==
  /\ piSHL_Enable
  /\ rdp_fsmState = "RDP_FWD_STREAM"
  /\ HasRoom(ssUSIFToUAF_Data, cDepth_UAF)
  /\ RdpTakesChunk("RDP_FWD_STREAM")
  /\ ssUSIFToUAF_Data' = Append(ssUSIFToUAF_Data, Head(siSHL_Data))
  /\ UNCHANGED ssRDpToWRp_Req

RdpSinkStream ==
  /\ piSHL_Enable
  /\ rdp_fsmState = "RDP_SINK_STREAM"
  /\ RdpTakesChunk("RDP_SINK_STREAM")
  /\ UNCHANGED << ssUSIFToUAF_Data, ssRDpToWRp_Req >>

\* The chunk is a test command: 'count' bytes for the target it names, from this port.
Rdp8801(count) ==
  /\ piSHL_Enable
  /\ rdp_fsmState = "RDP_8801"
  /\ RdpTakesChunk("RDP_SINK_STREAM")
  /\ HasRoom(ssRDpToWRp_Req, cDepth_RDpToWRp)
  /\ ssRDpToWRp_Req' = Append(ssRDpToWRp_Req, [dgm |-> rdp_appMeta.dgm,
                          src |-> rdp_appMeta.dst, dst |-> Targets[Head(siSHL_Data).dgm],
                          dLen |-> count])
  /\ UNCHANGED ssUSIFToUAF_Data

RDp ==
  \/ RdpIdle \/ RdpFwdMeta \/ RdpFwdStream \/ RdpSinkStream
  \/ \E count \in TxCounts : Rdp8801(count)

-----------------------------------------------------------------------------
(* Write Path.                                                              *)

WRpUnchanged ==
  UNCHANGED << piSHL_Enable, toUafVars, uoeInVars, rdpVars, uoeOutVars >>

\* "Always give priority to the Tx test generator".
WrpIdleTest ==
  /\ piSHL_Enable
  /\ wrp_fsmState = "WRP_IDLE"
  /\ ssRDpToWRp_Req # << >>
  /\ HasRoom(soSHL_Meta, cDepth_SHELL)
  /\ LET req == Head(ssRDpToWRp_Req)
     IN /\ soSHL_Meta' = Append(soSHL_Meta, req)
        /\ wrp_appDReq' = req.dLen /\ wrp_dgm' = req.dgm
        /\ IF req.dLen # 0
           THEN wrp_fsmState' = "WRP_8801" /\ wrp_genChunk' = "GEN_CHK0"
           ELSE UNCHANGED << wrp_fsmState, wrp_genChunk >>
  /\ ssRDpToWRp_Req' = Dequeue(ssRDpToWRp_Req)
  /\ UNCHANGED << fromUafVars, soSHL_Data >>
  /\ WRpUnchanged

WrpIdleUaf ==
  /\ piSHL_Enable
  /\ wrp_fsmState = "WRP_IDLE"
  /\ ssRDpToWRp_Req = << >>
  /\ ssUAFToUSIF_Meta # << >>
  /\ HasRoom(soSHL_Meta, cDepth_SHELL)
  /\ soSHL_Meta' = Append(soSHL_Meta, Head(ssUAFToUSIF_Meta))
  /\ ssUAFToUSIF_Meta' = Dequeue(ssUAFToUSIF_Meta)
  /\ wrp_fsmState' = "WRP_STREAM"
  /\ UNCHANGED << ssUAFToUSIF_Data, ssRDpToWRp_Req, wrp_genChunk, wrp_appDReq, wrp_dgm,
                  soSHL_Data >>
  /\ WRpUnchanged

WrpStream ==
  /\ piSHL_Enable
  /\ wrp_fsmState = "WRP_STREAM"
  /\ ssUAFToUSIF_Data # << >>
  /\ HasRoom(soSHL_Data, cDepth_SHELL)
  /\ soSHL_Data' = Append(soSHL_Data, Head(ssUAFToUSIF_Data))
  /\ wrp_fsmState' = IF Head(ssUAFToUSIF_Data).tlast THEN "WRP_IDLE" ELSE wrp_fsmState
  /\ ssUAFToUSIF_Data' = Dequeue(ssUAFToUSIF_Data)
  /\ UNCHANGED << ssUAFToUSIF_Meta, ssRDpToWRp_Req, wrp_genChunk, wrp_appDReq, wrp_dgm,
                  soSHL_Meta >>
  /\ WRpUnchanged

\* Seeded fault: the pattern does not change between two chunks.
NextGenChunk_Kept == wrp_genChunk

NextGenChunk == IF wrp_genChunk = "GEN_CHK0" THEN "GEN_CHK1" ELSE "GEN_CHK0"

\* Seeded fault: the last chunk is the one of which nothing remains.
IsLastChunk_Zero(left) == left = 0

IsLastChunk(left) == left <= ARW_BYTES

Wrp8801 ==
  /\ piSHL_Enable
  /\ wrp_fsmState = "WRP_8801"
  /\ HasRoom(soSHL_Data, cDepth_SHELL)
  /\ soSHL_Data' = Append(soSHL_Data,
                          ChunkOf(wrp_dgm, XMIT_MODE_LSN_PORT, wrp_genChunk, wrp_appDReq))
  /\ \/ /\ ~IsLastChunk(wrp_appDReq)
        /\ wrp_appDReq' = wrp_appDReq - ARW_BYTES
        /\ UNCHANGED wrp_fsmState
     \/ /\ IsLastChunk(wrp_appDReq)
        /\ wrp_fsmState' = "WRP_IDLE"
        /\ UNCHANGED wrp_appDReq
  /\ wrp_genChunk' = NextGenChunk
  /\ UNCHANGED << fromUafVars, ssRDpToWRp_Req, wrp_dgm, soSHL_Meta >>
  /\ WRpUnchanged

WRp == WrpIdleTest \/ WrpIdleUaf \/ WrpStream \/ Wrp8801

-----------------------------------------------------------------------------
UsifTypeOK ==
  /\ siSHL_Data \in Seq(Chunk) /\ siSHL_Meta \in Seq(MetaDLen)
  /\ uoeDgms \in 0..MaxDgms /\ uoeLeft \in Nat /\ uoePort \in Nat
  /\ rdp_fsmState \in {"RDP_IDLE", "RDP_FWD_META", "RDP_FWD_STREAM", "RDP_SINK_STREAM",
                       "RDP_8801"}
  /\ rdp_appMeta \in MetaDLen \cup {NoDgm}
  /\ ssRDpToWRp_Req \in Seq(MetaDLen)
  /\ wrp_fsmState \in {"WRP_IDLE", "WRP_STREAM", "WRP_8801"}
  /\ wrp_genChunk \in Payloads \ {"RX"}
  /\ wrp_appDReq \in Nat /\ wrp_dgm \in 0..MaxDgms
  /\ soSHL_Data \in Seq(Chunk) /\ soSHL_Meta \in Seq(MetaDLen)
  /\ uoeMeta \in MetaDLen \cup {NoDgm} /\ uoeDue \in Int
=============================================================================
