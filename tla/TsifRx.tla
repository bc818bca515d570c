-------------------------------- MODULE TsifRx --------------------------------
(***************************************************************************)
(* The receive path of the TCP Shell Interface (TSIF) of tcp_shell_if.cpp: *)
(* the processes RNh, RRh, RRm, IRb and RDp, and their neighbours.         *)
(*                                                                         *)
(*   TOE --Notif--> RNh --Notif--> RRh --DReq--> RRm --DReq--> TOE         *)
(*                                 |  ^                                    *)
(*                            FwdCmd  DequSig                              *)
(*                                 v  |                                    *)
(*   TOE --Data/Meta--> IRb -----> RDp --Data/SessId/DatLen--> TAF         *)
(*                                  \---OpnSockReq/TxCountReq--> COn       *)
(*                                                                         *)
(* Every process is a state machine that the HLS dataflow region invokes   *)
(* over and over: one invocation is one step here, and the invocations of  *)
(* different processes interleave.  A blocking write to a full stream      *)
(* stalls its process and is a guard.  printInfo, printWarn, printError    *)
(* and printFatal do not exist in the synthesised role.  The TOE, TAF and  *)
(* COn are the environment, reduced to what they exchange with this path.  *)
(***************************************************************************)
EXTENDS Streams

CONSTANTS
  SessIds,            \* the TCP sessions the TOE has accepted
  DstPort,            \* DstPort[s]: the listen port session s was opened on
  SegLens,            \* the lengths of the TCP segments that are received
  Socks, TxCounts,    \* what a chunk received on port 8801 may decode to
  MaxNotifs,          \* bound of the model: segments received in a behaviour
  cDepth_IRbToRDp_Data, cDepth_IRbToRDp_Meta, cDepth_RNhToRRh_Notif,
  cDepth_RRhToRDp_FwdCmd, cDepth_RDpToRRh_Dequeue, cDepth_RDpToCOn,
  cDepth_Shell,       \* depth of the streams between the SHELL and the role
  cDepth_TAF,         \* depth of the streams between TSIF and TAF
  cMinDataReqLen

ARW_BYTES == 8                      \* ARW/8: the bytes of a data chunk
cIBuffBytes == ARW_BYTES * cDepth_IRbToRDp_Data
FreeSpaceMod == 2 * cIBuffBytes     \* ap_uint<log2Ceil<cIBuffBytes>::val+1>

RECV_MODE_LSN_PORT == 8800
XMIT_MODE_LSN_PORT == 8801

ASSUME SessAssumption == SessIds # {} /\ DstPort \in [SessIds -> Nat]
ASSUME LenAssumption == SegLens \subseteq Nat
ASSUME TxAssumption == TxCounts \subseteq Nat
ASSUME DepthAssumption ==
  /\ MaxNotifs \in Nat
  /\ cDepth_IRbToRDp_Data \in Nat \ {0}
  /\ cDepth_RDpToRRh_Dequeue \in Nat \ {0}
  /\ {cDepth_IRbToRDp_Meta, cDepth_RNhToRRh_Notif, cDepth_RRhToRDp_FwdCmd,
      cDepth_RDpToCOn, cDepth_Shell, cDepth_TAF, cMinDataReqLen} \subseteq Nat \ {0}

VARIABLES
  piSHL_Enable,                                   \* the MMIO enable bit
  siSHL_Notif, soSHL_DReq, siSHL_Meta, siSHL_Data,\* streams from/to the SHELL
  toeNotifs, toeEnd, toeRd,                       \* the TOE's Rx buffers
  ssRNhToRRh_Notif,                               \* RNh
  rrh_fsmState, rrh_freeSpace, rrh_notif, rrh_datLenReq,
  ssRRhToRRm_DReq, ssRRhToRDp_FwdCmd,             \* RRh
  ssIRbToRDp_Data, ssIRbToRDp_Meta,               \* IRb
  rdp_fsmState, rdp_fwdCmd, rdp_sessId, ssRDpToRRh_Dequeue,
  ssRDpToCOn_OpnSockReq, ssRDpToCOn_TxCountReq,   \* RDp
  soTAF_Data, soTAF_SessId, soTAF_DatLen,
  tafSess, tafLeft, tafPos                        \* TAF, the reader

shlVars == << siSHL_Notif, soSHL_DReq, siSHL_Meta, siSHL_Data, toeNotifs,
              toeEnd, toeRd >>
rrhVars == << rrh_fsmState, rrh_freeSpace, rrh_notif, rrh_datLenReq >>
reqVars == << ssRRhToRRm_DReq, ssRRhToRDp_FwdCmd >>
irbVars == << ssIRbToRDp_Data, ssIRbToRDp_Meta >>
rdpVars == << rdp_fsmState, rdp_fwdCmd, rdp_sessId >>
conVars == << ssRDpToCOn_OpnSockReq, ssRDpToCOn_TxCountReq >>
tafVars == << soTAF_Data, soTAF_SessId, soTAF_DatLen, tafSess, tafLeft, tafPos >>
vars == << piSHL_Enable, shlVars, ssRNhToRRh_Notif, rrhVars, reqVars, irbVars, rdpVars,
           ssRDpToRRh_Dequeue, conVars, tafVars >>

-----------------------------------------------------------------------------
(***************************************************************************)
(* The messages.  A chunk is named by the session and the position in the  *)
(* session's byte stream of its first byte; its payload is left out.       *)
(***************************************************************************)
Notif == [sessId : SessIds, tcpDatLen : Nat]
DReq == [sessId : SessIds, datLen : Nat]
ForwardCmd == [sessId : SessIds, datLen : Nat, action : {"CMD_KEEP", "CMD_DROP"},
               dropCode : {"NOP", "GEN"}]
Chunk == [sessId : SessIds, pos : Nat, len : 1..ARW_BYTES, tlast : BOOLEAN]

\* The number of chunks that carry n bytes.
Chunks(n) == (n + ARW_BYTES - 1) \div ARW_BYTES

\* The bytes [from, from + n) of session s as the TOE streams them.
Segment(s, from, n) ==
  [i \in 1..Chunks(n) |->
     LET off == ARW_BYTES * (i - 1)
     IN [sessId |-> s, pos |-> from + off, tlast |-> i = Chunks(n),
         len |-> IF i = Chunks(n) THEN n - off ELSE ARW_BYTES]]

\* Seeded faults: the switch on the port without its 8801 case; the length of
\* the chunks in place of that of the request.
FwdCmdFor_No8801(s, n) ==
  [sessId |-> s, datLen |-> n, dropCode |-> "NOP",
   action |-> IF DstPort[s] = RECV_MODE_LSN_PORT THEN "CMD_DROP" ELSE "CMD_KEEP"]

FwdCmdFor_Rounded(s, n) ==
  [sessId |-> s, datLen |-> ARW_BYTES * Chunks(n), dropCode |-> "NOP",
   action |-> IF DstPort[s] \in {RECV_MODE_LSN_PORT, XMIT_MODE_LSN_PORT}
              THEN "CMD_DROP" ELSE "CMD_KEEP"]

\* The command RRh sends to RDp for a request of n bytes of session s.
FwdCmdFor(s, n) ==
  [sessId |-> s, datLen |-> n,
   action |-> IF DstPort[s] \in {RECV_MODE_LSN_PORT, XMIT_MODE_LSN_PORT}
              THEN "CMD_DROP" ELSE "CMD_KEEP",
   dropCode |-> IF DstPort[s] = XMIT_MODE_LSN_PORT THEN "GEN" ELSE "NOP"]

\* The values that the registers without a reset hold after power-up.
AnySess == CHOOSE s \in SessIds : TRUE

Init ==
  /\ piSHL_Enable = FALSE
  /\ siSHL_Notif = << >> /\ soSHL_DReq = << >>
  /\ siSHL_Meta = << >> /\ siSHL_Data = << >>
  /\ toeNotifs = 0
  /\ toeEnd = [s \in SessIds |-> 0] /\ toeRd = [s \in SessIds |-> 0]
  /\ ssRNhToRRh_Notif = << >>
  /\ rrh_fsmState = "RRH_IDLE"
  /\ rrh_freeSpace = cIBuffBytes
  /\ rrh_notif = [sessId |-> AnySess, tcpDatLen |-> 0]
  /\ rrh_datLenReq = 0
  /\ ssRRhToRRm_DReq = << >> /\ ssRRhToRDp_FwdCmd = << >>
  /\ ssIRbToRDp_Data = << >> /\ ssIRbToRDp_Meta = << >>
  /\ rdp_fsmState = "RDP_IDLE"
  /\ rdp_fwdCmd = FwdCmdFor(AnySess, 0)
  /\ rdp_sessId = AnySess
  /\ ssRDpToRRh_Dequeue = 0
  /\ ssRDpToCOn_OpnSockReq = << >> /\ ssRDpToCOn_TxCountReq = << >>
  /\ soTAF_Data = << >> /\ soTAF_SessId = << >> /\ soTAF_DatLen = << >>
  /\ tafSess = AnySess /\ tafLeft = 0
  /\ tafPos = [s \in SessIds |-> 0]

-----------------------------------------------------------------------------
(* The environment.                                                         *)

\* The SHELL sets or clears the enable bit of the role in its MMIO register.
MmioEnable ==
  /\ piSHL_Enable' = ~piSHL_Enable
  /\ UNCHANGED << shlVars, ssRNhToRRh_Notif, rrhVars, reqVars, irbVars, rdpVars,
                  ssRDpToRRh_Dequeue, conVars, tafVars >>

\* The TOE has received a segment of n bytes for session s and notifies it.
ToeNotify(s, n) ==
  /\ toeNotifs < MaxNotifs
  /\ HasRoom(siSHL_Notif, cDepth_Shell)
  /\ toeNotifs' = toeNotifs + 1
  /\ toeEnd' = [toeEnd EXCEPT ![s] = @ + n]
  /\ siSHL_Notif' = Append(siSHL_Notif, [sessId |-> s, tcpDatLen |-> n])
  /\ UNCHANGED << piSHL_Enable, soSHL_DReq, siSHL_Meta, siSHL_Data, toeRd, ssRNhToRRh_Notif,
                  rrhVars, reqVars, irbVars, rdpVars, ssRDpToRRh_Dequeue,
                  conVars, tafVars >>

\* The TOE answers a data request with the metadata and the chunks of the
\* bytes it asks for.  What siSHL_Data holds is still in the TOE's memory.
ToeServe ==
  /\ soSHL_DReq # << >>
  /\ LET req == Head(soSHL_DReq)
     IN /\ req.datLen > 0
        /\ siSHL_Meta' = Append(siSHL_Meta, req.sessId)
        /\ siSHL_Data' =
             siSHL_Data \o Segment(req.sessId, toeRd[req.sessId], req.datLen)
        /\ toeRd' = [toeRd EXCEPT ![req.sessId] = @ + req.datLen]
  /\ soSHL_DReq' = Dequeue(soSHL_DReq)
  /\ UNCHANGED << piSHL_Enable, siSHL_Notif, toeNotifs, toeEnd,
                  ssRNhToRRh_Notif, rrhVars, reqVars, irbVars, rdpVars,
                  ssRDpToRRh_Dequeue, conVars, tafVars >>

\* COn takes a test command (pConnect, state CON_RD_RDp).
COnRead ==
  /\ ssRDpToCOn_OpnSockReq # << >>
  /\ ssRDpToCOn_TxCountReq # << >>
  /\ ssRDpToCOn_OpnSockReq' = Dequeue(ssRDpToCOn_OpnSockReq)
  /\ ssRDpToCOn_TxCountReq' = Dequeue(ssRDpToCOn_TxCountReq)
  /\ UNCHANGED << piSHL_Enable, shlVars, ssRNhToRRh_Notif, rrhVars, reqVars, irbVars,
                  rdpVars, ssRDpToRRh_Dequeue, tafVars >>

\* TAF takes the metadata of a segment, and then its chunks up to TLAST.
TafReadMeta ==
  /\ tafLeft = 0
  /\ soTAF_SessId # << >>
  /\ soTAF_DatLen # << >>
  /\ tafSess' = Head(soTAF_SessId)
  /\ tafLeft' = Head(soTAF_DatLen)
  /\ soTAF_SessId' = Dequeue(soTAF_SessId)
  /\ soTAF_DatLen' = Dequeue(soTAF_DatLen)
  /\ UNCHANGED << piSHL_Enable, shlVars, ssRNhToRRh_Notif, rrhVars, reqVars, irbVars,
                  rdpVars, ssRDpToRRh_Dequeue, conVars, soTAF_Data, tafPos >>

TafReadData ==
  /\ tafLeft > 0
  /\ soTAF_Data # << >>
  /\ LET chunk == Head(soTAF_Data)
     IN /\ tafLeft' = IF chunk.tlast THEN 0 ELSE tafLeft - chunk.len
        /\ tafPos' = [tafPos EXCEPT ![chunk.sessId] = chunk.pos + chunk.len]
  /\ soTAF_Data' = Dequeue(soTAF_Data)
  /\ UNCHANGED << piSHL_Enable, shlVars, ssRNhToRRh_Notif, rrhVars, reqVars, irbVars,
                  rdpVars, ssRDpToRRh_Dequeue, conVars, soTAF_SessId, soTAF_DatLen,
                  tafSess >>

-----------------------------------------------------------------------------
(* Read Notification Handler, Input Read Buffer, Read Request Mover.        *)

\* RNh forwards a notification, or loses it when the stream to RRh is full.
RNh ==
  /\ piSHL_Enable
  /\ siSHL_Notif # << >>
  /\ siSHL_Notif' = Dequeue(siSHL_Notif)
  /\ ssRNhToRRh_Notif' = IF HasRoom(ssRNhToRRh_Notif, cDepth_RNhToRRh_Notif)
                         THEN Append(ssRNhToRRh_Notif, Head(siSHL_Notif))
                         ELSE ssRNhToRRh_Notif
  /\ UNCHANGED << piSHL_Enable, soSHL_DReq, siSHL_Meta, siSHL_Data, toeNotifs, toeEnd, toeRd,
                  rrhVars, reqVars, irbVars, rdpVars, ssRDpToRRh_Dequeue,
                  conVars, tafVars >>

\* IRb moves one metadata and one chunk, each on its own condition.
IRbMovesMeta == siSHL_Meta # << >> /\ HasRoom(ssIRbToRDp_Meta, cDepth_IRbToRDp_Meta)
IRbMovesData == siSHL_Data # << >> /\ HasRoom(ssIRbToRDp_Data, cDepth_IRbToRDp_Data)

IRb ==
  /\ piSHL_Enable
  /\ IRbMovesMeta \/ IRbMovesData
  /\ IF IRbMovesMeta
     THEN /\ ssIRbToRDp_Meta' = Append(ssIRbToRDp_Meta, Head(siSHL_Meta))
          /\ siSHL_Meta' = Dequeue(siSHL_Meta)
     ELSE UNCHANGED << ssIRbToRDp_Meta, siSHL_Meta >>
  /\ IF IRbMovesData
     THEN /\ ssIRbToRDp_Data' = Append(ssIRbToRDp_Data, Head(siSHL_Data))
          /\ siSHL_Data' = Dequeue(siSHL_Data)
     ELSE UNCHANGED << ssIRbToRDp_Data, siSHL_Data >>
  /\ UNCHANGED << piSHL_Enable, siSHL_Notif, soSHL_DReq, toeNotifs, toeEnd, toeRd,
                  ssRNhToRRh_Notif, rrhVars, reqVars, rdpVars,
                  ssRDpToRRh_Dequeue, conVars, tafVars >>

RRm ==
  /\ piSHL_Enable
  /\ ssRRhToRRm_DReq # << >>
  /\ HasRoom(soSHL_DReq, cDepth_Shell)
  /\ soSHL_DReq' = Append(soSHL_DReq, Head(ssRRhToRRm_DReq))
  /\ ssRRhToRRm_DReq' = Dequeue(ssRRhToRRm_DReq)
  /\ UNCHANGED << piSHL_Enable, siSHL_Notif, siSHL_Meta, siSHL_Data, toeNotifs, toeEnd, toeRd,
                  ssRNhToRRh_Notif, rrhVars, ssRRhToRDp_FwdCmd, irbVars,
                  rdpVars, ssRDpToRRh_Dequeue, conVars, tafVars >>

-----------------------------------------------------------------------------
(* Read Request Handler.  rrh_freeSpace is RRh's count of the free bytes of *)
(* the input buffer; every signal on ssRDpToRRh_Dequeue gives a chunk back. *)

\* Seeded fault: a dequeue counted as a chunk, in a register of bytes.
WrapAdd_Chunk(space, n) == space + 1

\* Addition in the width of rrh_freeSpace.
WrapAdd(space, n) ==
  IF space + n >= FreeSpaceMod THEN space + n - FreeSpaceMod ELSE space + n

\* Seeded fault: the signal is read and its space is not given back.
HandleDequeue_Lost(space) ==
  /\ ssRDpToRRh_Dequeue' = IF ssRDpToRRh_Dequeue > 0 THEN ssRDpToRRh_Dequeue - 1 ELSE 0
  /\ rrh_freeSpace' = space

\* "Handle dequeue signal": rrh_freeSpace becomes 'space', plus a chunk when
\* RDp has signalled one.
HandleDequeue(space) ==
  \/ /\ ssRDpToRRh_Dequeue > 0
     /\ ssRDpToRRh_Dequeue' = ssRDpToRRh_Dequeue - 1
     /\ rrh_freeSpace' = WrapAdd(space, ARW_BYTES)
  \/ /\ ssRDpToRRh_Dequeue = 0
     /\ rrh_freeSpace' = space
     /\ UNCHANGED ssRDpToRRh_Dequeue

RRhUnchanged ==
  UNCHANGED << piSHL_Enable, shlVars, irbVars, rdpVars, conVars, tafVars >>

RRhIdle ==
  /\ piSHL_Enable
  /\ rrh_fsmState = "RRH_IDLE"
  /\ HandleDequeue(rrh_freeSpace)
  /\ \/ /\ ssRNhToRRh_Notif # << >>
        /\ rrh_notif' = Head(ssRNhToRRh_Notif)
        /\ ssRNhToRRh_Notif' = Dequeue(ssRNhToRRh_Notif)
        /\ rrh_fsmState' = "RRH_GEN_DLEN"
     \/ /\ ssRNhToRRh_Notif = << >>
        /\ ssRDpToRRh_Dequeue > 0
        /\ UNCHANGED << rrh_notif, ssRNhToRRh_Notif, rrh_fsmState >>
  /\ UNCHANGED << rrh_datLenReq, reqVars >>
  /\ RRhUnchanged

\* Seeded fault: the notification is not reduced by what is requested of it.
NotifLeft_Whole == rrh_notif

\* What remains of the notification once the free space is requested.
NotifLeft == [rrh_notif EXCEPT !.tcpDatLen = @ - rrh_freeSpace]

\* There is less space than the notification needs: request what there is.
\* The dequeue branch leaves the requested bytes in rrh_freeSpace.
RRhRequestPart ==
  /\ piSHL_Enable
  /\ rrh_fsmState = "RRH_GEN_DLEN"
  /\ rrh_freeSpace >= cMinDataReqLen
  /\ rrh_freeSpace < rrh_notif.tcpDatLen
  /\ rrh_datLenReq' = rrh_freeSpace
  /\ rrh_notif' = NotifLeft
  /\ \/ /\ ssRDpToRRh_Dequeue > 0
        /\ ssRDpToRRh_Dequeue' = ssRDpToRRh_Dequeue - 1
        /\ rrh_freeSpace' = WrapAdd(rrh_freeSpace, ARW_BYTES)
     \/ /\ ssRDpToRRh_Dequeue = 0
        /\ rrh_freeSpace' = 0
        /\ UNCHANGED ssRDpToRRh_Dequeue
  /\ rrh_fsmState' = "RRH_SEND_DREQ"
  /\ UNCHANGED << ssRNhToRRh_Notif, reqVars >>
  /\ RRhUnchanged

\* The whole of the notification fits.  A length that is not a multiple of
\* the chunk size takes one more chunk, and only then a dequeue is handled.
RRhRequestAll ==
  /\ piSHL_Enable
  /\ rrh_fsmState = "RRH_GEN_DLEN"
  /\ rrh_freeSpace >= cMinDataReqLen
  /\ rrh_freeSpace >= rrh_notif.tcpDatLen
  /\ rrh_datLenReq' = rrh_notif.tcpDatLen
  /\ LET rest == rrh_notif.tcpDatLen % ARW_BYTES
         space == rrh_freeSpace - (rrh_notif.tcpDatLen - rest)
     IN \/ /\ rest = 0
           /\ rrh_freeSpace' = space
           /\ UNCHANGED ssRDpToRRh_Dequeue
        \/ /\ rest # 0
           /\ HandleDequeue(space - ARW_BYTES)
  /\ rrh_notif' = [rrh_notif EXCEPT !.tcpDatLen = 0]
  /\ rrh_fsmState' = "RRH_SEND_DREQ"
  /\ UNCHANGED << ssRNhToRRh_Notif, reqVars >>
  /\ RRhUnchanged

\* Seeded fault: the signals of RDp are not read while RRh waits for space.
RRhWaitSpace_Deaf == FALSE

\* "FreeSpace is too low. Waiting for buffer to drain."
RRhWaitSpace ==
  /\ piSHL_Enable
  /\ rrh_fsmState = "RRH_GEN_DLEN"
  /\ rrh_freeSpace < cMinDataReqLen
  /\ ssRDpToRRh_Dequeue > 0
  /\ HandleDequeue(rrh_freeSpace)
  /\ UNCHANGED << rrh_notif, rrh_datLenReq, rrh_fsmState, ssRNhToRRh_Notif, reqVars >>
  /\ RRhUnchanged

RRhCanSend ==
  /\ HasRoom(ssRRhToRRm_DReq, cDepth_RRhToRDp_FwdCmd)
  /\ HasRoom(ssRRhToRDp_FwdCmd, cDepth_RRhToRDp_FwdCmd)

RRhSendDReq ==
  /\ piSHL_Enable
  /\ rrh_fsmState = "RRH_SEND_DREQ"
  /\ HandleDequeue(rrh_freeSpace)
  /\ \/ /\ RRhCanSend
        /\ ssRRhToRRm_DReq' =
             Append(ssRRhToRRm_DReq,
                    [sessId |-> rrh_notif.sessId, datLen |-> rrh_datLenReq])
        /\ ssRRhToRDp_FwdCmd' =
             Append(ssRRhToRDp_FwdCmd, FwdCmdFor(rrh_notif.sessId, rrh_datLenReq))
        /\ rrh_fsmState' = IF rrh_notif.tcpDatLen = 0 THEN "RRH_IDLE" ELSE "RRH_GEN_DLEN"
     \/ /\ ~RRhCanSend
        /\ ssRDpToRRh_Dequeue > 0
        /\ UNCHANGED << reqVars, rrh_fsmState >>
  /\ UNCHANGED << rrh_notif, rrh_datLenReq, ssRNhToRRh_Notif >>
  /\ RRhUnchanged

RRh == RRhIdle \/ RRhRequestPart \/ RRhRequestAll \/ RRhWaitSpace \/ RRhSendDReq

-----------------------------------------------------------------------------
(* Read Path.                                                               *)

RDpUnchanged ==
  UNCHANGED << piSHL_Enable, shlVars, ssRNhToRRh_Notif, rrhVars, ssRRhToRRm_DReq,
               tafSess, tafLeft, tafPos >>

\* A chunk leaves the input buffer: its space is signalled to RRh, with a
\* blocking write.
RDpTakesChunk ==
  /\ ssIRbToRDp_Data # << >>
  /\ ssIRbToRDp_Data' = Dequeue(ssIRbToRDp_Data)
  /\ ssRDpToRRh_Dequeue < cDepth_RDpToRRh_Dequeue
  /\ ssRDpToRRh_Dequeue' = ssRDpToRRh_Dequeue + 1

\* Seeded fault: the metadata of a segment that is dropped stays in its stream.
RDpIdle_MetaStays ==
  /\ piSHL_Enable
  /\ rdp_fsmState = "RDP_IDLE"
  /\ ssRRhToRDp_FwdCmd # << >>
  /\ ssIRbToRDp_Meta # << >>
  /\ rdp_fwdCmd' = Head(ssRRhToRDp_FwdCmd)
  /\ rdp_sessId' = Head(ssIRbToRDp_Meta)
  /\ ssRRhToRDp_FwdCmd' = Dequeue(ssRRhToRDp_FwdCmd)
  /\ IF rdp_fwdCmd'.action = "CMD_KEEP"
     THEN rdp_fsmState' = "RDP_FWD_META" /\ ssIRbToRDp_Meta' = Dequeue(ssIRbToRDp_Meta)
     ELSE rdp_fsmState' = "RDP_SINK_META" /\ UNCHANGED ssIRbToRDp_Meta
  /\ UNCHANGED << ssIRbToRDp_Data, ssRDpToRRh_Dequeue, conVars, soTAF_Data,
                  soTAF_SessId, soTAF_DatLen >>
  /\ RDpUnchanged

RDpIdle ==
  /\ piSHL_Enable
  /\ rdp_fsmState = "RDP_IDLE"
  /\ ssRRhToRDp_FwdCmd # << >>
  /\ ssIRbToRDp_Meta # << >>
  /\ rdp_fwdCmd' = Head(ssRRhToRDp_FwdCmd)
  /\ rdp_sessId' = Head(ssIRbToRDp_Meta)
  /\ ssRRhToRDp_FwdCmd' = Dequeue(ssRRhToRDp_FwdCmd)
  /\ ssIRbToRDp_Meta' = Dequeue(ssIRbToRDp_Meta)
  /\ rdp_fsmState' =
       IF rdp_fwdCmd'.action = "CMD_KEEP" /\ rdp_fwdCmd'.sessId = rdp_sessId'
       THEN "RDP_FWD_META" ELSE "RDP_SINK_META"
  /\ UNCHANGED << ssIRbToRDp_Data, ssRDpToRRh_Dequeue, conVars, soTAF_Data,
                  soTAF_SessId, soTAF_DatLen >>
  /\ RDpUnchanged

RDpFwdMeta ==
  /\ piSHL_Enable
  /\ rdp_fsmState = "RDP_FWD_META"
  /\ HasRoom(soTAF_SessId, cDepth_TAF)
  /\ HasRoom(soTAF_DatLen, cDepth_TAF)
  /\ soTAF_SessId' = Append(soTAF_SessId, rdp_sessId)
  /\ soTAF_DatLen' = Append(soTAF_DatLen, rdp_fwdCmd.datLen)
  /\ rdp_fsmState' = "RDP_FWD_STREAM"
  /\ UNCHANGED << rdp_fwdCmd, rdp_sessId, ssRRhToRDp_FwdCmd, irbVars,
                  ssRDpToRRh_Dequeue, conVars, soTAF_Data >>
  /\ RDpUnchanged

RDpFwdStream ==
  /\ piSHL_Enable
  /\ rdp_fsmState = "RDP_FWD_STREAM"
  /\ RDpTakesChunk
  /\ HasRoom(soTAF_Data, cDepth_TAF)
  /\ soTAF_Data' = Append(soTAF_Data, Head(ssIRbToRDp_Data))
  /\ rdp_fsmState' = IF Head(ssIRbToRDp_Data).tlast THEN "RDP_IDLE" ELSE rdp_fsmState
  /\ UNCHANGED << rdp_fwdCmd, rdp_sessId, ssRRhToRDp_FwdCmd, ssIRbToRDp_Meta,
                  conVars, soTAF_SessId, soTAF_DatLen >>
  /\ RDpUnchanged

RDpSinkMeta ==
  /\ piSHL_Enable
  /\ rdp_fsmState = "RDP_SINK_META"
  /\ rdp_fsmState' = IF rdp_fwdCmd.dropCode = "GEN" THEN "RDP_8801" ELSE "RDP_SINK_STREAM"
  /\ UNCHANGED << rdp_fwdCmd, rdp_sessId, ssRRhToRDp_FwdCmd, irbVars,
                  ssRDpToRRh_Dequeue, conVars, soTAF_Data, soTAF_SessId, soTAF_DatLen >>
  /\ RDpUnchanged

RDpSinkStream ==
  /\ piSHL_Enable
  /\ rdp_fsmState = "RDP_SINK_STREAM"
  /\ RDpTakesChunk
  /\ rdp_fsmState' = IF Head(ssIRbToRDp_Data).tlast THEN "RDP_IDLE" ELSE rdp_fsmState
  /\ UNCHANGED << rdp_fwdCmd, rdp_sessId, ssRRhToRDp_FwdCmd, ssIRbToRDp_Meta,
                  conVars, soTAF_Data, soTAF_SessId, soTAF_DatLen >>
  /\ RDpUnchanged

\* Seeded fault: the rest of a test command's segment is not sunk.
AfterCmdChunk_Idle(chunk) == "RDP_IDLE"

\* Where RDp goes after the chunk of a test command.
AfterCmdChunk(chunk) == IF chunk.tlast THEN "RDP_IDLE" ELSE "RDP_SINK_STREAM"

\* The chunk is a test command: any socket and any byte count.
RDp8801(sock, count) ==
  /\ piSHL_Enable
  /\ rdp_fsmState = "RDP_8801"
  /\ RDpTakesChunk
  /\ HasRoom(ssRDpToCOn_OpnSockReq, cDepth_RDpToCOn)
  /\ HasRoom(ssRDpToCOn_TxCountReq, cDepth_RDpToCOn)
  /\ ssRDpToCOn_OpnSockReq' = Append(ssRDpToCOn_OpnSockReq, sock)
  /\ ssRDpToCOn_TxCountReq' = Append(ssRDpToCOn_TxCountReq, count)
  /\ rdp_fsmState' = AfterCmdChunk(Head(ssIRbToRDp_Data))
  /\ UNCHANGED << rdp_fwdCmd, rdp_sessId, ssRRhToRDp_FwdCmd, ssIRbToRDp_Meta,
                  soTAF_Data, soTAF_SessId, soTAF_DatLen >>
  /\ RDpUnchanged

RDp ==
  \/ RDpIdle \/ RDpFwdMeta \/ RDpFwdStream \/ RDpSinkMeta \/ RDpSinkStream
  \/ \E sock \in Socks, count \in TxCounts : RDp8801(sock, count)

-----------------------------------------------------------------------------
TafRead == TafReadMeta \/ TafReadData

Next ==
  \/ MmioEnable
  \/ \E s \in SessIds, n \in SegLens : ToeNotify(s, n)
  \/ ToeServe \/ COnRead \/ TafRead
  \/ RNh \/ IRb \/ RRm \/ RRh \/ RDp

Spec == Init /\ [][Next]_vars

-----------------------------------------------------------------------------
(* Properties.                                                              *)

Dropped(s) == DstPort[s] \in {RECV_MODE_LSN_PORT, XMIT_MODE_LSN_PORT}

\* Every variable keeps its type.  rrh_freeSpace in particular stays a whole
\* number of chunks below the wrap of its register: the subtractions of RRh
\* never underflow.
ShlTypeOK ==
  /\ siSHL_Notif \in Seq(Notif)
  /\ soSHL_DReq \in Seq(DReq)
  /\ siSHL_Meta \in Seq(SessIds)
  /\ siSHL_Data \in Seq(Chunk)
  /\ toeNotifs \in 0..MaxNotifs
  /\ toeEnd \in [SessIds -> Nat] /\ toeRd \in [SessIds -> Nat]

RrhTypeOK ==
  /\ rrh_fsmState \in {"RRH_IDLE", "RRH_GEN_DLEN", "RRH_SEND_DREQ"}
  /\ rrh_notif \in Notif
  /\ rrh_datLenReq \in Nat

FreeSpaceOK ==
  /\ rrh_freeSpace \in 0..(FreeSpaceMod - 1)
  /\ rrh_freeSpace % ARW_BYTES = 0
  /\ ssRDpToRRh_Dequeue \in 0..cDepth_RDpToRRh_Dequeue

ReqTypeOK ==
  /\ ssRRhToRRm_DReq \in Seq(DReq)
  /\ ssRRhToRDp_FwdCmd \in Seq(ForwardCmd)

IrbTypeOK ==
  /\ ssIRbToRDp_Data \in Seq(Chunk)
  /\ ssIRbToRDp_Meta \in Seq(SessIds)

RdpTypeOK ==
  /\ rdp_fsmState \in {"RDP_IDLE", "RDP_FWD_META", "RDP_FWD_STREAM",
                       "RDP_SINK_META", "RDP_SINK_STREAM", "RDP_8801"}
  /\ rdp_fwdCmd \in ForwardCmd
  /\ rdp_sessId \in SessIds

ConTypeOK ==
  /\ ssRDpToCOn_OpnSockReq \in Seq(Socks)
  /\ ssRDpToCOn_TxCountReq \in Seq(TxCounts)

TafTypeOK ==
  /\ soTAF_Data \in Seq(Chunk)
  /\ soTAF_SessId \in Seq(SessIds)
  /\ soTAF_DatLen \in Seq(Nat)
  /\ tafSess \in SessIds /\ tafLeft \in Int
  /\ tafPos \in [SessIds -> Nat]

TypeOK ==
  /\ piSHL_Enable \in BOOLEAN
  /\ ssRNhToRRh_Notif \in Seq(Notif)
  /\ ShlTypeOK /\ RrhTypeOK /\ FreeSpaceOK /\ ReqTypeOK
  /\ IrbTypeOK /\ RdpTypeOK /\ ConTypeOK /\ TafTypeOK

\* RRh sends the request and the forward command of a segment into different
\* streams; the metadata of the segment comes back through RRm, the TOE and
\* IRb.  The sessions of the commands that wait for RDp are those of the
\* metadata and of the requests still under way, in the same order.
SessionsOf(q) == [i \in 1..Len(q) |-> q[i].sessId]

SessionsInOrder ==
  SessionsOf(ssRRhToRDp_FwdCmd) =
    (ssIRbToRDp_Meta \o siSHL_Meta) \o
    (SessionsOf(soSHL_DReq) \o SessionsOf(ssRRhToRRm_DReq))

\* A command in the stream says what the listen port of its session requires.
CommandsMatchPort ==
  \A i \in 1..Len(ssRRhToRDp_FwdCmd) :
    (ssRRhToRDp_FwdCmd[i].action = "CMD_DROP") <=> Dropped(ssRRhToRDp_FwdCmd[i].sessId)

\* RDp keeps a segment exactly when its session is open on a port whose
\* traffic is for TAF, and sinks it exactly when the port is 8800 or 8801:
\* the session of a command is that of the metadata read with it, and the
\* test "rdp_fwdCmd.sessId == rdp_sessId" never sinks a segment meant for TAF.
RightDisposition ==
  /\ rdp_fsmState \in {"RDP_FWD_META", "RDP_FWD_STREAM"} => ~Dropped(rdp_sessId)
  /\ rdp_fsmState \in {"RDP_SINK_META", "RDP_SINK_STREAM", "RDP_8801"} => Dropped(rdp_sessId)

\* The inductive invariant behind the last two.
OrderInv == SessionsInOrder /\ CommandsMatchPort /\ RightDisposition

\* The chunk RDp is about to take belongs to the segment whose command it
\* executes: data, metadata and commands never slip against each other.
DataMatchesCommand ==
  rdp_fsmState \in {"RDP_FWD_STREAM", "RDP_SINK_STREAM", "RDP_8801"}
      /\ ssIRbToRDp_Data # << >>
    => Head(ssIRbToRDp_Data).sessId = rdp_fwdCmd.sessId

\* What TAF reads after a {SessId, DatLen} pair is the continuation of that
\* session's byte stream, without a gap or a repetition, and TLAST comes with
\* the last of the announced DatLen bytes.
TafStreamExact ==
  tafLeft > 0 /\ soTAF_Data # << >>
    => LET chunk == Head(soTAF_Data)
       IN /\ chunk.sessId = tafSess
          /\ chunk.pos = tafPos[chunk.sessId]
          /\ chunk.len <= tafLeft
          /\ chunk.tlast <=> chunk.len = tafLeft
=============================================================================
