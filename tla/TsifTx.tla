-------------------------------- MODULE TsifTx --------------------------------
(***************************************************************************)
(* The transmit path of the TCP Shell Interface of tcp_shell_if.cpp: the   *)
(* processes Connect (COn) and Write Path (WRp).                           *)
(*                                                                         *)
(*   RDp --OpnSockReq/TxCountReq--> COn --OpnReq/ClsReq--> TOE             *)
(*                                   |  <------OpnRep-----                 *)
(*                         TxBytesReq/TxSessId                             *)
(*                                   v                                     *)
(*   TAF --SessId/DatLen/Data-----> WRp --SndReq, Data--> TOE              *)
(*                                      <-----SndRep-----                  *)
(*                                                                         *)
(* One invocation of a process is one step; a blocking write to a full     *)
(* stream is a guard.  RDp, TAF and the TOE are the environment.  The      *)
(* watchdog of COn is left out: its expiry only traces and rearms it.      *)
(* Ly7Rst resets the role and not the SHELL: the TOE may still owe it, or  *)
(* hold for it, the reply to an open request of before the reset.          *)
(***************************************************************************)
EXTENDS Streams

CONSTANTS
  SessIds,            \* the TCP sessions of the TOE
  TafSessIds,         \* those that remote clients opened and TAF answers
  Socks, NoSock,      \* remote sockets; the power-up value of con_testSockAddr
  TxCounts,           \* the byte counts of test commands; 0 opens a connection
  DatLens,            \* the lengths of the segments TAF sends
  OpnStates,          \* the states an OpnRep of the TOE may carry
  SndErrors,          \* the error codes the TOE may give an established session
  RetryCnt,           \* the value wrp_retryCnt starts from (0x200)
  Residues,           \* what OpnRep may hold from before a reset of the role
  PendingOpens,       \* what OpnReq may hold from before that reset
  MaxCmds, MaxSegs,   \* bounds of the model: test commands, segments of TAF
  cDepth_RDpToCOn, cDepth_COnToWRp, cDepth_Shell, cDepth_TAF

ARW_BYTES == 8

ASSUME TxSessAssumption == TafSessIds \subseteq SessIds /\ SessIds # {} /\ NoSock \notin Socks
ASSUME TxLenAssumption == TxCounts \subseteq Nat /\ DatLens \subseteq Nat \ {0}
\* The TOE answers an established session with a grant or with NO_SPACE.
ASSUME TxReplyAssumption ==
  OpnStates \subseteq {"ESTABLISHED", "CLOSED"} /\ SndErrors \subseteq {"NO_ERROR", "NO_SPACE"}
ASSUME TxDepthAssumption ==
  /\ {RetryCnt, MaxCmds, MaxSegs} \subseteq Nat
  /\ {cDepth_RDpToCOn, cDepth_COnToWRp, cDepth_Shell, cDepth_TAF} \subseteq Nat \ {0}

VARIABLES
  piSHL_Enable,
  ssRDpToCOn_OpnSockReq, ssRDpToCOn_TxCountReq, rdpCmds,        \* RDp
  con_fsmState, con_testSockAddr, con_opnRep, con_txBytesReq,   \* COn
  ssCOnToWRp_TxBytesReq, ssCOnToWRp_TxSessId,
  soSHL_OpnReq, siSHL_OpnRep, soSHL_ClsReq,
  siTAF_SessId, siTAF_DatLen, siTAF_Data, tafSeg, tafLeft,      \* TAF, the writer
  wrp_fsmState, wrp_genChunk, wrp_sendReq, wrp_testMode, wrp_retryCnt,  \* WRp
  soSHL_SndReq, siSHL_SndRep, soSHL_Data,
  toeOpen, toeLast, toeGrants, toeGot, toeNoSpace,              \* the TOE
  crossed             \* history: COn's last open request crossed an older one

rdpVars == << ssRDpToCOn_OpnSockReq, ssRDpToCOn_TxCountReq, rdpCmds >>
conVars == << con_fsmState, con_testSockAddr, con_opnRep, con_txBytesReq >>
txReqVars == << ssCOnToWRp_TxBytesReq, ssCOnToWRp_TxSessId >>
opnVars == << soSHL_OpnReq, siSHL_OpnRep, soSHL_ClsReq >>
tafVars == << siTAF_SessId, siTAF_DatLen, siTAF_Data, tafSeg, tafLeft >>
wrpVars == << wrp_fsmState, wrp_genChunk, wrp_sendReq, wrp_testMode, wrp_retryCnt >>
sndVars == << soSHL_SndReq, siSHL_SndRep, soSHL_Data >>
toeVars == << toeOpen, toeLast, toeGrants, toeGot, toeNoSpace >>
vars == << piSHL_Enable, rdpVars, conVars, txReqVars, opnVars, tafVars, wrpVars,
           sndVars, toeVars, crossed >>

-----------------------------------------------------------------------------
(* The messages.  A chunk of TAF is named by the number of its segment, a   *)
(* generated one, which belongs to no segment, by its pattern.              *)

SndReq == [sessId : SessIds, length : Nat]
OpnRep == [sessId : SessIds, tcpState : {"ESTABLISHED", "CLOSED"}]
GenChunks == {"GEN_CHK0", "GEN_CHK1"}
Chunk == [seg : Nat, data : GenChunks \cup {"TAF"}, len : 1..ARW_BYTES, tlast : BOOLEAN]

LenOfChunk(left) == IF left > ARW_BYTES THEN ARW_BYTES ELSE left

ASSUME TxResidueAssumption ==
  Residues \subseteq Seq(OpnRep) /\ PendingOpens \subseteq Seq(Socks)

AnySess == CHOOSE s \in SessIds : TRUE

Init ==
  /\ piSHL_Enable = FALSE
  /\ ssRDpToCOn_OpnSockReq = << >> /\ ssRDpToCOn_TxCountReq = << >> /\ rdpCmds = 0
  /\ con_fsmState = "CON_IDLE" /\ con_testSockAddr = NoSock /\ con_txBytesReq = 0
  /\ con_opnRep = [sessId |-> AnySess, tcpState |-> "CLOSED"]
  /\ ssCOnToWRp_TxBytesReq = << >> /\ ssCOnToWRp_TxSessId = << >>
  /\ soSHL_OpnReq \in PendingOpens /\ siSHL_OpnRep \in Residues /\ soSHL_ClsReq = << >>
  /\ siTAF_SessId = << >> /\ siTAF_DatLen = << >> /\ siTAF_Data = << >>
  /\ tafSeg = 0 /\ tafLeft = 0
  /\ wrp_fsmState = "WRP_IDLE" /\ wrp_genChunk = "GEN_CHK0"
  /\ wrp_sendReq = [sessId |-> AnySess, length |-> 0]
  /\ wrp_testMode = FALSE /\ wrp_retryCnt = 0
  /\ soSHL_SndReq = << >> /\ siSHL_SndRep = << >> /\ soSHL_Data = << >>
  /\ toeOpen = TafSessIds \cup {siSHL_OpnRep[i].sessId : i \in DOMAIN siSHL_OpnRep}
  /\ toeLast = [sessId |-> AnySess, sock |-> NoSock]
  /\ toeGrants = << >> /\ toeGot = 0 /\ toeNoSpace = 0
  /\ crossed = FALSE

-----------------------------------------------------------------------------
(* The environment.                                                         *)

\* The SHELL sets or clears the enable bit when it likes: nothing tells it whether
\* COn has drained the replies of before a reset.
MmioEnable ==
  /\ piSHL_Enable' = ~piSHL_Enable
  /\ UNCHANGED << rdpVars, conVars, txReqVars, opnVars, tafVars, wrpVars, sndVars, toeVars,
                  crossed >>

\* RDp forwards the command of a segment received on port 8801.
RdpCommand(sock, count) ==
  /\ rdpCmds < MaxCmds
  /\ HasRoom(ssRDpToCOn_OpnSockReq, cDepth_RDpToCOn)
  /\ HasRoom(ssRDpToCOn_TxCountReq, cDepth_RDpToCOn)
  /\ ssRDpToCOn_OpnSockReq' = Append(ssRDpToCOn_OpnSockReq, sock)
  /\ ssRDpToCOn_TxCountReq' = Append(ssRDpToCOn_TxCountReq, count)
  /\ rdpCmds' = rdpCmds + 1
  /\ UNCHANGED << piSHL_Enable, conVars, txReqVars, opnVars, tafVars, wrpVars, sndVars,
                  toeVars, crossed >>

\* TAF announces a segment, and then writes its chunks up to TLAST.
TafAnnounce(s, n) ==
  /\ tafLeft = 0 /\ tafSeg < MaxSegs
  /\ HasRoom(siTAF_SessId, cDepth_TAF)
  /\ HasRoom(siTAF_DatLen, cDepth_TAF)
  /\ siTAF_SessId' = Append(siTAF_SessId, s)
  /\ siTAF_DatLen' = Append(siTAF_DatLen, n)
  /\ tafSeg' = tafSeg + 1
  /\ tafLeft' = n
  /\ UNCHANGED << piSHL_Enable, rdpVars, conVars, txReqVars, opnVars, siTAF_Data, wrpVars,
                  sndVars, toeVars, crossed >>

TafChunk ==
  /\ tafLeft > 0
  /\ HasRoom(siTAF_Data, cDepth_TAF)
  /\ siTAF_Data' = Append(siTAF_Data, [seg |-> tafSeg, data |-> "TAF", tlast |-> tafLeft <= ARW_BYTES,
                                       len |-> LenOfChunk(tafLeft)])
  /\ tafLeft' = tafLeft - LenOfChunk(tafLeft)
  /\ UNCHANGED << piSHL_Enable, rdpVars, conVars, txReqVars, opnVars, siTAF_SessId,
                  siTAF_DatLen, tafSeg, wrpVars, sndVars, toeVars, crossed >>

\* The TOE opens a connection on a free session, or fails to; without a free
\* session it fails.
ToeOpen(s, state) ==
  /\ soSHL_OpnReq # << >>
  /\ HasRoom(siSHL_OpnRep, cDepth_Shell)
  /\ s \notin toeOpen \/ (toeOpen = SessIds /\ state # "ESTABLISHED")
  /\ siSHL_OpnRep' = Append(siSHL_OpnRep, [sessId |-> s, tcpState |-> state])
  /\ \/ /\ state = "ESTABLISHED"
        /\ toeOpen' = toeOpen \cup {s}
        /\ toeLast' = [sessId |-> s, sock |-> Head(soSHL_OpnReq)]
     \/ /\ state # "ESTABLISHED"
        /\ UNCHANGED << toeOpen, toeLast >>
  /\ soSHL_OpnReq' = Dequeue(soSHL_OpnReq)
  /\ UNCHANGED << piSHL_Enable, rdpVars, conVars, txReqVars, soSHL_ClsReq, tafVars, wrpVars,
                  sndVars, toeGrants, toeGot, toeNoSpace, crossed >>

ToeClose ==
  /\ soSHL_ClsReq # << >>
  /\ toeOpen' = toeOpen \ {Head(soSHL_ClsReq)}
  /\ soSHL_ClsReq' = Dequeue(soSHL_ClsReq)
  /\ UNCHANGED << piSHL_Enable, rdpVars, conVars, txReqVars, soSHL_OpnReq, siSHL_OpnRep,
                  tafVars, wrpVars, sndVars, toeLast, toeGrants, toeGot, toeNoSpace,
                  crossed >>

\* The remote end closes a connection.
ToePeerCloses(s) ==
  /\ s \in toeOpen
  /\ toeOpen' = toeOpen \ {s}
  /\ UNCHANGED << piSHL_Enable, rdpVars, conVars, txReqVars, opnVars, tafVars, wrpVars,
                  sndVars, toeLast, toeGrants, toeGot, toeNoSpace, crossed >>

\* The TOE answers a request to send.  toeNoSpace counts its successive
\* NO_SPACE answers.
ToeSndRep(error) ==
  /\ soSHL_SndReq # << >>
  /\ HasRoom(siSHL_SndRep, cDepth_Shell)
  /\ LET req == Head(soSHL_SndReq)
     IN /\ (error = "NO_CONNECTION") <=> (req.sessId \notin toeOpen)
        /\ siSHL_SndRep' = Append(siSHL_SndRep, error)
        /\ toeGrants' = IF error = "NO_ERROR" THEN Append(toeGrants, req) ELSE toeGrants
  /\ toeNoSpace' = IF error = "NO_SPACE" THEN toeNoSpace + 1 ELSE 0
  /\ soSHL_SndReq' = Dequeue(soSHL_SndReq)
  /\ UNCHANGED << piSHL_Enable, rdpVars, conVars, txReqVars, opnVars, tafVars, wrpVars,
                  soSHL_Data, toeOpen, toeLast, toeGot, crossed >>

\* The TOE takes a chunk of the segment it has granted.
ToeData ==
  /\ soSHL_Data # << >>
  /\ LET chunk == Head(soSHL_Data)
     IN IF chunk.tlast
        THEN /\ toeGot' = 0
             /\ toeGrants' = Tail(toeGrants)
        ELSE /\ toeGot' = toeGot + chunk.len
             /\ UNCHANGED toeGrants
  /\ soSHL_Data' = Dequeue(soSHL_Data)
  /\ UNCHANGED << piSHL_Enable, rdpVars, conVars, txReqVars, opnVars, tafVars, wrpVars,
                  soSHL_SndReq, siSHL_SndRep, toeOpen, toeLast, toeNoSpace, crossed >>

-----------------------------------------------------------------------------
(* Connect.                                                                 *)

\* The replies to come, or waiting, that COn does not wait for.
Unasked ==
  Len(soSHL_OpnReq) + Len(siSHL_OpnRep) - (IF con_fsmState = "CON_OPN_REP" THEN 1 ELSE 0)

ConUnchanged == UNCHANGED << piSHL_Enable, rdpCmds, tafVars, wrpVars, sndVars, toeVars >>

\* While the role is disabled COn drains the replies it did not ask for, and
\* asks the TOE to close their sessions.
ConIdleDrain ==
  /\ con_fsmState = "CON_IDLE"
  /\ ~piSHL_Enable
  /\ siSHL_OpnRep # << >>
  /\ HasRoom(soSHL_ClsReq, cDepth_Shell)
  /\ con_opnRep' = Head(siSHL_OpnRep)
  /\ siSHL_OpnRep' = Dequeue(siSHL_OpnRep)
  /\ soSHL_ClsReq' = Append(soSHL_ClsReq, con_opnRep'.sessId)
  /\ UNCHANGED << ssRDpToCOn_OpnSockReq, ssRDpToCOn_TxCountReq, con_fsmState,
                  con_testSockAddr, con_txBytesReq, txReqVars, soSHL_OpnReq, crossed >>
  /\ ConUnchanged

ConIdle ==
  /\ con_fsmState = "CON_IDLE"
  /\ piSHL_Enable
  /\ con_fsmState' = "CON_RD_RDp"
  /\ UNCHANGED << ssRDpToCOn_OpnSockReq, ssRDpToCOn_TxCountReq, con_testSockAddr,
                  con_opnRep, con_txBytesReq, txReqVars, opnVars, crossed >>
  /\ ConUnchanged

\* Seeded fault: any socket is taken for the one that was opened.
IsOpened_Any(sock) == TRUE

IsOpened(sock) == sock = con_testSockAddr

\* What COn does with the command {sock, count}: a count of 0 opens the
\* socket, another one sends to the socket opened last, or is refused.
ConCommand(sock, count) ==
  \/ /\ count = 0
     /\ con_fsmState' = "CON_OPN_REQ"
     /\ con_testSockAddr' = sock
  \/ /\ count # 0
     /\ con_fsmState' = IF IsOpened(sock) THEN "CON_WR_WRp" ELSE "CON_RD_RDp"
     /\ UNCHANGED con_testSockAddr

ConRdRDp ==
  /\ con_fsmState = "CON_RD_RDp"
  /\ ssRDpToCOn_OpnSockReq # << >>
  /\ ssRDpToCOn_TxCountReq # << >>
  /\ ConCommand(Head(ssRDpToCOn_OpnSockReq), Head(ssRDpToCOn_TxCountReq))
  /\ con_txBytesReq' = Head(ssRDpToCOn_TxCountReq)
  /\ ssRDpToCOn_OpnSockReq' = Dequeue(ssRDpToCOn_OpnSockReq)
  /\ ssRDpToCOn_TxCountReq' = Dequeue(ssRDpToCOn_TxCountReq)
  /\ UNCHANGED << con_opnRep, txReqVars, opnVars, crossed >>
  /\ ConUnchanged

\* The request crosses what COn has left of earlier ones: it was enabled before it
\* had drained their replies, or before they came.
ConOpnReq ==
  /\ con_fsmState = "CON_OPN_REQ"
  /\ HasRoom(soSHL_OpnReq, cDepth_Shell)
  /\ soSHL_OpnReq' = Append(soSHL_OpnReq, con_testSockAddr)
  /\ con_fsmState' = "CON_OPN_REP"
  /\ crossed' = (Unasked > 0)
  /\ UNCHANGED << ssRDpToCOn_OpnSockReq, ssRDpToCOn_TxCountReq, con_testSockAddr,
                  con_opnRep, con_txBytesReq, txReqVars, siSHL_OpnRep, soSHL_ClsReq >>
  /\ ConUnchanged

\* Seeded fault: COn gives up an open request that is not answered yet.
ConOpnRep_GivesUp ==
  /\ con_fsmState = "CON_OPN_REP"
  /\ con_fsmState' = "CON_IDLE"
  /\ IF siSHL_OpnRep # << >>
     THEN con_opnRep' = Head(siSHL_OpnRep) /\ siSHL_OpnRep' = Dequeue(siSHL_OpnRep)
     ELSE UNCHANGED << con_opnRep, siSHL_OpnRep >>
  /\ UNCHANGED << ssRDpToCOn_OpnSockReq, ssRDpToCOn_TxCountReq, con_testSockAddr,
                  con_txBytesReq, txReqVars, soSHL_OpnReq, soSHL_ClsReq, crossed >>
  /\ ConUnchanged

\* The reply is stored whatever the state of the connection it reports.
ConOpnRep ==
  /\ con_fsmState = "CON_OPN_REP"
  /\ siSHL_OpnRep # << >>
  /\ con_opnRep' = Head(siSHL_OpnRep)
  /\ siSHL_OpnRep' = Dequeue(siSHL_OpnRep)
  /\ con_fsmState' = "CON_IDLE"
  /\ UNCHANGED << ssRDpToCOn_OpnSockReq, ssRDpToCOn_TxCountReq, con_testSockAddr,
                  con_txBytesReq, txReqVars, soSHL_OpnReq, soSHL_ClsReq, crossed >>
  /\ ConUnchanged

ConWrWRp ==
  /\ con_fsmState = "CON_WR_WRp"
  /\ HasRoom(ssCOnToWRp_TxBytesReq, cDepth_COnToWRp)
  /\ HasRoom(ssCOnToWRp_TxSessId, cDepth_COnToWRp)
  /\ ssCOnToWRp_TxBytesReq' = Append(ssCOnToWRp_TxBytesReq, con_txBytesReq)
  /\ ssCOnToWRp_TxSessId' = Append(ssCOnToWRp_TxSessId, con_opnRep.sessId)
  /\ con_fsmState' = "CON_IDLE"
  /\ UNCHANGED << ssRDpToCOn_OpnSockReq, ssRDpToCOn_TxCountReq, con_testSockAddr,
                  con_opnRep, con_txBytesReq, opnVars, crossed >>
  /\ ConUnchanged

COn == ConIdleDrain \/ ConIdle \/ ConRdRDp \/ ConOpnReq \/ ConOpnRep \/ ConWrWRp

-----------------------------------------------------------------------------
(* Write Path.                                                              *)

WrpUnchanged ==
  UNCHANGED << piSHL_Enable, rdpVars, conVars, opnVars, tafSeg, tafLeft, toeVars, crossed >>

\* A request of n bytes on session s starts the state machine, unless n is 0.
WrpStart(s, n, test) ==
  /\ wrp_sendReq' = [sessId |-> s, length |-> n]
  /\ IF n # 0
     THEN /\ wrp_testMode' = test
          /\ wrp_retryCnt' = RetryCnt
          /\ wrp_fsmState' = "WRP_RTS"
     ELSE UNCHANGED << wrp_testMode, wrp_retryCnt, wrp_fsmState >>

TestWaits == ssCOnToWRp_TxSessId # << >> /\ ssCOnToWRp_TxBytesReq # << >>

\* "Always give priority to the Tx test generator".
WrpIdleTest ==
  /\ piSHL_Enable
  /\ wrp_fsmState = "WRP_IDLE"
  /\ TestWaits
  /\ WrpStart(Head(ssCOnToWRp_TxSessId), Head(ssCOnToWRp_TxBytesReq), TRUE)
  /\ ssCOnToWRp_TxSessId' = Dequeue(ssCOnToWRp_TxSessId)
  /\ ssCOnToWRp_TxBytesReq' = Dequeue(ssCOnToWRp_TxBytesReq)
  /\ UNCHANGED << wrp_genChunk, siTAF_SessId, siTAF_DatLen, siTAF_Data, sndVars >>
  /\ WrpUnchanged

WrpIdleTaf ==
  /\ piSHL_Enable
  /\ wrp_fsmState = "WRP_IDLE"
  /\ ~TestWaits
  /\ siTAF_SessId # << >>
  /\ siTAF_DatLen # << >>
  /\ WrpStart(Head(siTAF_SessId), Head(siTAF_DatLen), FALSE)
  /\ siTAF_SessId' = Dequeue(siTAF_SessId)
  /\ siTAF_DatLen' = Dequeue(siTAF_DatLen)
  /\ UNCHANGED << wrp_genChunk, siTAF_Data, txReqVars, sndVars >>
  /\ WrpUnchanged

WrpRts ==
  /\ piSHL_Enable
  /\ wrp_fsmState = "WRP_RTS"
  /\ HasRoom(soSHL_SndReq, cDepth_Shell)
  /\ soSHL_SndReq' = Append(soSHL_SndReq, wrp_sendReq)
  /\ wrp_fsmState' = "WRP_RTS_REP"
  /\ UNCHANGED << wrp_genChunk, wrp_sendReq, wrp_testMode, wrp_retryCnt, siTAF_SessId,
                  siTAF_DatLen, siTAF_Data, txReqVars, siSHL_SndRep, soSHL_Data >>
  /\ WrpUnchanged

\* Seeded faults: a retry more than the count allows; one less.
MayRetry_More == wrp_retryCnt >= 0
MayRetry_Less == wrp_retryCnt > 1

MayRetry == wrp_retryCnt > 0

\* Where WRp goes with an answer to its request: a test that cannot be sent is
\* forgotten, a segment of TAF must be drained from its stream.
AfterSndRep(error) ==
  LET abandon == IF wrp_testMode THEN "WRP_IDLE" ELSE "WRP_DRAIN"
  IN CASE error = "NO_ERROR" -> IF wrp_testMode THEN "WRP_TXGEN" ELSE "WRP_STREAM"
       [] error = "NO_SPACE" -> IF MayRetry THEN "WRP_RTS" ELSE abandon
       [] error = "NO_CONNECTION" -> abandon
       [] OTHER -> "WRP_IDLE"

\* Seeded fault: the pattern goes on from where the last test left it.
GenChunkAfter_Kept(error) == wrp_genChunk

\* A granted test starts from the first chunk of the pattern.
GenChunkAfter(error) ==
  IF error = "NO_ERROR" /\ wrp_testMode THEN "GEN_CHK0" ELSE wrp_genChunk

WrpRtsRep ==
  /\ piSHL_Enable
  /\ wrp_fsmState = "WRP_RTS_REP"
  /\ siSHL_SndRep # << >>
  /\ LET error == Head(siSHL_SndRep)
     IN /\ wrp_fsmState' = AfterSndRep(error)
        /\ wrp_genChunk' = GenChunkAfter(error)
        /\ wrp_retryCnt' = IF error = "NO_SPACE" /\ MayRetry
                           THEN wrp_retryCnt - 1 ELSE wrp_retryCnt
  /\ siSHL_SndRep' = Dequeue(siSHL_SndRep)
  /\ UNCHANGED << wrp_sendReq, wrp_testMode, siTAF_SessId, siTAF_DatLen, siTAF_Data,
                  txReqVars, soSHL_SndReq, soSHL_Data >>
  /\ WrpUnchanged

\* Seeded fault: one chunk of a segment that is given up is drained, not all.
WrpTakesChunk_Once ==
  /\ siTAF_Data # << >>
  /\ siTAF_Data' = Dequeue(siTAF_Data)
  /\ wrp_fsmState' = IF Head(siTAF_Data).tlast \/ wrp_fsmState = "WRP_DRAIN"
                     THEN "WRP_IDLE" ELSE wrp_fsmState
  /\ UNCHANGED << wrp_genChunk, wrp_sendReq, wrp_testMode, wrp_retryCnt, siTAF_SessId,
                  siTAF_DatLen, txReqVars, soSHL_SndReq, siSHL_SndRep >>
  /\ WrpUnchanged

\* A chunk of TAF leaves its stream; TLAST ends the segment.
WrpTakesChunk ==
  /\ siTAF_Data # << >>
  /\ siTAF_Data' = Dequeue(siTAF_Data)
  /\ wrp_fsmState' = IF Head(siTAF_Data).tlast THEN "WRP_IDLE" ELSE wrp_fsmState
  /\ UNCHANGED << wrp_genChunk, wrp_sendReq, wrp_testMode, wrp_retryCnt, siTAF_SessId,
                  siTAF_DatLen, txReqVars, soSHL_SndReq, siSHL_SndRep >>
  /\ WrpUnchanged

WrpStream ==
  /\ piSHL_Enable
  /\ wrp_fsmState = "WRP_STREAM"
  /\ HasRoom(soSHL_Data, cDepth_Shell)
  /\ WrpTakesChunk
  /\ soSHL_Data' = Append(soSHL_Data, Head(siTAF_Data))

WrpDrain ==
  /\ piSHL_Enable
  /\ wrp_fsmState = "WRP_DRAIN"
  /\ WrpTakesChunk
  /\ UNCHANGED soSHL_Data

\* Seeded fault: a last chunk that is full is not taken for the last.
IsLastChunk_Strict(left) == left < ARW_BYTES

IsLastChunk(left) == left <= ARW_BYTES

\* A chunk of the test pattern; the last one ends with the request.
WrpTxGen ==
  /\ piSHL_Enable
  /\ wrp_fsmState = "WRP_TXGEN"
  /\ HasRoom(soSHL_Data, cDepth_Shell)
  /\ LET last == IsLastChunk(wrp_sendReq.length)
     IN /\ soSHL_Data' = Append(soSHL_Data, [seg |-> 0, data |-> wrp_genChunk, tlast |-> last,
                                             len |-> LenOfChunk(wrp_sendReq.length)])
        /\ wrp_sendReq' = IF last THEN wrp_sendReq
                          ELSE [wrp_sendReq EXCEPT !.length = @ - ARW_BYTES]
        /\ wrp_fsmState' = IF last THEN "WRP_IDLE" ELSE wrp_fsmState
  /\ wrp_genChunk' = IF wrp_genChunk = "GEN_CHK0" THEN "GEN_CHK1" ELSE "GEN_CHK0"
  /\ UNCHANGED << wrp_testMode, wrp_retryCnt, siTAF_SessId, siTAF_DatLen, siTAF_Data,
                  txReqVars, soSHL_SndReq, siSHL_SndRep >>
  /\ WrpUnchanged

WRp ==
  \/ WrpIdleTest \/ WrpIdleTaf \/ WrpRts \/ WrpRtsRep
  \/ WrpStream \/ WrpDrain \/ WrpTxGen

-----------------------------------------------------------------------------
SndReplies == SndErrors \cup {"NO_CONNECTION"}

TOE ==
  \/ \E s \in SessIds, state \in OpnStates : ToeOpen(s, state)
  \/ ToeClose
  \/ \E error \in SndReplies : ToeSndRep(error)
  \/ ToeData

Next ==
  \/ MmioEnable
  \/ \E sock \in Socks, count \in TxCounts : RdpCommand(sock, count)
  \/ \E s \in TafSessIds, n \in DatLens : TafAnnounce(s, n)
  \/ TafChunk
  \/ \E s \in SessIds : ToePeerCloses(s)
  \/ TOE \/ COn \/ WRp

Spec == Init /\ [][Next]_vars

-----------------------------------------------------------------------------
(* Properties.                                                              *)

\* Every variable keeps its type.
TypeOK ==
  /\ piSHL_Enable \in BOOLEAN
  /\ ssRDpToCOn_OpnSockReq \in Seq(Socks) /\ ssRDpToCOn_TxCountReq \in Seq(TxCounts)
  /\ rdpCmds \in 0..MaxCmds
  /\ con_fsmState \in {"CON_IDLE", "CON_RD_RDp", "CON_OPN_REQ", "CON_OPN_REP", "CON_WR_WRp"}
  /\ con_testSockAddr \in Socks \cup {NoSock}
  /\ con_opnRep \in OpnRep /\ con_txBytesReq \in Nat
  /\ ssCOnToWRp_TxBytesReq \in Seq(Nat) /\ ssCOnToWRp_TxSessId \in Seq(SessIds)
  /\ soSHL_OpnReq \in Seq(Socks) /\ siSHL_OpnRep \in Seq(OpnRep)
  /\ soSHL_ClsReq \in Seq(SessIds)
  /\ siTAF_SessId \in Seq(SessIds) /\ siTAF_DatLen \in Seq(Nat) /\ siTAF_Data \in Seq(Chunk)
  /\ tafSeg \in 0..MaxSegs /\ tafLeft \in Nat
  /\ wrp_fsmState \in {"WRP_IDLE", "WRP_RTS", "WRP_RTS_REP", "WRP_STREAM", "WRP_TXGEN",
                       "WRP_DRAIN"}
  /\ wrp_genChunk \in GenChunks /\ wrp_sendReq \in SndReq
  /\ wrp_testMode \in BOOLEAN /\ wrp_retryCnt \in 0..RetryCnt
  /\ soSHL_SndReq \in Seq(SndReq) /\ siSHL_SndRep \in Seq(SndReplies)
  /\ soSHL_Data \in Seq(Chunk)
  /\ toeOpen \subseteq SessIds /\ toeGrants \in Seq(SndReq)
  /\ toeGot \in Nat /\ toeNoSpace \in Nat
  /\ crossed \in BOOLEAN

\* The chunks that reach the TOE fill the segment it has granted, to the byte,
\* and TLAST comes with the last byte: segments of TAF and of the test
\* generator neither mix nor slip, whatever the TOE refuses in between.
GrantsFilled ==
  soSHL_Data # << >> =>
    /\ toeGrants # << >>
    /\ LET chunk == Head(soSHL_Data)
           left == Head(toeGrants).length - toeGot
       IN /\ chunk.len <= left
          /\ chunk.tlast <=> chunk.len = left

\* A generated segment starts with GEN_CHK0 and alternates.
TestPattern ==
  soSHL_Data # << >> /\ Head(soSHL_Data).seg = 0 =>
    Head(soSHL_Data).data = IF (toeGot \div ARW_BYTES) % 2 = 0
                            THEN "GEN_CHK0" ELSE "GEN_CHK1"

\* WRp forwards or drains the segment of the request it has read last: the
\* segments it has not reached yet are announced in its streams.
TafAligned ==
  wrp_fsmState \in {"WRP_STREAM", "WRP_DRAIN"} /\ siTAF_Data # << >> =>
    Head(siTAF_Data).seg = tafSeg - Len(siTAF_SessId)

\* A segment of TAF is drained only when its session is not established or
\* after RetryCnt retries ("may give up after a maximum number of trials"):
\* refusals in a row come RetryCnt + 1 to a request that is given up.
GivesUpLate ==
  [][wrp_fsmState = "WRP_RTS_REP" /\ wrp_fsmState' = "WRP_DRAIN"
       => \/ Head(siSHL_SndRep) = "NO_CONNECTION"
          \/ toeNoSpace > 0 /\ toeNoSpace % (RetryCnt + 1) = 0]_vars

\* The reply that COn waits for is on its way, and those nobody waits for only become
\* fewer: no change of the enable bit makes COn leave one behind, and what it has
\* drained does not come back.
NothingLeftBehind == [][Unasked' \in 0..Unasked]_vars

\* COn sends "to the *LAST* opened connection" (tcp_shell_if.cpp:123-124): to
\* the session the TOE opened last, for the socket that the command names, unless
\* its open request has crossed one of before a reset.
SendsToLastOpened ==
  con_fsmState = "CON_WR_WRp" /\ ~crossed =>
    toeLast = [sessId |-> con_opnRep.sessId, sock |-> con_testSockAddr]

\* Every test command and every segment of TAF is sent, refused or drained.
TxIdle ==
  /\ ssRDpToCOn_OpnSockReq = << >> /\ ssCOnToWRp_TxSessId = << >>
  /\ siTAF_SessId = << >> /\ siTAF_Data = << >> /\ tafLeft = 0
  /\ wrp_fsmState = "WRP_IDLE" /\ soSHL_Data = << >> /\ toeGrants = << >>
=============================================================================
