--------------------------------- MODULE Tsif ---------------------------------
(***************************************************************************)
(* The TCP Shell Interface as a whole, and the echo loop through TAF.      *)
(*                                                                         *)
(*   TOE ==> RNh .. RDp ---Data, SessId, DatLen---> TAF ---+               *)
(*                   \--OpnSockReq, TxCountReq--> COn      |               *)
(*                                                 v       v               *)
(*   TOE <---------------- Data, SndReq ----------  WRp <--+               *)
(*                                                                         *)
(* TsifRx and TsifTx are composed: each takes the place of a part of the   *)
(* other's environment, and they share the enable bit, the streams from    *)
(* RDp to COn and TAF.  A step of a process that both modules know is a    *)
(* step of both; another one leaves the rest alone.  TAF passes a segment  *)
(* on as it reads it: what it could store would only relieve RDp.          *)
(***************************************************************************)
EXTENDS TsifRxCredit

CONSTANTS
  TxSessIds,          \* the sessions the TOE sends on
  NoSock, OpnStates, SndErrors, RetryCnt,         \* as in TsifTx
  cDepth_COnToWRp,
  MaxSplits           \* bound of the model: requests that a segment is read in

ASSUME SplitAssumption == MaxSplits \in Nat \ {0}

VARIABLES
  rdpCmds,
  con_fsmState, con_testSockAddr, con_opnRep, con_txBytesReq,
  ssCOnToWRp_TxBytesReq, ssCOnToWRp_TxSessId,
  soSHL_OpnReq, siSHL_OpnRep, soSHL_ClsReq,
  siTAF_SessId, siTAF_DatLen, siTAF_Data, tafSeg,
  wrp_fsmState, wrp_genChunk, wrp_sendReq, wrp_testMode, wrp_retryCnt,
  soSHL_SndReq, siSHL_SndRep, soSHL_Data,
  toeOpen, toeLast, toeGrants, toeGot, toeNoSpace, crossed

Echoed == {s \in SessIds : ~Dropped(s)}

Tx == INSTANCE TsifTx WITH
  SessIds <- TxSessIds, TafSessIds <- Echoed, DatLens <- Nat \ {0},
  Residues <- {<< >>}, PendingOpens <- {<< >>},
  MaxCmds <- MaxNotifs * MaxSplits, MaxSegs <- MaxNotifs * MaxSplits

\* TSIF may send on the sessions it receives on.
ASSUME TransmitAssumption ==
  /\ Echoed \subseteq TxSessIds /\ TxSessIds # {} /\ NoSock \notin Socks
  /\ OpnStates \subseteq {"ESTABLISHED", "CLOSED"} /\ SndErrors \subseteq {"NO_ERROR", "NO_SPACE"}
  /\ RetryCnt \in Nat /\ cDepth_COnToWRp \in Nat \ {0}

\* What belongs to one side alone.
rxVars == << shlVars, ssRNhToRRh_Notif, rrhVars, reqVars, irbVars, rdpVars,
             ssRDpToRRh_Dequeue, soTAF_Data, soTAF_SessId, soTAF_DatLen, tafSess, tafPos >>
txVars == << rdpCmds, con_fsmState, con_testSockAddr, con_opnRep, con_txBytesReq,
             ssCOnToWRp_TxBytesReq, ssCOnToWRp_TxSessId, soSHL_OpnReq, siSHL_OpnRep,
             soSHL_ClsReq, siTAF_SessId, siTAF_DatLen, siTAF_Data, tafSeg, wrp_fsmState,
             wrp_genChunk, wrp_sendReq, wrp_testMode, wrp_retryCnt, soSHL_SndReq,
             siSHL_SndRep, soSHL_Data, toeOpen, toeLast, toeGrants, toeGot, toeNoSpace,
             crossed >>
allVars == << vars, txVars >>

TsifInit == Init /\ Tx!Init

-----------------------------------------------------------------------------
\* One bit of the MMIO registers enables both sides.
MmioBit == MmioEnable /\ Tx!MmioEnable

RDpRest == RDpIdle \/ RDpFwdMeta \/ RDpFwdStream \/ RDpSinkMeta \/ RDpSinkStream

\* RDp hands the test command of a chunk to COn.
RDpToCOn(sock, count) == RDp8801(sock, count) /\ Tx!RdpCommand(sock, count)

ReadPath ==
  \/ RDpRest /\ UNCHANGED txVars
  \/ \E sock \in Socks, count \in TxCounts : RDpToCOn(sock, count)

\* COn takes a command; it does the rest alone.  ConIdleDrain and with it the TOE's
\* ToeClose are left out: they are for replies of before a reset of the role, and
\* there is none here.
COnTakes == COnRead /\ Tx!ConRdRDp
COnRest == Tx!ConIdle \/ Tx!ConOpnReq \/ Tx!ConOpnRep \/ Tx!ConWrWRp

Connect == COnTakes \/ (COnRest /\ UNCHANGED << rxVars, tafLeft >>)

TafMeta == TafReadMeta /\ Tx!TafAnnounce(Head(soTAF_SessId), Head(soTAF_DatLen))
TafData == TafReadData /\ Tx!TafChunk
TAF == TafMeta \/ TafData

WritePath == Tx!WRp /\ UNCHANGED << rxVars, tafLeft >>

\* A connection that its remote end has closed delivers nothing more; what it has
\* delivered may still be anywhere between the TOE and WRp.
ToeReceives ==
  \E s \in SessIds, n \in SegLens :
    /\ s \in Echoed => s \in toeOpen
    /\ ToeNotify(s, n)
    /\ UNCHANGED txVars
PeerCloses == \E s \in TxSessIds : Tx!ToePeerCloses(s) /\ UNCHANGED << rxVars, tafLeft >>
ToeServes == ToeServe /\ UNCHANGED txVars
ToeOpens ==
  /\ \E s \in TxSessIds, state \in OpnStates : Tx!ToeOpen(s, state)
  /\ UNCHANGED << rxVars, tafLeft >>
ToeGrants ==
  /\ \E error \in SndErrors \cup {"NO_CONNECTION"} : Tx!ToeSndRep(error)
  /\ UNCHANGED << rxVars, tafLeft >>
ToeTakes == Tx!ToeData /\ UNCHANGED << rxVars, tafLeft >>

TsifNext ==
  \/ MmioBit
  \/ ToeReceives \/ ToeServes \/ PeerCloses \/ ToeOpens \/ ToeGrants \/ ToeTakes
  \/ (RNh \/ IRb \/ RRm \/ RRh) /\ UNCHANGED txVars
  \/ ReadPath \/ Connect \/ TAF \/ WritePath

TsifSpec == TsifInit /\ [][TsifNext]_allVars

\* The fairness of TsifRx and TsifTx: every process is invoked again and
\* again, and the TOE answers on each of its streams.
TsifFairSpec ==
  /\ TsifSpec
  /\ WF_allVars(RNh /\ UNCHANGED txVars) /\ WF_allVars(IRb /\ UNCHANGED txVars)
  /\ WF_allVars(RRm /\ UNCHANGED txVars) /\ WF_allVars(RRh /\ UNCHANGED txVars)
  /\ WF_allVars(ReadPath) /\ WF_allVars(Connect) /\ WF_allVars(TAF) /\ WF_allVars(WritePath)
  /\ WF_allVars(ToeServes) /\ WF_allVars(ToeOpens) /\ WF_allVars(ToeGrants)
  /\ WF_allVars(ToeTakes)

-----------------------------------------------------------------------------
(* Properties.                                                              *)

\* The chunk TAF reads is the one it owes to WRp for the length it has announced,
\* whatever RRh has made of the segment: neither path holds the other back here.
PassedOnWhole ==
  tafLeft > 0 /\ soTAF_Data # << >> =>
    LET chunk == Head(soTAF_Data)
    IN /\ chunk.len = Tx!LenOfChunk(tafLeft)
       /\ chunk.tlast <=> chunk.len = tafLeft

\* While the role stays enabled nothing waits for ever, though RDp stalls on
\* COn and on TAF, COn on the TOE and on WRp, WRp on TAF, and connections close:
\* every segment received is consumed, every command and every echo is sent, refused
\* or drained.  The TOE need only answer.  The exception is a count of the free space
\* that has passed the top of its register and fallen short: RRh may then wait for
\* space that it does not know to be free.
AllServed ==
  <>[]piSHL_Enable => <>[](~NeverShort \/ (RxIdle /\ Tx!TxIdle))
=============================================================================
