----------------------------- MODULE TsifRxCredit -----------------------------
(***************************************************************************)
(* Properties of TsifRx that count bytes and chunks along the whole path:  *)
(* the credits behind rrh_freeSpace and the bytes of a notification.       *)
(***************************************************************************)
EXTENDS TsifRx, SequencesExt

SumOver(q, f(_)) == SumFunction([i \in DOMAIN q |-> f(q[i])])

ChunksRequested(q) == SumOver(q, LAMBDA req : Chunks(req.datLen))

\* The chunks RRh has reserved and RDp has not yet taken.
Committed ==
  (IF rrh_fsmState = "RRH_SEND_DREQ" THEN Chunks(rrh_datLenReq) ELSE 0)
    + ChunksRequested(ssRRhToRRm_DReq) + ChunksRequested(soSHL_DReq)
    + Len(siSHL_Data) + Len(ssIRbToRDp_Data)

\* Nothing is under way between RRh's requests and RDp.
Quiet == Committed = 0 /\ ssRDpToRRh_Dequeue = 0

\* What RRh counts as free and what it cannot give away: reserved by a request,
\* buffered, or freed and not yet signalled.  It is the size of the buffer as long as
\* the count is exact.
Balance == rrh_freeSpace + ARW_BYTES * (Committed + ssRDpToRRh_Dequeue)

\* RRh requests a part of a notification while a dequeue signal waits: the branch of
\* lines 1194 to 1198, which gives back the chunk and does not take what it requests.
ForgetsRequest == RRhRequestPart /\ ssRDpToRRh_Dequeue > 0

Forgotten == IF ForgetsRequest THEN rrh_freeSpace ELSE 0

\* No step but that one changes the balance, and that one by what it requests, however
\* requests, transfers and signals overlap; an addition that passes the top of the
\* register of the count takes FreeSpaceMod away from it.
CreditKept ==
  [][Balance' \in {Balance + Forgotten, (Balance + Forgotten) - FreeSpaceMod}]_vars

\* RRh counts no less than what is free, so that it does not wait for space there is.
NeverShort == Balance >= cIBuffBytes

\* The free space settles back to its initial value once the path is empty
\* (the testbench's drainDebugSpaceCounter).
SettlesBack == Quiet => rrh_freeSpace = cIBuffBytes

\* A notification split into several requests asks for each of its bytes
\* once: what a session has received and the TOE has not yet streamed is what
\* its notifications and requests still under way amount to.
BytesOf(s, q, f(_)) == SumOver(q, LAMBDA m : IF m.sessId = s THEN f(m) ELSE 0)

Claimed(s) ==
  BytesOf(s, siSHL_Notif \o ssRNhToRRh_Notif, LAMBDA m : m.tcpDatLen)
    + BytesOf(s, ssRRhToRRm_DReq \o soSHL_DReq, LAMBDA m : m.datLen)
    + (IF rrh_fsmState # "RRH_IDLE" /\ rrh_notif.sessId = s
       THEN rrh_notif.tcpDatLen ELSE 0)
    + (IF rrh_fsmState = "RRH_SEND_DREQ" /\ rrh_notif.sessId = s
       THEN rrh_datLenReq ELSE 0)

BytesAccounted == \A s \in SessIds : toeEnd[s] - toeRd[s] = Claimed(s)

\* Every byte received is consumed: for TAF it has reached TAF.
RxIdle ==
  /\ Quiet
  /\ \A s \in SessIds : /\ toeRd[s] = toeEnd[s]
                        /\ ~Dropped(s) => tafPos[s] = toeEnd[s]
=============================================================================
