------------------------------ MODULE UsifListen ------------------------------
(***************************************************************************)
(* The processes Listen (LSn) and Close (CLs) of udp_shell_if.cpp.  LSn    *)
(* asks the UDP Offload Engine (UOE) to open the ports of its table, like  *)
(* that of the TCP side, but its watchdog goes on to the NEXT port.  CLs   *)
(* closes one port that nobody listens on.                                 *)
(*                                                                         *)
(* Time is measured in invocations of LSn: uoeAge is how many of them have *)
(* passed since the UOE could read the request at the head of its stream.  *)
(* The UOE may miss the watchdog once; after that it answers in time.      *)
(***************************************************************************)
EXTENDS Streams

CONSTANTS
  LSN_PORT_TABLE,    \* the ports to open, in the order they are requested
  WatchDog,          \* the value lsn_watchDogTimer is armed with (100; 10 simulated)
  MaxDelay,          \* the UOE answers a request within MaxDelay invocations of LSn,
                     \* and in less than WatchDog of them once the watchdog has expired
  cDepth_Shell       \* depth of the streams between the SHELL and the role

VARIABLES
  piSHL_Enable,                               \* the MMIO enable bit
  lsn_fsmState, lsn_i, lsn_watchDogTimer,     \* LSn
  cls_fsmState,                               \* CLs
  soSHL_LsnReq, siSHL_LsnRep, soSHL_ClsReq, siSHL_ClsRep,
  uoePorts, uoeAge,                           \* the UOE: the ports it listens on
  timedOut                                    \* history: the watchdog has expired

lsnVars == << lsn_fsmState, lsn_i, lsn_watchDogTimer >>
lsnLinkVars == << soSHL_LsnReq, siSHL_LsnRep, uoeAge >>
clsVars == << cls_fsmState, soSHL_ClsReq, siSHL_ClsRep >>
usifListenVars == << lsnVars, lsnLinkVars, uoePorts, timedOut, clsVars >>

NumPorts == Len(LSN_PORT_TABLE)
PortOf(i) == LSN_PORT_TABLE[i + 1]
Ports == {PortOf(i) : i \in 0..(NumPorts - 1)}

\* lsn_i is an ap_uint<3>.
IndexMod == 8
NextIndex == (lsn_i + 1) % IndexMod

\* "Close a fake port to avoid the logic to be synthesized away": 0xDEAD.
ClosePort == 57005

\* A stream of replies may still hold one from before a reset of the role.
UsifListenInit ==
  /\ lsn_fsmState = "LSN_IDLE" /\ lsn_i = 0 /\ lsn_watchDogTimer = 0
  /\ cls_fsmState = "CLS_IDLE"
  /\ soSHL_LsnReq = << >> /\ siSHL_LsnRep = << >> /\ soSHL_ClsReq = << >>
  /\ siSHL_ClsRep \in {<< >>, << "CLOSED" >>}
  /\ uoePorts = {} /\ uoeAge = 0
  /\ timedOut = FALSE

-----------------------------------------------------------------------------
(* The environment.                                                         *)

\* The UOE opens the port that is requested, or refuses to.
UoeListen(rep) ==
  /\ soSHL_LsnReq # << >>
  /\ HasRoom(siSHL_LsnRep, cDepth_Shell)
  /\ uoePorts' = IF rep = "OPENED" THEN uoePorts \cup {Head(soSHL_LsnReq)} ELSE uoePorts
  /\ siSHL_LsnRep' = Append(siSHL_LsnRep, rep)
  /\ soSHL_LsnReq' = Dequeue(soSHL_LsnReq)
  /\ uoeAge' = 0
  /\ UNCHANGED << lsnVars, clsVars, timedOut >>

\* The UOE closes the port that is requested, or leaves it open.
UoeClose(rep) ==
  /\ soSHL_ClsReq # << >>
  /\ HasRoom(siSHL_ClsRep, cDepth_Shell)
  /\ uoePorts' = IF rep = "CLOSED" THEN uoePorts \ {Head(soSHL_ClsReq)} ELSE uoePorts
  /\ siSHL_ClsRep' = Append(siSHL_ClsRep, rep)
  /\ soSHL_ClsReq' = Dequeue(soSHL_ClsReq)
  /\ UNCHANGED << lsnVars, lsnLinkVars, cls_fsmState, timedOut >>

-----------------------------------------------------------------------------
(* Listen.                                                                  *)

LSnUnchanged == UNCHANGED << piSHL_Enable, clsVars, uoePorts >>

LsnIdle ==
  /\ lsn_fsmState = "LSN_IDLE"
  /\ piSHL_Enable
  /\ lsn_fsmState' = IF lsn_i = 0 THEN "LSN_SEND_REQ" ELSE "LSN_DONE"
  /\ UNCHANGED << lsn_i, lsn_watchDogTimer, lsnLinkVars, timedOut >>
  /\ LSnUnchanged

\* Past the end of the table nothing is requested, and LSn waits all the same.
LsnSendReq ==
  /\ lsn_fsmState = "LSN_SEND_REQ"
  /\ HasRoom(soSHL_LsnReq, cDepth_Shell)
  /\ soSHL_LsnReq' = IF lsn_i < NumPorts THEN Append(soSHL_LsnReq, PortOf(lsn_i))
                     ELSE soSHL_LsnReq
  /\ lsn_watchDogTimer' = WatchDog
  /\ lsn_fsmState' = "LSN_WAIT_REP"
  /\ UNCHANGED << lsn_i, siSHL_LsnRep, uoeAge, timedOut >>
  /\ LSnUnchanged

\* Seeded fault: the state of the port in the reply is not looked at.
Accepted_Always(rep) == TRUE

Accepted(rep) == rep = "OPENED"

\* A reply is read, whichever request it answers.
LsnReadRep ==
  /\ lsn_fsmState = "LSN_WAIT_REP"
  /\ siSHL_LsnRep # << >>
  /\ siSHL_LsnRep' = Dequeue(siSHL_LsnRep)
  /\ lsn_watchDogTimer' = lsn_watchDogTimer - 1
  /\ \/ /\ ~Accepted(Head(siSHL_LsnRep))
        /\ lsn_fsmState' = "LSN_SEND_REQ"
        /\ UNCHANGED lsn_i
     \/ /\ Accepted(Head(siSHL_LsnRep))
        /\ lsn_i # NumPorts - 1
        /\ lsn_i' = NextIndex
        /\ lsn_fsmState' = "LSN_SEND_REQ"
     \/ /\ Accepted(Head(siSHL_LsnRep))
        /\ lsn_i = NumPorts - 1
        /\ lsn_fsmState' = "LSN_DONE"
        /\ UNCHANGED lsn_i
  /\ UNCHANGED << soSHL_LsnReq, uoeAge, timedOut >>
  /\ LSnUnchanged

Delay == IF timedOut THEN WatchDog - 1 ELSE MaxDelay

\* Invocations without a reply: time passes, and the watchdog expires.
LsnWaits ==
  /\ lsn_fsmState = "LSN_WAIT_REP"
  /\ siSHL_LsnRep = << >>
  /\ soSHL_LsnReq # << >> => uoeAge < Delay
  /\ lsn_watchDogTimer' = lsn_watchDogTimer - 1
  /\ uoeAge' = IF soSHL_LsnReq # << >> THEN uoeAge + 1 ELSE uoeAge
  /\ UNCHANGED << soSHL_LsnReq, siSHL_LsnRep >>
  /\ LSnUnchanged

LsnTick ==
  /\ LsnWaits
  /\ lsn_watchDogTimer > 1
  /\ UNCHANGED << lsn_fsmState, lsn_i, timedOut >>

\* "Try next listen port number".
LsnTimeout ==
  /\ LsnWaits
  /\ lsn_watchDogTimer = 1
  /\ lsn_i' = NextIndex
  /\ lsn_fsmState' = "LSN_SEND_REQ"
  /\ timedOut' = TRUE

LSn == LsnIdle \/ LsnSendReq \/ LsnReadRep \/ LsnTick \/ LsnTimeout

-----------------------------------------------------------------------------
(* Close.                                                                   *)

CLsUnchanged == UNCHANGED << piSHL_Enable, lsnVars, lsnLinkVars, uoePorts, timedOut >>

\* Seeded fault: the port is never closed once the UOE has refused it.
ClsAfter_GivesUp(rep) == IF rep = "CLOSED" THEN "CLS_DONE" ELSE "CLS_WAIT_REP"

\* A port that is still open is closed again.
ClsAfter(rep) == IF rep = "CLOSED" THEN "CLS_DONE" ELSE "CLS_SEND_REQ"

\* While the role is disabled the replies that wait are dropped.
ClsIdle ==
  /\ cls_fsmState = "CLS_IDLE"
  /\ \/ /\ piSHL_Enable
        /\ cls_fsmState' = "CLS_SEND_REQ"
        /\ UNCHANGED siSHL_ClsRep
     \/ /\ ~piSHL_Enable
        /\ siSHL_ClsRep # << >>
        /\ siSHL_ClsRep' = Dequeue(siSHL_ClsRep)
        /\ UNCHANGED cls_fsmState
  /\ UNCHANGED soSHL_ClsReq
  /\ CLsUnchanged

ClsSendReq ==
  /\ cls_fsmState = "CLS_SEND_REQ"
  /\ HasRoom(soSHL_ClsReq, cDepth_Shell)
  /\ soSHL_ClsReq' = Append(soSHL_ClsReq, ClosePort)
  /\ cls_fsmState' = "CLS_WAIT_REP"
  /\ UNCHANGED siSHL_ClsRep
  /\ CLsUnchanged

ClsWaitRep ==
  /\ cls_fsmState = "CLS_WAIT_REP"
  /\ siSHL_ClsRep # << >>
  /\ cls_fsmState' = ClsAfter(Head(siSHL_ClsRep))
  /\ siSHL_ClsRep' = Dequeue(siSHL_ClsRep)
  /\ UNCHANGED soSHL_ClsReq
  /\ CLsUnchanged

CLs == ClsIdle \/ ClsSendReq \/ ClsWaitRep

-----------------------------------------------------------------------------
\* Every variable keeps its type: the index of a port that is requested is in
\* the table, and the watchdog never counts below 0.
UsifListenTypeOK ==
  /\ lsn_fsmState \in {"LSN_IDLE", "LSN_SEND_REQ", "LSN_WAIT_REP", "LSN_DONE"}
  /\ lsn_i \in 0..(IndexMod - 1)
  /\ lsn_watchDogTimer \in 0..WatchDog
  /\ cls_fsmState \in {"CLS_IDLE", "CLS_SEND_REQ", "CLS_WAIT_REP", "CLS_DONE"}
  /\ soSHL_LsnReq \in Seq(Ports) /\ siSHL_LsnRep \in Seq({"OPENED", "DENIED"})
  /\ soSHL_ClsReq \in Seq({ClosePort}) /\ siSHL_ClsRep \in Seq({"OPENED", "CLOSED"})
  /\ uoePorts \subseteq Ports /\ uoeAge \in 0..MaxDelay
  /\ timedOut \in BOOLEAN
=============================================================================
