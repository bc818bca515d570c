------------------------------ MODULE TsifListen ------------------------------
(***************************************************************************)
(* The Listen process LSn of tcp_shell_if.cpp, which asks the TOE to open  *)
(* the six ports of the role one after the other, and restarts a request   *)
(* that the TOE denies or that its watchdog finds unanswered.              *)
(*                                                                         *)
(* The watchdog counts invocations of LSn, so time is measured here in     *)
(* invocations: toeAge is how many of them have passed since the TOE could *)
(* read the request at the head of its stream, and MaxDelay bounds it.     *)
(***************************************************************************)
EXTENDS Streams

CONSTANTS
  LSN_PORT_TABLE,    \* the ports to open, in the order they are requested
  WatchDog,          \* the value lsn_watchDogTimer is armed with (100; 10 simulated)
  MaxDelay,          \* the TOE answers a request within MaxDelay invocations of LSn
  cDepth_Shell       \* depth of the streams between the SHELL and the role

NumPorts == Len(LSN_PORT_TABLE)

ASSUME TableAssumption == LSN_PORT_TABLE \in Seq(Nat) /\ LSN_PORT_TABLE # << >>
ASSUME TimerAssumption ==
  WatchDog \in Nat \ {0} /\ MaxDelay \in Nat /\ cDepth_Shell \in Nat \ {0}

VARIABLES
  piSHL_Enable,                               \* the MMIO enable bit
  lsn_fsmState, lsn_i, lsn_watchDogTimer,     \* LSn
  soSHL_LsnReq, siSHL_LsnRep,                 \* streams to/from the SHELL
  toePorts, toeAge                            \* the TOE: the ports it listens on

vars == << piSHL_Enable, lsn_fsmState, lsn_i, lsn_watchDogTimer, soSHL_LsnReq,
           siSHL_LsnRep, toePorts, toeAge >>

\* The port that entry i of the table holds; the code counts from 0.
PortOf(i) == LSN_PORT_TABLE[i + 1]
Ports == {PortOf(i) : i \in 0..(NumPorts - 1)}

\* The reply to a request is one bit; it does not name the port.
TcpAppLsnRep == {"OPENED", "DENIED"}

\* Seeded faults: the polarity of the reply inverted; a denial read as an
\* acknowledgement; the end of the table one entry late, and one early.
Accepted_Inverted(rep) == rep = "DENIED"
Accepted_Always(rep) == TRUE
IsLast_Late(i) == i = NumPorts
IsLast_Early(i) == i = NumPorts - 2

Accepted(rep) == rep = "OPENED"
IsLast(i) == i = NumPorts - 1

Init ==
  /\ piSHL_Enable = FALSE
  /\ lsn_fsmState = "LSN_IDLE"
  /\ lsn_i = 0
  /\ lsn_watchDogTimer = 0
  /\ soSHL_LsnReq = << >> /\ siSHL_LsnRep = << >>
  /\ toePorts = {} /\ toeAge = 0

-----------------------------------------------------------------------------
(* The environment.                                                         *)

MmioEnable ==
  /\ piSHL_Enable' = ~piSHL_Enable
  /\ UNCHANGED << lsn_fsmState, lsn_i, lsn_watchDogTimer, soSHL_LsnReq,
                  siSHL_LsnRep, toePorts, toeAge >>

\* The TOE opens the port that is requested, or refuses to.
ToeListen(rep) ==
  /\ soSHL_LsnReq # << >>
  /\ HasRoom(siSHL_LsnRep, cDepth_Shell)
  /\ toePorts' = IF rep = "OPENED" THEN toePorts \cup {Head(soSHL_LsnReq)} ELSE toePorts
  /\ siSHL_LsnRep' = Append(siSHL_LsnRep, rep)
  /\ soSHL_LsnReq' = Dequeue(soSHL_LsnReq)
  /\ toeAge' = 0
  /\ UNCHANGED << piSHL_Enable, lsn_fsmState, lsn_i, lsn_watchDogTimer >>

-----------------------------------------------------------------------------
(* Listen.                                                                  *)

LsnIdle ==
  /\ lsn_fsmState = "LSN_IDLE"
  /\ piSHL_Enable
  /\ lsn_fsmState' = IF lsn_i = 0 THEN "LSN_SEND_REQ" ELSE "LSN_DONE"
  /\ UNCHANGED << piSHL_Enable, lsn_i, lsn_watchDogTimer, soSHL_LsnReq, siSHL_LsnRep,
                  toePorts, toeAge >>

LsnSendReq ==
  /\ lsn_fsmState = "LSN_SEND_REQ"
  /\ HasRoom(soSHL_LsnReq, cDepth_Shell)
  /\ soSHL_LsnReq' = Append(soSHL_LsnReq, PortOf(lsn_i))
  /\ lsn_watchDogTimer' = WatchDog
  /\ lsn_fsmState' = "LSN_WAIT_REP"
  /\ UNCHANGED << piSHL_Enable, lsn_i, siSHL_LsnRep, toePorts, toeAge >>

\* A reply is read, whichever request it answers.
LsnReadRep ==
  /\ lsn_fsmState = "LSN_WAIT_REP"
  /\ siSHL_LsnRep # << >>
  /\ siSHL_LsnRep' = Dequeue(siSHL_LsnRep)
  /\ lsn_watchDogTimer' = lsn_watchDogTimer - 1
  /\ \/ /\ ~Accepted(Head(siSHL_LsnRep))
        /\ lsn_fsmState' = "LSN_SEND_REQ"
        /\ UNCHANGED lsn_i
     \/ /\ Accepted(Head(siSHL_LsnRep))
        /\ ~IsLast(lsn_i)
        /\ lsn_i' = lsn_i + 1
        /\ lsn_fsmState' = "LSN_SEND_REQ"
     \/ /\ Accepted(Head(siSHL_LsnRep))
        /\ IsLast(lsn_i)
        /\ lsn_fsmState' = "LSN_DONE"
        /\ UNCHANGED lsn_i
  /\ UNCHANGED << piSHL_Enable, soSHL_LsnReq, toePorts, toeAge >>

\* An invocation without a reply; the one that brings the watchdog to 0 sends
\* the request again.
LsnTick ==
  /\ lsn_fsmState = "LSN_WAIT_REP"
  /\ siSHL_LsnRep = << >>
  /\ soSHL_LsnReq # << >> => toeAge < MaxDelay
  /\ lsn_watchDogTimer' = lsn_watchDogTimer - 1
  /\ lsn_fsmState' = IF lsn_watchDogTimer' = 0 THEN "LSN_SEND_REQ" ELSE lsn_fsmState
  /\ toeAge' = IF soSHL_LsnReq # << >> THEN toeAge + 1 ELSE toeAge
  /\ UNCHANGED << piSHL_Enable, lsn_i, soSHL_LsnReq, siSHL_LsnRep, toePorts >>

LSn == LsnIdle \/ LsnSendReq \/ LsnReadRep \/ LsnTick

Next == MmioEnable \/ (\E rep \in TcpAppLsnRep : ToeListen(rep)) \/ LSn

Spec == Init /\ [][Next]_vars

-----------------------------------------------------------------------------
(* Properties.                                                              *)

\* Every variable keeps its type; the watchdog never counts below 0, so the
\* 8 bits of its register never wrap.
TypeOK ==
  /\ piSHL_Enable \in BOOLEAN
  /\ lsn_fsmState \in {"LSN_IDLE", "LSN_SEND_REQ", "LSN_WAIT_REP", "LSN_DONE"}
  /\ lsn_i \in 0..(NumPorts - 1)
  /\ lsn_watchDogTimer \in 0..WatchDog
  /\ lsn_fsmState = "LSN_WAIT_REP" => lsn_watchDogTimer > 0
  /\ soSHL_LsnReq \in Seq(Nat)
  /\ siSHL_LsnRep \in Seq(TcpAppLsnRep)
  /\ toePorts \subseteq Nat
  /\ toeAge \in Nat

\* Every port that LSn has moved past is one the TOE listens on: a positive
\* reply was the reply to the request LSn was waiting for.
AckedPortsOpen == \A j \in 0..(lsn_i - 1) : PortOf(j) \in toePorts

\* tcp_shell_if.cpp:258-259: the ports of the table "will always be opened in
\* listen mode at startup".  LSn ends with every one of them open.
OpenAtStartup == lsn_fsmState = "LSN_DONE" => Ports \subseteq toePorts
=============================================================================
