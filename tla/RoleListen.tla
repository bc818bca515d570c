------------------------------ MODULE RoleListen ------------------------------
(***************************************************************************)
(* The startup of the role: the Listen process of TSIF next to the Listen  *)
(* and the Close process of USIF.  Role.vhdl feeds the same enable bit,    *)
(* piSHL_Mmio_Ly7En, to both; each has its own streams to its own engine.  *)
(***************************************************************************)
EXTENDS TsifListen

CONSTANT UoeMaxDelay    \* the UOE answers within UoeMaxDelay invocations

VARIABLES
  usif_lsnState, usif_lsn_i, usif_lsnTimer, usif_clsState,
  usif_LsnReq, usif_LsnRep, usif_ClsReq, usif_ClsRep,
  uoePorts, uoeAge, usif_timedOut

USIF == INSTANCE UsifListen WITH
  MaxDelay <- UoeMaxDelay,
  lsn_fsmState <- usif_lsnState, lsn_i <- usif_lsn_i, lsn_watchDogTimer <- usif_lsnTimer,
  cls_fsmState <- usif_clsState,
  soSHL_LsnReq <- usif_LsnReq, siSHL_LsnRep <- usif_LsnRep,
  soSHL_ClsReq <- usif_ClsReq, siSHL_ClsRep <- usif_ClsRep,
  timedOut <- usif_timedOut

\* The table fits the 3-bit index of USIF, and CLs closes none of its ports.
ASSUME UoeTimeAssumption == UoeMaxDelay \in Nat
ASSUME UsifTableAssumption == NumPorts <= USIF!IndexMod /\ USIF!ClosePort \notin Ports

tsifVars == << lsn_fsmState, lsn_i, lsn_watchDogTimer, soSHL_LsnReq, siSHL_LsnRep,
               toePorts, toeAge >>
usifVars == << usif_lsnState, usif_lsn_i, usif_lsnTimer, usif_clsState, usif_LsnReq,
               usif_LsnRep, usif_ClsReq, usif_ClsRep, uoePorts, uoeAge, usif_timedOut >>
roleVars == << piSHL_Enable, tsifVars, usifVars >>

RoleInit == Init /\ USIF!UsifListenInit

Tsif(A) == A /\ UNCHANGED usifVars
Usif(A) == A /\ UNCHANGED << tsifVars, piSHL_Enable >>

UoeListens == \E rep \in {"OPENED", "DENIED"} : USIF!UoeListen(rep)
UoeCloses == \E rep \in {"OPENED", "CLOSED"} : USIF!UoeClose(rep)

RoleNext ==
  \/ Tsif(Next)
  \/ Usif(USIF!LSn)
  \/ Usif(USIF!CLs)
  \/ Usif(UoeListens)
  \/ Usif(UoeCloses)

RoleSpec == RoleInit /\ [][RoleNext]_roleVars

\* The processes are invoked again and again; the engines answer, and do not
\* refuse a request for ever.  Strong fairness of an acceptance includes that
\* a request is answered: what enables one answer enables the other.
RoleFairSpec ==
  /\ RoleSpec
  /\ WF_roleVars(Tsif(LSn))
  /\ SF_roleVars(Tsif(ToeListen("OPENED")))
  /\ WF_roleVars(Usif(USIF!LSn))
  /\ WF_roleVars(Usif(USIF!CLs))
  /\ SF_roleVars(Usif(USIF!UoeListen("OPENED")))
  /\ SF_roleVars(Usif(USIF!UoeClose("CLOSED")))

-----------------------------------------------------------------------------
\* Every variable of the three processes keeps its type.
RoleTypeOK == TypeOK /\ USIF!UsifListenTypeOK

\* udp_shell_if.cpp:97-98: the ports of the table "will always be opened in
\* listen mode at startup".  As long as the watchdog has not expired, every
\* port that LSn of USIF has moved past is open, all of them when it is done,
\* and what CLs closes meanwhile is none of them.
UsifPortsOpen ==
  ~usif_timedOut =>
    /\ \A j \in 0..(usif_lsn_i - 1) : PortOf(j) \in uoePorts
    /\ usif_lsnState = "LSN_DONE" => Ports \subseteq uoePorts

\* Once the role is enabled for good, the three processes come to the end of
\* their startup, whatever the engines refuse at first, after one expiry of
\* the watchdog of USIF (whose index may leave the table and wrap) and with a
\* reply to CLs left over from before a reset.
RoleComesUp ==
  <>[]piSHL_Enable =>
    <>(lsn_fsmState = "LSN_DONE" /\ usif_lsnState = "LSN_DONE" /\ usif_clsState = "CLS_DONE")
=============================================================================
