--------------------------- MODULE RoleListen_proofs ---------------------------
(***************************************************************************)
(* Proofs about the startup of the role, for every port table, delay and   *)
(* depth.  LSn of TSIF: with a TOE that answers before the watchdog, a port *)
(* it has moved past is open.  LSn of USIF: the same as long as its        *)
(* watchdog has not expired.  And the types of both sides, expiries of the *)
(* watchdogs included.                                                     *)
(***************************************************************************)
EXTENDS RoleListen, StreamLemmas

-----------------------------------------------------------------------------
(* LSn of TSIF.  The inductive invariant says where its one request is: with *)
(* an answer prompter than the watchdog there is never a second one, so a   *)
(* reply can only be about the port LSn waits for.                          *)

\* In LSN_WAIT_REP one request or one reply is under way, for the port of
\* lsn_i; in the other states there is none.
OneUnderWay ==
  /\ lsn_fsmState # "LSN_WAIT_REP" => soSHL_LsnReq = << >> /\ siSHL_LsnRep = << >>
  /\ lsn_fsmState = "LSN_WAIT_REP" =>
       \/ /\ soSHL_LsnReq = << PortOf(lsn_i) >> /\ siSHL_LsnRep = << >>
          /\ lsn_watchDogTimer = WatchDog - toeAge
       \/ /\ soSHL_LsnReq = << >>
          /\ \/ siSHL_LsnRep = << "OPENED" >> /\ PortOf(lsn_i) \in toePorts
             \/ siSHL_LsnRep = << "DENIED" >>

\* While no request is under way the age of the next one is 0, and the last
\* port is open once LSn is done.
Bookkeeping ==
  /\ soSHL_LsnReq = << >> => toeAge = 0
  /\ toeAge <= MaxDelay
  /\ lsn_fsmState = "LSN_DONE" =>
       lsn_i = NumPorts - 1 /\ PortOf(lsn_i) \in toePorts
  /\ lsn_fsmState = "LSN_IDLE" => lsn_i = 0

ListenInv == TypeOK /\ OneUnderWay /\ Bookkeeping /\ AckedPortsOpen

LEMMA TableType ==
  /\ NumPorts \in Nat \ {0}
  /\ \A i \in 0..(NumPorts - 1) : PortOf(i) \in Nat
  BY TableAssumption DEF NumPorts, PortOf

LEMMA ListenInit == ASSUME Init PROVE ListenInv
<1>1. TypeOK
  <2>1. piSHL_Enable \in BOOLEAN
    BY DEF Init
  <2>2. QED
    BY <2>1, TableType, TimerAssumption DEF Init, TypeOK
<1>2. OneUnderWay /\ Bookkeeping /\ AckedPortsOpen
  BY TableType, TimerAssumption DEF Init, OneUnderWay, Bookkeeping, AckedPortsOpen
<1>3. QED
  BY <1>1, <1>2 DEF ListenInv

LEMMA ListenStep ==
  ASSUME ListenInv, [Next]_vars, MaxDelay < WatchDog
  PROVE  ListenInv'
<1> USE TableType, TimerAssumption DEF ListenInv
<1>1. CASE MmioEnable
  <2>1. piSHL_Enable' \in BOOLEAN
    BY <1>1 DEF MmioEnable
  <2>2. UNCHANGED << lsn_fsmState, lsn_i, lsn_watchDogTimer, soSHL_LsnReq,
                     siSHL_LsnRep, toePorts, toeAge >>
    BY <1>1 DEF MmioEnable
  <2>3. QED
    BY <2>1, <2>2 DEF TypeOK, OneUnderWay, Bookkeeping, AckedPortsOpen
<1>2. ASSUME NEW rep \in TcpAppLsnRep, ToeListen(rep) PROVE ListenInv'
  <2>1. /\ lsn_fsmState = "LSN_WAIT_REP"
        /\ soSHL_LsnReq = << PortOf(lsn_i) >> /\ siSHL_LsnRep = << >>
    BY <1>2 DEF ToeListen, OneUnderWay
  <2>2. /\ soSHL_LsnReq' = << >> /\ siSHL_LsnRep' = << rep >> /\ toeAge' = 0
        /\ toePorts' = IF rep = "OPENED" THEN toePorts \cup {PortOf(lsn_i)} ELSE toePorts
        /\ UNCHANGED << piSHL_Enable, lsn_fsmState, lsn_i, lsn_watchDogTimer >>
    BY <1>2, <2>1 DEF ToeListen, Dequeue
  <2>3. toePorts \subseteq toePorts' /\ toePorts' \subseteq Nat
    BY <2>2 DEF TypeOK
  <2>4. TypeOK'
    BY <2>2, <2>3 DEF TypeOK
  <2>5. OneUnderWay'
    BY <2>1, <2>2 DEF OneUnderWay, TcpAppLsnRep, PortOf
  <2>6. Bookkeeping' /\ AckedPortsOpen'
    BY <2>1, <2>2, <2>3 DEF Bookkeeping, AckedPortsOpen, PortOf
  <2>7. QED
    BY <2>4, <2>5, <2>6
<1>3. CASE LsnIdle
  <2>1. lsn_i = 0
    BY <1>3 DEF LsnIdle, Bookkeeping
  <2>2. QED
    BY <1>3, <2>1 DEF LsnIdle, TypeOK, OneUnderWay, Bookkeeping, AckedPortsOpen, PortOf
<1>4. CASE LsnSendReq
  <2>1. /\ soSHL_LsnReq = << >> /\ siSHL_LsnRep = << >> /\ toeAge = 0
        /\ soSHL_LsnReq' = << PortOf(lsn_i) >>
        /\ lsn_watchDogTimer' = WatchDog /\ lsn_fsmState' = "LSN_WAIT_REP"
        /\ UNCHANGED << piSHL_Enable, lsn_i, siSHL_LsnRep, toePorts, toeAge >>
    BY <1>4 DEF LsnSendReq, OneUnderWay, Bookkeeping
  <2>2. soSHL_LsnReq' \in Seq(Nat)
    BY <2>1 DEF TypeOK
  <2>3. TypeOK'
    BY <2>1, <2>2 DEF TypeOK
  <2>4. OneUnderWay' /\ Bookkeeping' /\ AckedPortsOpen'
    BY <2>1 DEF TypeOK, OneUnderWay, Bookkeeping, AckedPortsOpen, PortOf
  <2>5. QED
    BY <2>3, <2>4
<1>5. CASE LsnReadRep
  <2>1. /\ soSHL_LsnReq = << >> /\ toeAge = 0
        /\ \/ siSHL_LsnRep = << "OPENED" >> /\ PortOf(lsn_i) \in toePorts
           \/ siSHL_LsnRep = << "DENIED" >>
    BY <1>5 DEF LsnReadRep, OneUnderWay, Bookkeeping
  <2>2. /\ siSHL_LsnRep' = << >> /\ lsn_watchDogTimer' = lsn_watchDogTimer - 1
        /\ lsn_fsmState = "LSN_WAIT_REP"
        /\ UNCHANGED << piSHL_Enable, soSHL_LsnReq, toePorts, toeAge >>
    BY <1>5, <2>1 DEF LsnReadRep, Dequeue
  <2>3. \/ lsn_fsmState' = "LSN_SEND_REQ" /\ lsn_i' = lsn_i
        \/ /\ lsn_fsmState' = "LSN_SEND_REQ" /\ PortOf(lsn_i) \in toePorts
           /\ lsn_i' = lsn_i + 1 /\ lsn_i < NumPorts - 1
        \/ /\ lsn_fsmState' = "LSN_DONE" /\ PortOf(lsn_i) \in toePorts
           /\ lsn_i' = lsn_i /\ lsn_i = NumPorts - 1
    BY <1>5, <2>1 DEF LsnReadRep, Accepted, IsLast, TypeOK
  <2>4. TypeOK'
    BY <2>2, <2>3 DEF TypeOK
  <2>5. OneUnderWay' /\ Bookkeeping'
    BY <2>1, <2>2, <2>3 DEF OneUnderWay, Bookkeeping, PortOf
  <2>6. AckedPortsOpen'
    BY <2>2, <2>3 DEF TypeOK, AckedPortsOpen, PortOf
  <2>7. QED
    BY <2>4, <2>5, <2>6
<1>6. CASE LsnTick
  <2>1. /\ lsn_fsmState = "LSN_WAIT_REP" /\ siSHL_LsnRep = << >>
        /\ soSHL_LsnReq = << PortOf(lsn_i) >> /\ lsn_watchDogTimer = WatchDog - toeAge
        /\ toeAge < MaxDelay
    <3>1. lsn_fsmState = "LSN_WAIT_REP" /\ siSHL_LsnRep = << >>
      BY <1>6 DEF LsnTick
    <3>2. /\ soSHL_LsnReq = << PortOf(lsn_i) >>
          /\ lsn_watchDogTimer = WatchDog - toeAge
      BY <3>1 DEF OneUnderWay
    <3>3. soSHL_LsnReq # << >>
      BY <3>2
    <3>4. QED
      BY <1>6, <3>1, <3>2, <3>3 DEF LsnTick
  <2>2. /\ lsn_watchDogTimer' = WatchDog - (toeAge + 1) /\ toeAge' = toeAge + 1
        /\ lsn_watchDogTimer' > 0 /\ lsn_fsmState' = "LSN_WAIT_REP"
        /\ UNCHANGED << piSHL_Enable, lsn_i, soSHL_LsnReq, siSHL_LsnRep, toePorts >>
    BY <1>6, <2>1 DEF LsnTick, TypeOK
  <2>3. QED
    BY <2>1, <2>2 DEF TypeOK, OneUnderWay, Bookkeeping, AckedPortsOpen, PortOf
<1>7. CASE UNCHANGED vars
  BY <1>7 DEF vars, TypeOK, OneUnderWay, Bookkeeping, AckedPortsOpen, PortOf
<1>8. QED
  BY <1>1, <1>2, <1>3, <1>4, <1>5, <1>6, <1>7 DEF Next, LSn

\* The types need no promptness of the TOE.
LEMMA ListenTypeStep == ASSUME TypeOK, [Next]_vars PROVE TypeOK'
<1> USE TableType, TimerAssumption
<1>1. CASE MmioEnable
  <2>1. piSHL_Enable' \in BOOLEAN
    BY <1>1 DEF MmioEnable
  <2>2. QED
    BY <1>1, <2>1 DEF MmioEnable, TypeOK
<1>2. ASSUME NEW rep \in TcpAppLsnRep, ToeListen(rep) PROVE TypeOK'
  <2>1. soSHL_LsnReq # << >> /\ soSHL_LsnReq \in Seq(Nat)
    BY <1>2 DEF ToeListen, TypeOK
  <2>2. Head(soSHL_LsnReq) \in Nat /\ Tail(soSHL_LsnReq) \in Seq(Nat)
    BY <2>1
  <2>3. soSHL_LsnReq' \in Seq(Nat) /\ siSHL_LsnRep' \in Seq(TcpAppLsnRep)
    BY <1>2, <2>2 DEF ToeListen, Dequeue, TypeOK
  <2>4. toePorts' \subseteq Nat /\ toeAge' \in Nat
    BY <1>2, <2>2 DEF ToeListen, TypeOK
  <2>5. QED
    BY <1>2, <2>3, <2>4 DEF ToeListen, TypeOK
<1>3. CASE LsnIdle
  BY <1>3 DEF LsnIdle, TypeOK
<1>4. CASE LsnSendReq
  <2>1. soSHL_LsnReq' \in Seq(Nat)
    BY <1>4 DEF LsnSendReq, TypeOK
  <2>2. QED
    BY <1>4, <2>1 DEF LsnSendReq, TypeOK
<1>5. CASE LsnReadRep
  <2>1. siSHL_LsnRep' \in Seq(TcpAppLsnRep)
    BY <1>5 DEF LsnReadRep, Dequeue, TypeOK
  <2>2. /\ lsn_watchDogTimer' \in 0..WatchDog /\ lsn_i' \in 0..(NumPorts - 1)
        /\ lsn_fsmState' \in {"LSN_SEND_REQ", "LSN_DONE"}
    BY <1>5 DEF LsnReadRep, TypeOK, IsLast
  <2>3. QED
    BY <1>5, <2>1, <2>2 DEF LsnReadRep, TypeOK
<1>6. CASE LsnTick
  BY <1>6 DEF LsnTick, TypeOK
<1>7. CASE UNCHANGED vars
  BY <1>7 DEF vars, TypeOK
<1>8. QED
  BY <1>1, <1>2, <1>3, <1>4, <1>5, <1>6, <1>7 DEF Next, LSn

\* A TOE that answers before the watchdog expires leaves LSn with every port
\* it moved past open (pListen: "Set next listen port number").
THEOREM AckedOpen == ASSUME MaxDelay < WatchDog PROVE Spec => []AckedPortsOpen
<1>1. ListenInv /\ [Next]_vars => ListenInv'
  BY ListenStep
<1>2. ListenInv => AckedPortsOpen
  BY DEF ListenInv
<1>3. QED
  BY <1>1, <1>2, ListenInit, PTL DEF Spec

\* With that TOE every port of the table is open when LSn is done, whatever
\* the table, the watchdog and the number of requests the TOE denies.
THEOREM AllPortsOpen == ASSUME MaxDelay < WatchDog PROVE Spec => []OpenAtStartup
<1>1. ListenInv /\ [Next]_vars => ListenInv'
  BY ListenStep
<1>2. ListenInv => OpenAtStartup
  <2>1. SUFFICES ASSUME ListenInv, lsn_fsmState = "LSN_DONE",
                        NEW i \in 0..(NumPorts - 1)
                 PROVE  PortOf(i) \in toePorts
    BY DEF OpenAtStartup, Ports
  <2>2. i = lsn_i \/ i \in 0..(lsn_i - 1)
    BY <2>1, TableType DEF ListenInv, Bookkeeping
  <2>3. QED
    BY <2>1, <2>2 DEF ListenInv, Bookkeeping, AckedPortsOpen
<1>3. QED
  BY <1>1, <1>2, ListenInit, PTL DEF Spec

-----------------------------------------------------------------------------
(* LSn and CLs of USIF.                                                     *)


\* The one request under way is in the stream of requests, or its answer is in
\* the stream of replies.
UsifUnderWay ==
  \/ usif_LsnReq = << PortOf(usif_lsn_i) >> /\ usif_LsnRep = << >>
  \/ usif_LsnReq = << >> /\ usif_LsnRep = << "DENIED" >>
  \/ usif_LsnReq = << >> /\ usif_LsnRep = << "OPENED" >> /\ PortOf(usif_lsn_i) \in uoePorts

UsifPortsInv ==
  /\ usif_lsn_i \in 0..(NumPorts - 1)
  /\ \A j \in 0..(usif_lsn_i - 1) : PortOf(j) \in uoePorts
  /\ usif_lsnState = "LSN_IDLE" => usif_lsn_i = 0
  /\ usif_lsnState = "LSN_DONE" => Ports \subseteq uoePorts
  /\ IF usif_lsnState = "LSN_WAIT_REP" THEN UsifUnderWay
     ELSE usif_LsnReq = << >> /\ usif_LsnRep = << >>

UsifInv ==
  /\ usif_lsnState \in {"LSN_IDLE", "LSN_SEND_REQ", "LSN_WAIT_REP", "LSN_DONE"}
  /\ usif_ClsReq \in Seq({USIF!ClosePort})
  /\ ~usif_timedOut => UsifPortsInv

LEMMA Table == NumPorts \in Nat \ {0} /\ NumPorts <= 8 /\ USIF!ClosePort \notin Ports
  BY TableAssumption, UsifTableAssumption DEF NumPorts, USIF!IndexMod

LEMMA UsifInvInit == ASSUME RoleInit PROVE UsifInv
  BY Table DEF RoleInit, USIF!UsifListenInit, UsifInv, UsifPortsInv

LEMMA UsifInvKept ==
  ASSUME UsifInv,
         UNCHANGED << usif_lsnState, usif_lsn_i, usif_LsnReq, usif_LsnRep, usif_ClsReq,
                      uoePorts, usif_timedOut >>
  PROVE  UsifInv'
  BY DEF UsifInv, UsifPortsInv, UsifUnderWay

LEMMA UoeListenKeeps ==
  ASSUME UsifInv, NEW rep \in {"OPENED", "DENIED"}, USIF!UoeListen(rep)
  PROVE  UsifInv'
<1>1. /\ UNCHANGED << usif_lsnState, usif_lsn_i, usif_ClsReq, usif_timedOut >>
      /\ usif_LsnReq # << >> /\ usif_LsnReq' = Tail(usif_LsnReq)
      /\ usif_LsnRep' = Append(usif_LsnRep, rep)
      /\ uoePorts' = IF rep = "OPENED" THEN uoePorts \cup {Head(usif_LsnReq)} ELSE uoePorts
  BY DEF USIF!UoeListen, USIF!Dequeue, USIF!lsnVars, USIF!clsVars
<1>2. ASSUME ~usif_timedOut PROVE UsifPortsInv'
  <2>1. UsifPortsInv /\ usif_lsnState = "LSN_WAIT_REP"
    BY <1>1, <1>2 DEF UsifInv, UsifPortsInv
  <2>2. usif_LsnReq = << PortOf(usif_lsn_i) >> /\ usif_LsnRep = << >>
    BY <1>1, <2>1 DEF UsifPortsInv, UsifUnderWay
  <2>3. UsifUnderWay' /\ uoePorts \subseteq uoePorts'
    BY <1>1, <2>2 DEF UsifUnderWay, PortOf
  <2> QED BY <1>1, <2>1, <2>3 DEF UsifPortsInv
<1> QED BY <1>1, <1>2 DEF UsifInv

LEMMA UoeCloseKeeps ==
  ASSUME UsifInv, NEW rep \in {"OPENED", "CLOSED"}, USIF!UoeClose(rep)
  PROVE  UsifInv'
<1>1. /\ UNCHANGED << usif_lsnState, usif_lsn_i, usif_LsnReq, usif_LsnRep, usif_timedOut >>
      /\ usif_ClsReq # << >> /\ usif_ClsReq' = Tail(usif_ClsReq)
      /\ uoePorts' \in {uoePorts, uoePorts \ {Head(usif_ClsReq)}}
  BY DEF USIF!UoeClose, USIF!Dequeue, USIF!lsnVars, USIF!lsnLinkVars
<1>2. Head(usif_ClsReq) = USIF!ClosePort /\ usif_ClsReq' \in Seq({USIF!ClosePort})
  BY <1>1, QueueOps DEF UsifInv
<1>3. \A p \in Ports : p \in uoePorts => p \in uoePorts'
  BY <1>1, <1>2, Table
<1>4. ASSUME ~usif_timedOut PROVE UsifPortsInv'
  <2>1. UsifPortsInv
    BY <1>4 DEF UsifInv
  <2>2. \A j \in 0..usif_lsn_i : PortOf(j) \in Ports
    BY <2>1, Table DEF UsifPortsInv, Ports
  <2>3. UsifUnderWay => UsifUnderWay'
    BY <1>1, <1>3, <2>1, <2>2 DEF UsifUnderWay, UsifPortsInv, PortOf
  <2>4. \A j \in 0..(usif_lsn_i - 1) : PortOf(j) \in uoePorts'
    BY <1>3, <2>1, <2>2 DEF UsifPortsInv
  <2>5. usif_lsnState = "LSN_DONE" => Ports \subseteq uoePorts'
    BY <1>3, <2>1 DEF UsifPortsInv
  <2> QED BY <1>1, <2>1, <2>3, <2>4, <2>5 DEF UsifPortsInv
<1> QED BY <1>1, <1>2, <1>4 DEF UsifInv

LEMMA CLsKeeps == ASSUME UsifInv, USIF!CLs PROVE UsifInv'
<1>1. UNCHANGED << usif_lsnState, usif_lsn_i, usif_LsnReq, usif_LsnRep, uoePorts,
                   usif_timedOut >>
  BY DEF USIF!CLs, USIF!ClsIdle, USIF!ClsSendReq, USIF!ClsWaitRep, USIF!CLsUnchanged,
         USIF!lsnVars, USIF!lsnLinkVars
<1>2. usif_ClsReq' \in {usif_ClsReq, Append(usif_ClsReq, USIF!ClosePort)}
  BY DEF USIF!CLs, USIF!ClsIdle, USIF!ClsSendReq, USIF!ClsWaitRep
<1>3. usif_ClsReq' \in Seq({USIF!ClosePort})
  BY <1>2, QueueOps DEF UsifInv
<1> QED BY <1>1, <1>3 DEF UsifInv, UsifPortsInv, UsifUnderWay

LEMMA LSnKeeps == ASSUME UsifInv, USIF!LSn PROVE UsifInv'
<1> USE DEF USIF!LSnUnchanged, USIF!clsVars
<1>0. UNCHANGED << usif_ClsReq, uoePorts >>
  BY DEF USIF!LSn, USIF!LsnIdle, USIF!LsnSendReq, USIF!LsnReadRep, USIF!LsnTick,
         USIF!LsnTimeout, USIF!LsnWaits
<1>1. CASE USIF!LsnIdle
  BY <1>0, <1>1 DEF USIF!LsnIdle, USIF!lsnLinkVars, UsifInv, UsifPortsInv
<1>2. CASE USIF!LsnSendReq
  <2>1. ASSUME ~usif_timedOut PROVE UsifPortsInv'
    <3>1. UsifPortsInv
      BY <2>1 DEF UsifInv
    <3>2. usif_LsnReq = << >> /\ usif_LsnRep = << >> /\ usif_lsn_i < NumPorts
      BY <1>2, <3>1, Table DEF USIF!LsnSendReq, UsifPortsInv
    <3>3. usif_LsnReq' = << PortOf(usif_lsn_i) >> /\ usif_LsnRep' = << >>
      BY <1>2, <3>2 DEF USIF!LsnSendReq, USIF!NumPorts, NumPorts, USIF!PortOf, PortOf
    <3>4. UsifUnderWay'
      BY <1>2, <3>3 DEF USIF!LsnSendReq, UsifUnderWay, PortOf
    <3> QED BY <1>0, <1>2, <3>1, <3>4 DEF USIF!LsnSendReq, UsifPortsInv
  <2> QED BY <1>0, <1>2, <2>1 DEF USIF!LsnSendReq, UsifInv
<1>3. CASE USIF!LsnReadRep
  <2>1. ASSUME ~usif_timedOut PROVE UsifPortsInv'
    <3>1. UsifPortsInv /\ UsifUnderWay /\ usif_LsnRep # << >>
      BY <1>3, <2>1 DEF UsifInv, UsifPortsInv, USIF!LsnReadRep
    <3>2. /\ usif_LsnReq = << >> /\ usif_LsnReq' = << >> /\ usif_LsnRep' = << >>
          /\ Head(usif_LsnRep) = "OPENED" => PortOf(usif_lsn_i) \in uoePorts
      BY SMTT(30), <1>3, <3>1 DEF USIF!LsnReadRep, USIF!Dequeue, UsifUnderWay
    <3>3. CASE Head(usif_LsnRep) # "OPENED"
      BY <1>0, <1>3, <3>1, <3>2, <3>3 DEF USIF!LsnReadRep, USIF!Accepted, UsifPortsInv
    <3>4. CASE Head(usif_LsnRep) = "OPENED" /\ usif_lsn_i # NumPorts - 1
      <4>1. usif_lsn_i' = usif_lsn_i + 1 /\ usif_lsn_i' \in 0..(NumPorts - 1)
        BY <1>3, <3>1, <3>4, Table
           DEF USIF!LsnReadRep, USIF!Accepted, USIF!NumPorts, NumPorts, USIF!NextIndex,
               USIF!IndexMod, UsifPortsInv
      <4>2. \A j \in 0..(usif_lsn_i' - 1) : PortOf(j) \in uoePorts
        BY <3>1, <3>2, <3>4, <4>1 DEF UsifPortsInv
      <4>3. usif_lsnState' = "LSN_SEND_REQ"
        BY <1>3, <3>4 DEF USIF!LsnReadRep, USIF!Accepted, USIF!NumPorts, NumPorts
      <4> QED BY <1>0, <3>2, <4>1, <4>2, <4>3 DEF UsifPortsInv
    <3>5. CASE Head(usif_LsnRep) = "OPENED" /\ usif_lsn_i = NumPorts - 1
      <4>1. usif_lsnState' = "LSN_DONE" /\ usif_lsn_i' = usif_lsn_i
        BY <1>3, <3>5 DEF USIF!LsnReadRep, USIF!Accepted, USIF!NumPorts, NumPorts
      <4>2. \A j \in 0..(NumPorts - 1) : PortOf(j) \in uoePorts
        BY <3>1, <3>2, <3>5, Table DEF UsifPortsInv
      <4>3. Ports \subseteq uoePorts
        BY <4>2 DEF Ports
      <4> QED BY <1>0, <3>1, <3>2, <4>1, <4>3 DEF UsifPortsInv
    <3> QED BY <3>3, <3>4, <3>5
  <2>2. UNCHANGED usif_timedOut /\ usif_lsnState' \in {"LSN_SEND_REQ", "LSN_DONE"}
    BY <1>3 DEF USIF!LsnReadRep, USIF!Accepted
  <2> QED BY <1>0, <2>1, <2>2 DEF UsifInv
<1>4. CASE USIF!LsnTick
  BY <1>0, <1>4, UsifInvKept DEF USIF!LsnTick, USIF!LsnWaits
<1>5. CASE USIF!LsnTimeout
  BY <1>0, <1>5 DEF USIF!LsnTimeout, UsifInv
<1> QED BY <1>1, <1>2, <1>3, <1>4, <1>5 DEF USIF!LSn

LEMMA UsifInvStep == ASSUME UsifInv, [RoleNext]_roleVars PROVE UsifInv'
<1>1. CASE Tsif(Next) \/ UNCHANGED roleVars
  BY <1>1, UsifInvKept DEF Tsif, roleVars, usifVars
<1>2. CASE Usif(USIF!LSn) \/ Usif(USIF!CLs)
  BY <1>2, LSnKeeps, CLsKeeps DEF Usif
<1>3. CASE Usif(UoeListens) \/ Usif(UoeCloses)
  BY <1>3, UoeListenKeeps, UoeCloseKeeps DEF Usif, UoeListens, UoeCloses
<1> QED BY <1>1, <1>2, <1>3 DEF RoleNext

\* udp_shell_if.cpp:97-98: "will always be opened in listen mode at startup",
\* for any table, however often the UOE denies and whatever CLs closes: only an
\* expiry of the watchdog (205-213) can leave a port closed.
THEOREM UsifOpens == RoleSpec => []UsifPortsOpen
<1>1. RoleInit => UsifInv
  BY UsifInvInit
<1>2. UsifInv /\ [RoleNext]_roleVars => UsifInv'
  BY UsifInvStep
<1>3. UsifInv => UsifPortsOpen
  BY DEF UsifInv, UsifPortsInv, UsifPortsOpen
<1> QED BY <1>1, <1>2, <1>3, PTL DEF RoleSpec

-----------------------------------------------------------------------------
(* The types.  The age of a request stays below its bound because a request *)
(* is as old as the watchdog has counted; so an expiry of the watchdog also *)
(* tells that the bound of the UOE was no smaller than the watchdog.        *)

UsifTime ==
  /\ usif_lsnState = "LSN_WAIT_REP" => usif_lsnTimer > 0
  /\ usif_timedOut => WatchDog <= UoeMaxDelay
  /\ ~usif_timedOut =>
       /\ usif_LsnReq = << >> => uoeAge = 0
       /\ usif_LsnReq # << >> => usif_lsnTimer = WatchDog - uoeAge

UsifTypeInv == UsifInv /\ USIF!UsifListenTypeOK /\ UsifTime

LEMMA UsifTable ==
  /\ USIF!Ports = Ports /\ USIF!NumPorts = NumPorts
  /\ \A i \in 0..(NumPorts - 1) : USIF!PortOf(i) \in Ports
  BY DEF USIF!Ports, USIF!PortOf, USIF!NumPorts, Ports, PortOf, NumPorts

LEMMA UsifTypeInit == ASSUME RoleInit PROVE UsifTypeInv
<1>1. UsifInv
  BY UsifInvInit
<1>2. /\ usif_lsnState = "LSN_IDLE" /\ usif_lsn_i = 0 /\ usif_lsnTimer = 0
      /\ usif_clsState = "CLS_IDLE" /\ usif_LsnReq = << >> /\ usif_LsnRep = << >>
      /\ usif_ClsReq = << >> /\ usif_ClsRep \in {<< >>, << "CLOSED" >>}
      /\ uoePorts = {} /\ uoeAge = 0 /\ usif_timedOut = FALSE
  BY DEF RoleInit, USIF!UsifListenInit
<1>3. /\ usif_LsnReq \in Seq(Ports) /\ usif_LsnRep \in Seq({"OPENED", "DENIED"})
      /\ usif_ClsReq \in Seq({USIF!ClosePort}) /\ usif_ClsRep \in Seq({"OPENED", "CLOSED"})
  <2>1. \A S : << >> \in Seq(S)
    OBVIOUS
  <2>2. << "CLOSED" >> \in Seq({"OPENED", "CLOSED"})
    OBVIOUS
  <2> QED BY <1>2, <2>1, <2>2, Zenon
<1>4. USIF!UsifListenTypeOK
  <2>1. 0 \in 0..WatchDog /\ 0 \in 0..UoeMaxDelay /\ 0 \in 0..7 /\ FALSE \in BOOLEAN
    BY TimerAssumption, UoeTimeAssumption
  <2>2. usif_lsn_i \in 0..7 /\ usif_lsnTimer \in 0..WatchDog /\ uoeAge \in 0..UoeMaxDelay
    BY <1>2, <2>1
  <2>3. usif_timedOut \in BOOLEAN /\ uoePorts \subseteq Ports
    BY <1>2
  <2>4. /\ usif_lsnState \in {"LSN_IDLE", "LSN_SEND_REQ", "LSN_WAIT_REP", "LSN_DONE"}
        /\ usif_clsState \in {"CLS_IDLE", "CLS_SEND_REQ", "CLS_WAIT_REP", "CLS_DONE"}
    BY <1>2
  <2> QED BY <1>3, <2>2, <2>3, <2>4, UsifTable DEF USIF!UsifListenTypeOK, USIF!IndexMod
<1> QED BY <1>1, <1>2, <1>4 DEF UsifTypeInv, UsifTime

\* What a step that leaves time and the index of LSn alone has to keep.
LEMMA UsifTypeOf ==
  ASSUME USIF!UsifListenTypeOK,
         UNCHANGED << usif_lsnState, usif_lsn_i, usif_lsnTimer, usif_timedOut >>,
         usif_LsnReq' \in Seq(Ports), usif_LsnRep' \in Seq({"OPENED", "DENIED"}),
         usif_ClsReq' \in Seq({USIF!ClosePort}), usif_ClsRep' \in Seq({"OPENED", "CLOSED"}),
         usif_clsState' \in {"CLS_IDLE", "CLS_SEND_REQ", "CLS_WAIT_REP", "CLS_DONE"},
         uoePorts' \subseteq Ports, uoeAge' \in 0..UoeMaxDelay
  PROVE  USIF!UsifListenTypeOK'
  BY UsifTable DEF USIF!UsifListenTypeOK

LEMMA UoeListenTypes ==
  ASSUME UsifTypeInv, NEW rep \in {"OPENED", "DENIED"}, USIF!UoeListen(rep)
  PROVE  USIF!UsifListenTypeOK' /\ UsifTime'
<1>1. /\ UNCHANGED << usif_lsnState, usif_lsn_i, usif_lsnTimer, usif_clsState, usif_ClsReq,
                      usif_ClsRep, usif_timedOut >>
      /\ usif_LsnReq # << >> /\ usif_LsnReq' = Tail(usif_LsnReq)
      /\ usif_LsnRep' = Append(usif_LsnRep, rep) /\ uoeAge' = 0
      /\ uoePorts' = IF rep = "OPENED" THEN uoePorts \cup {Head(usif_LsnReq)} ELSE uoePorts
  BY DEF USIF!UoeListen, USIF!Dequeue, USIF!lsnVars, USIF!clsVars
<1>2. /\ usif_LsnReq \in Seq(Ports) /\ usif_LsnRep \in Seq({"OPENED", "DENIED"})
      /\ uoePorts \subseteq Ports /\ USIF!UsifListenTypeOK /\ UsifTime /\ UsifInv
  BY UsifTable DEF UsifTypeInv, USIF!UsifListenTypeOK
<1>3. /\ Head(usif_LsnReq) \in Ports /\ usif_LsnReq' \in Seq(Ports)
      /\ usif_LsnRep' \in Seq({"OPENED", "DENIED"})
  BY <1>1, <1>2, QueueOps
<1>4. uoePorts' \subseteq Ports
  BY <1>1, <1>2, <1>3
<1>5. USIF!UsifListenTypeOK'
  BY <1>1, <1>2, <1>3, <1>4, UsifTypeOf, UoeTimeAssumption DEF USIF!UsifListenTypeOK
<1>6. ~usif_timedOut => usif_LsnReq' = << >>
  <2> SUFFICES ASSUME ~usif_timedOut PROVE usif_LsnReq' = << >>
    OBVIOUS
  <2>1. usif_LsnReq = << PortOf(usif_lsn_i) >>
    BY <1>1, <1>2 DEF UsifInv, UsifPortsInv, UsifUnderWay
  <2> QED BY <1>1, <2>1
<1> QED BY <1>1, <1>2, <1>5, <1>6 DEF UsifTime

LEMMA UoeCloseTypes ==
  ASSUME UsifTypeInv, NEW rep \in {"OPENED", "CLOSED"}, USIF!UoeClose(rep)
  PROVE  USIF!UsifListenTypeOK' /\ UsifTime'
<1>1. /\ UNCHANGED << usif_lsnState, usif_lsn_i, usif_lsnTimer, usif_clsState, usif_LsnReq,
                      usif_LsnRep, uoeAge, usif_timedOut >>
      /\ usif_ClsReq # << >> /\ usif_ClsReq' = Tail(usif_ClsReq)
      /\ usif_ClsRep' = Append(usif_ClsRep, rep) /\ uoePorts' \subseteq uoePorts
  BY DEF USIF!UoeClose, USIF!Dequeue, USIF!lsnVars, USIF!lsnLinkVars
<1>2. /\ usif_ClsReq \in Seq({USIF!ClosePort}) /\ usif_ClsRep \in Seq({"OPENED", "CLOSED"})
      /\ USIF!UsifListenTypeOK /\ UsifTime
  BY DEF UsifTypeInv, USIF!UsifListenTypeOK
<1>3. usif_ClsReq' \in Seq({USIF!ClosePort}) /\ usif_ClsRep' \in Seq({"OPENED", "CLOSED"})
  BY <1>1, <1>2, QueueOps
<1>4. USIF!UsifListenTypeOK'
  BY <1>1, <1>2, <1>3, UsifTypeOf, UsifTable DEF USIF!UsifListenTypeOK
<1> QED BY <1>1, <1>2, <1>4 DEF UsifTime

LEMMA CLsTypes ==
  ASSUME UsifTypeInv, USIF!CLs
  PROVE  USIF!UsifListenTypeOK' /\ UsifTime'
<1>1. UNCHANGED << usif_lsnState, usif_lsn_i, usif_lsnTimer, usif_LsnReq, usif_LsnRep, uoeAge,
                   uoePorts, usif_timedOut >>
  BY DEF USIF!CLs, USIF!ClsIdle, USIF!ClsSendReq, USIF!ClsWaitRep, USIF!CLsUnchanged,
         USIF!lsnVars, USIF!lsnLinkVars
<1>2. /\ usif_ClsReq' \in {usif_ClsReq, Append(usif_ClsReq, USIF!ClosePort)}
      /\ \/ usif_ClsRep' = usif_ClsRep
         \/ usif_ClsRep # << >> /\ usif_ClsRep' = Tail(usif_ClsRep)
  <2>1. CASE USIF!ClsIdle
    BY <2>1 DEF USIF!ClsIdle, USIF!Dequeue
  <2>2. CASE USIF!ClsSendReq
    BY <2>2 DEF USIF!ClsSendReq
  <2>3. CASE USIF!ClsWaitRep
    BY <2>3 DEF USIF!ClsWaitRep, USIF!Dequeue
  <2> QED BY <2>1, <2>2, <2>3 DEF USIF!CLs
<1>3. /\ usif_ClsReq \in Seq({USIF!ClosePort}) /\ usif_ClsRep \in Seq({"OPENED", "CLOSED"})
      /\ USIF!UsifListenTypeOK /\ UsifTime
  BY DEF UsifTypeInv, USIF!UsifListenTypeOK
<1>4. usif_ClsReq' \in Seq({USIF!ClosePort}) /\ usif_ClsRep' \in Seq({"OPENED", "CLOSED"})
  BY <1>2, <1>3, QueueOps
<1>5. usif_clsState' \in {"CLS_IDLE", "CLS_SEND_REQ", "CLS_WAIT_REP", "CLS_DONE"}
  BY <1>3 DEF USIF!CLs, USIF!ClsIdle, USIF!ClsSendReq, USIF!ClsWaitRep, USIF!ClsAfter,
              USIF!UsifListenTypeOK
<1>6. USIF!UsifListenTypeOK'
  BY <1>1, <1>3, <1>4, <1>5, UsifTypeOf, UsifTable DEF USIF!UsifListenTypeOK
<1> QED BY <1>1, <1>3, <1>6 DEF UsifTime

LEMMA LSnTypes ==
  ASSUME UsifTypeInv, USIF!LSn
  PROVE  USIF!UsifListenTypeOK' /\ UsifTime'
<1> USE TimerAssumption, UoeTimeAssumption, Table, UsifTable
<1>0. /\ UNCHANGED << usif_ClsReq, usif_ClsRep, usif_clsState, uoePorts >>
      /\ USIF!UsifListenTypeOK /\ UsifTime /\ UsifInv
  BY DEF USIF!LSn, USIF!LsnIdle, USIF!LsnSendReq, USIF!LsnReadRep, USIF!LsnTick,
         USIF!LsnTimeout, USIF!LsnWaits, USIF!LSnUnchanged, USIF!clsVars, UsifTypeInv
<1>1. /\ usif_lsnState \in {"LSN_IDLE", "LSN_SEND_REQ", "LSN_WAIT_REP", "LSN_DONE"}
      /\ usif_lsn_i \in 0..7 /\ usif_lsnTimer \in 0..WatchDog
      /\ usif_LsnReq \in Seq(Ports) /\ usif_LsnRep \in Seq({"OPENED", "DENIED"})
      /\ uoeAge \in 0..UoeMaxDelay /\ usif_timedOut \in BOOLEAN
  BY <1>0 DEF USIF!UsifListenTypeOK, USIF!IndexMod
<1>a. (usif_lsn_i + 1) % 8 \in 0..7
  BY <1>1
<1>b. ASSUME usif_lsnState' \in {"LSN_IDLE", "LSN_SEND_REQ", "LSN_WAIT_REP", "LSN_DONE"},
             usif_lsn_i' \in 0..7, usif_lsnTimer' \in 0..WatchDog,
             usif_LsnReq' \in Seq(Ports), usif_LsnRep' \in Seq({"OPENED", "DENIED"}),
             uoeAge' \in 0..UoeMaxDelay, usif_timedOut' \in BOOLEAN
      PROVE  USIF!UsifListenTypeOK'
  BY <1>0, <1>b DEF USIF!UsifListenTypeOK, USIF!IndexMod
<1>2. CASE USIF!LsnIdle
  <2>1. /\ usif_lsnState' \in {"LSN_SEND_REQ", "LSN_DONE"}
        /\ UNCHANGED << usif_lsn_i, usif_lsnTimer, usif_LsnReq, usif_LsnRep, uoeAge,
                        usif_timedOut >>
    BY <1>2 DEF USIF!LsnIdle, USIF!lsnLinkVars
  <2> QED BY <1>0, <1>1, <1>b, <2>1 DEF UsifTime
<1>3. CASE USIF!LsnSendReq
  <2>1. /\ usif_lsnState' = "LSN_WAIT_REP" /\ usif_lsnTimer' = WatchDog
        /\ UNCHANGED << usif_lsn_i, usif_LsnRep, uoeAge, usif_timedOut >>
    BY <1>3 DEF USIF!LsnSendReq
  <2>2. usif_LsnReq' \in Seq(Ports)
    <3>1. CASE usif_lsn_i < NumPorts
      <4>1. USIF!PortOf(usif_lsn_i) \in Ports
        BY <1>1, <3>1
      <4>2. usif_LsnReq' = Append(usif_LsnReq, USIF!PortOf(usif_lsn_i))
        BY <1>3, <3>1 DEF USIF!LsnSendReq
      <4> QED BY <1>1, <4>1, <4>2, QueueOps
    <3>2. CASE ~(usif_lsn_i < NumPorts)
      BY <1>1, <1>3, <3>2 DEF USIF!LsnSendReq
    <3> QED BY <3>1, <3>2
  <2>3. ~usif_timedOut => uoeAge = 0
    BY <1>0, <1>3 DEF USIF!LsnSendReq, UsifTime, UsifInv, UsifPortsInv
  <2>4. UsifTime'
    BY <1>0, <2>1, <2>3 DEF UsifTime
  <2> QED BY <1>1, <1>b, <2>1, <2>2, <2>4
<1>4. CASE USIF!LsnReadRep
  <2>1. /\ usif_lsnState = "LSN_WAIT_REP" /\ usif_lsnState' \in {"LSN_SEND_REQ", "LSN_DONE"}
        /\ usif_lsnTimer' = usif_lsnTimer - 1 /\ usif_LsnRep # << >>
        /\ usif_lsn_i' \in {usif_lsn_i, (usif_lsn_i + 1) % 8}
        /\ UNCHANGED << usif_LsnReq, uoeAge, usif_timedOut >>
        /\ usif_LsnRep' = Tail(usif_LsnRep)
    BY <1>4 DEF USIF!LsnReadRep, USIF!Dequeue, USIF!NextIndex, USIF!IndexMod
  <2>2. usif_LsnRep' \in Seq({"OPENED", "DENIED"})
    BY <1>1, <2>1, QueueOps
  <2>3. usif_lsnTimer' \in 0..WatchDog
    BY <1>0, <1>1, <2>1 DEF UsifTime
  <2>4. ASSUME ~usif_timedOut PROVE usif_LsnReq = << >>
    <3>1. UsifUnderWay
      BY <1>0, <2>1, <2>4 DEF UsifInv, UsifPortsInv
    <3> QED BY <2>1, <3>1 DEF UsifUnderWay
  <2>5. UsifTime'
    BY <1>0, <2>1, <2>4 DEF UsifTime
  <2> QED BY <1>1, <1>a, <1>b, <2>1, <2>2, <2>3, <2>5
<1>5. CASE USIF!LsnTick \/ USIF!LsnTimeout
  <2>1. /\ usif_lsnState = "LSN_WAIT_REP" /\ usif_LsnRep = << >>
        /\ usif_LsnReq # << >> => uoeAge < (IF usif_timedOut THEN WatchDog - 1 ELSE UoeMaxDelay)
        /\ usif_lsnTimer' = usif_lsnTimer - 1
        /\ uoeAge' = IF usif_LsnReq # << >> THEN uoeAge + 1 ELSE uoeAge
        /\ UNCHANGED << usif_LsnReq, usif_LsnRep >>
    BY <1>5 DEF USIF!LsnTick, USIF!LsnTimeout, USIF!LsnWaits, USIF!Delay
  <2>2. /\ usif_lsnTimer' \in 0..WatchDog /\ uoeAge' \in 0..UoeMaxDelay
    BY <1>0, <1>1, <2>1 DEF UsifTime
  <2>3. ASSUME ~usif_timedOut PROVE usif_LsnReq # << >>
    <3>1. UsifUnderWay
      BY <1>0, <2>1, <2>3 DEF UsifInv, UsifPortsInv
    <3>2. \A x : << x >> # << >>
      OBVIOUS
    <3> QED BY <2>1, <3>1, <3>2 DEF UsifUnderWay
  <2>4. CASE USIF!LsnTick
    <3>1. /\ usif_lsnTimer > 1
          /\ UNCHANGED << usif_lsnState, usif_lsn_i, usif_timedOut >>
      BY <2>4 DEF USIF!LsnTick
    <3>2. UsifTime'
      BY <1>0, <1>1, <2>1, <2>3, <3>1 DEF UsifTime
    <3> QED BY <1>1, <1>b, <2>1, <2>2, <3>1, <3>2
  <2>5. CASE USIF!LsnTimeout
    <3>1. /\ usif_lsnTimer = 1 /\ usif_lsn_i' = (usif_lsn_i + 1) % 8
          /\ usif_lsnState' = "LSN_SEND_REQ" /\ usif_timedOut' = TRUE
      BY <2>5 DEF USIF!LsnTimeout, USIF!NextIndex, USIF!IndexMod
    <3>2. WatchDog <= UoeMaxDelay
      BY <1>0, <1>1, <2>1, <2>3, <3>1 DEF UsifTime
    <3>3. UsifTime'
      BY <3>1, <3>2 DEF UsifTime
    <3> QED BY <1>1, <1>a, <1>b, <2>1, <2>2, <3>1, <3>3
  <2> QED BY <1>5, <2>4, <2>5
<1> QED BY <1>2, <1>3, <1>4, <1>5 DEF USIF!LSn

LEMMA UsifTypeStep == ASSUME UsifTypeInv, [RoleNext]_roleVars PROVE UsifTypeInv'
<1>0. UsifInv'
  BY UsifInvStep DEF UsifTypeInv
<1>1. CASE Tsif(Next) \/ UNCHANGED roleVars
  <2>1. UNCHANGED usifVars
    BY <1>1 DEF Tsif, roleVars
  <2> QED BY <1>0, <2>1 DEF usifVars, UsifTypeInv, UsifTime, USIF!UsifListenTypeOK
<1>2. CASE Usif(USIF!LSn) \/ Usif(USIF!CLs)
  BY <1>0, <1>2, LSnTypes, CLsTypes DEF Usif, UsifTypeInv
<1>3. CASE Usif(UoeListens) \/ Usif(UoeCloses)
  BY <1>0, <1>3, UoeListenTypes, UoeCloseTypes DEF Usif, UoeListens, UoeCloses, UsifTypeInv
<1> QED BY <1>1, <1>2, <1>3 DEF RoleNext

\* tcp_shell_if.cpp:292, 347, 371 and udp_shell_if.cpp:129, 184, 206: the
\* watchdogs never count below 0 and the indices stay in their registers,
\* however late the engines answer; only ports of the table are requested, and
\* none that CLs closes.
THEOREM RoleTypes == RoleSpec => []RoleTypeOK
<1>1. RoleInit => TypeOK /\ UsifTypeInv
  BY UsifTypeInit, ListenInit DEF RoleInit, ListenInv
<1>2. TypeOK /\ UsifTypeInv /\ [RoleNext]_roleVars => (TypeOK /\ UsifTypeInv)'
  <2> SUFFICES ASSUME TypeOK, UsifTypeInv, [RoleNext]_roleVars PROVE TypeOK' /\ UsifTypeInv'
    OBVIOUS
  <2>1. [Next]_vars
    BY DEF RoleNext, Tsif, Usif, roleVars, tsifVars, vars
  <2> QED BY <2>1, ListenTypeStep, UsifTypeStep
<1>3. TypeOK /\ UsifTypeInv => RoleTypeOK
  BY DEF RoleTypeOK, UsifTypeInv
<1> QED BY <1>1, <1>2, <1>3, PTL DEF RoleSpec
=============================================================================
