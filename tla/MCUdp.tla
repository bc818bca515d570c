-------------------------------- MODULE MCUdp --------------------------------
(* An instance of Udp: one port of each kind, streams of the least depths,  *)
(* and every datagram from another host, for another target.                *)
EXTENDS Udp

MCHosts == 1..2 * MaxDgms
MCSenders == [dgm \in 1..MaxDgms |-> dgm]
MCTargets == [dgm \in 1..MaxDgms |-> MaxDgms + dgm]
MCDepth_Data == [p \in Lines |-> 2]
MCDepth_Meta == [p \in Lines |-> 1]
=============================================================================
