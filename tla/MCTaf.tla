-------------------------------- MODULE MCTaf --------------------------------
(* An instance of Taf: a session with an odd session-id, one with an even. *)
EXTENDS Taf

CONSTANTS odd, even                    \* model values

MCSessIds == {odd, even}
MCLsb == [s \in MCSessIds |-> IF s = odd THEN 1 ELSE 0]
=============================================================================
