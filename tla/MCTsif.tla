-------------------------------- MODULE MCTsif --------------------------------
(* An instance of Tsif: one session per kind of listen port, one to open.    *)
EXTENDS Tsif

CONSTANTS echo, sink, cmd, act, nosock    \* model values

MCSessIds == {echo, sink, cmd}
MCDstPort == [s \in SessIds |-> CASE s = echo -> 8803 [] s = sink -> 8800 [] s = cmd -> 8801]
MCTxSessIds == {echo, act}
=============================================================================
