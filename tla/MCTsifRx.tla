------------------------------- MODULE MCTsifRx -------------------------------
(* An instance of TsifRx: one session per kind of listen port.             *)
EXTENDS TsifRxCredit

CONSTANTS echo, sink, cmd    \* model values

MCSessIds == {echo, sink, cmd}
EchoAndCmd == {echo, cmd}
MCDstPort == [s \in SessIds |-> CASE s = echo -> 8803 [] s = sink -> 8800 [] s = cmd -> 8801]
=============================================================================
