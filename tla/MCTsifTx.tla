------------------------------- MODULE MCTsifTx -------------------------------
(* Instances of TsifTx: one session that TAF answers, one or two that COn   *)
(* opens, and what a reset of the role may have left with the TOE.          *)
EXTENDS TsifTx, TLC

CONSTANTS taf, act1, act2, host1, host2, nosock    \* model values

MCSessIds == {taf, act1, act2}
TwoSessIds == {taf, act1}
MCTafSessIds == {taf}
TwoHosts == {host1, host2}
HostSymmetry == Permutations(TwoHosts)

Nothing == {<< >>}
OpenToAHost == {<< h >> : h \in TwoHosts}
=============================================================================
