----------------------------- MODULE MCTsifListen -----------------------------
(* An instance of TsifListen with the port table of the code.              *)
EXTENDS TsifListen

MCPortTable == << 8800, 8801, 8802, 8803, 5001, 5201 >>
=============================================================================
