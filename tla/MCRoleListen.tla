----------------------------- MODULE MCRoleListen -----------------------------
(* An instance of RoleListen with the port table of the code, the same for  *)
(* TCP and UDP.                                                             *)
EXTENDS RoleListen

MCPortTable == << 8800, 8801, 8802, 8803, 5001, 5201 >>
=============================================================================
