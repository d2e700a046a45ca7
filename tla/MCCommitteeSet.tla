--------------------------- MODULE MCCommitteeSet ---------------------------
(* Two instances: the registry with TLS keys and delegated operators over the *)
(* first reconfigurations (MCRegistry.cfg), and reconfiguration over several  *)
(* Sui epochs without them (MCReconfig.cfg).                                  *)
EXTENDS CommitteeSet
=============================================================================
