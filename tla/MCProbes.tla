------------------------------ MODULE MCProbes ------------------------------
(* A gateway, one more router and the target of the trace.                  *)
EXTENDS Probes

MCPath == <<"gw", "isp", "dst">>
=============================================================================
