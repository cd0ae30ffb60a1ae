-------------------------- MODULE MCExecSandboxes --------------------------
(***************************************************************************)
(* Personas: one that may run code, one that asks for the tool but whose   *)
(* account the cluster does not let claim, and one whose account may claim *)
(* but whose profile does not offer the tool.                              *)
(***************************************************************************)
EXTENDS ExecSandboxes

CONSTANTS quant, unbound, analyst

MCCaller == {quant, unbound, analyst}
MCDefaultTools == [a \in MCCaller |-> IF a = analyst THEN {METRICS} ELSE {METRICS, PYTHON}]
MCRoleBinding == {quant, analyst}
=============================================================================
