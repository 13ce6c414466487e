---------------------------- MODULE MCTwoAgents ----------------------------
(***************************************************************************)
(* The script at the end of guest_sovr_agent.py, run twice side by side.   *)
(***************************************************************************)
EXTENDS TwoAgents, MCToolGateSystem
=============================================================================
