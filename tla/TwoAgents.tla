------------------------------ MODULE TwoAgents ------------------------------
(***************************************************************************)
(* ToolGateSystem with the program of the agent running twice at the same  *)
(* time.  guest_uio_transport.py opens /dev/uio0 without a lock, so the    *)
(* two processes share the page and the doorbell; every opener of the      *)
(* device counts the interrupts for itself.                                *)
(***************************************************************************)
EXTENDS ToolGateSystem

VARIABLES apc2, phase2, call2, calls2, report2, irq2    \* the other process

other == <<apc2, phase2, call2, calls2, report2, irq2>>

Other == INSTANCE ToolGateSystem
           WITH apc <- apc2, phase <- phase2, call <- call2, calls <- calls2,
                report <- report2, irq <- irq2

TwoInit == Init /\ Other!Init

\* The interrupt is raised for both.
GateServes ==
  /\ GateStep
  /\ irq2' = (gpc = "emit" \/ irq2)
  /\ UNCHANGED <<apc2, phase2, call2, calls2, report2>>

FirstRuns == AgentStep /\ UNCHANGED other

SecondRuns == Other!AgentStep /\ UNCHANGED <<agent, irq>>

TwoNext == GateServes \/ FirstRuns \/ SecondRuns

TwoSpec == TwoInit /\ [][TwoNext]_<<vars, other>>

-----------------------------------------------------------------------------
(* A claim that does not hold *)

\* toolgate_component.c:47, "Quorum satisfied: dispatch privileged operation to
\* ToolExecutor": what is dispatched for a quorum is the operation it was for.
QuorumRunsItsOwn == RunsItsOwn("quorum")
=============================================================================
