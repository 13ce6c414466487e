--------------------------- MODULE ToolGateSystem ---------------------------
(***************************************************************************)
(* The assembly of camkes/ToolGateSystem.camkes at work: the agent process *)
(* in the Linux guest (guest_sovr_agent.py over guest_uio_transport.py),   *)
(* the doorbell handler of the gate (src/toolgate_component.c) and the     *)
(* executor (src/toolexecutor.c), around one shared 4 KB dataport and two  *)
(* notifications.                                                          *)
(*                                                                         *)
(* A step is one access to the dataport.  prop, app, verdict and result    *)
(* are its four regions; doorbell and irq are the pending notifications,   *)
(* which hold no count.  The gate, g_state, runs the functions of          *)
(* ToolGateOps between its accesses.                                       *)
(***************************************************************************)
EXTENDS ToolGateOps, Sequences

CONSTANTS Script,       \* per call of execute_agent_loop, the calls to pick from
          Blank,        \* the payload of a zeroed argument buffer
          MaxRuns,      \* starts of the agent process (bound)
          PriorityIsolation
            \* TRUE: the guest runs only while gate and executor have nothing
            \* to do.  FALSE: it may run in between, as it does when the
            \* executor blocks or the guest has a core of its own.

Call == [tool_id : ToolIds, sequence_id : Seqs,
         arg_len : 0 .. SOVP_MAX_ARGS, payload : Payloads]

ASSUME ScriptAssumption == Script \in Seq(SUBSET Call) /\ Script # <<>>
ASSUME BlankAssumption == Blank \in Payloads
ASSUME RunAssumption == MaxRuns \in Nat \ {0}
ASSUME IsolationAssumption == PriorityIsolation \in BOOLEAN

VARIABLES prop, app, verdict, result,   \* the dataport
          doorbell, irq,                \* notify_prop, notify_verdict
          g_state, gpc, local_verdict, authorised, exec_status,  \* the gate
          apc, phase, call, calls, runs, report,                 \* the agent
          executed, issues              \* history: dispatches, challenges

dataport == <<prop, app, verdict, result>>
gate == <<g_state, gpc, local_verdict, authorised, exec_status>>
agent == <<apc, phase, call, calls, runs, report>>
vars == <<dataport, doorbell, irq, gate, agent, executed, issues>>

Verdict == [magic : Magics, status_code : Statuses, decision : Decisions,
            sequence_id : Seqs]
Result == [magic : Magics, status_code : Statuses, sequence_id : Seqs,
           text : {"", "EXEC_READ_OK", "EXEC_WRITE_OK"}]
Report == [call : Call, verdict : Verdict, result : Result,
           outcome : {"none", "executed", "denied", "timeout"}]
Authorised == [frame : ProposalFrame, via : {"policy", "quorum"}]
Dispatch == [frame : ProposalFrame, authorised : Authorised]

ZeroedProposal ==
  [magic |-> "none", version |-> 2, tool_id |-> "UNKNOWN", sequence_id |-> 0,
   arg_len |-> 0, extent |-> 0, payload |-> Blank]
NoWitness == [i \in Slots |-> NoChallenge]
ZeroedApproval ==
  [magic |-> "none", version |-> 2, sequence_id |-> 0, signer_bitmap |-> {},
   quorum_count |-> 0, witnesses |-> NoWitness]
ZeroedVerdict ==
  [magic |-> "none", status_code |-> "OK", decision |-> "DENY",
   sequence_id |-> 0]
ZeroedResult ==
  [magic |-> "none", status_code |-> "OK", sequence_id |-> 0, text |-> ""]

Init ==
  /\ prop = ZeroedProposal /\ app = ZeroedApproval
  /\ verdict = ZeroedVerdict /\ result = ZeroedResult
  /\ doorbell = FALSE /\ irq = FALSE
  /\ g_state = ZeroedGateState /\ gpc = "wait"
  /\ local_verdict = ZeroedVerdict /\ exec_status = "OK"
  /\ authorised = [frame |-> ZeroedProposal, via |-> "policy"]
  /\ apc = "open" /\ phase = 1 /\ calls = 1 /\ runs = 1
  /\ call \in Script[1]
  /\ report = [call |-> call, verdict |-> ZeroedVerdict,
               result |-> ZeroedResult, outcome |-> "none"]
  /\ executed = <<>> /\ issues = 0

-----------------------------------------------------------------------------
(* proposal_ready_handle *)

GateGoes(from, to) == gpc = from /\ gpc' = to

\* The notification is consumed; the frame is an approval or a new proposal.
Wake ==
  /\ doorbell
  /\ doorbell' = FALSE
  /\ \/ GateGoes("wait", "verify") /\ app.magic = "SOVQ"
     \/ GateGoes("wait", "header") /\ app.magic # "SOVQ"
  /\ UNCHANGED <<dataport, irq, g_state, local_verdict, authorised,
                 exec_status, agent, executed, issues>>

DenyApproval ==
  /\ ApprovalStatus(g_state, app) # "OK"
  /\ GateGoes("verify", "emit")
  /\ verdict' = [verdict EXCEPT !.magic = "SOVV", !.decision = "DENY",
                   !.status_code = ApprovalStatus(g_state, app)]
  /\ UNCHANGED <<prop, app, result, doorbell, irq, g_state, local_verdict,
                 authorised, exec_status, agent, executed, issues>>

AcceptApproval ==
  /\ ApprovalStatus(g_state, app) = "OK"
  /\ GateGoes("verify", "dispatch")
  /\ authorised' = [frame |-> g_state.active_challenge.prop, via |-> "quorum"]
  /\ g_state' = CloseChallenge(g_state)
  /\ UNCHANGED <<dataport, doorbell, irq, local_verdict, exec_status, agent,
                 executed, issues>>

Deny(status) ==
  [magic |-> "SOVV", status_code |-> status, decision |-> "DENY",
   sequence_id |-> prop.sequence_id]

\* toolgate_handle_proposal reads the header ...
CheckHeader ==
  /\ local_verdict' = Deny(HeaderStatus(g_state, prop))
  /\ \/ HeaderStatus(g_state, prop) # "OK" /\ GateGoes("header", "publish")
     \/ HeaderStatus(g_state, prop) = "OK" /\ GateGoes("header", "body")
  /\ UNCHANGED <<dataport, doorbell, irq, g_state, authorised, exec_status,
                 agent, executed, issues>>

\* ... and then the arguments, and refuses the frame ...
RefuseBody ==
  /\ BodyStatus(prop) # "OK"
  /\ GateGoes("body", "publish")
  /\ local_verdict' = [local_verdict EXCEPT !.status_code = BodyStatus(prop)]
  /\ UNCHANGED <<dataport, doorbell, irq, g_state, authorised, exec_status,
                 agent, executed, issues>>

\* ... or spends its number and, for a QUORUM tool, hashes it once more.
CommitProposal ==
  /\ BodyStatus(prop) = "OK"
  /\ GateGoes("body", "publish")
  /\ \E n \in Nonces : g_state' = Commit(g_state, prop, n)
  /\ local_verdict' = [local_verdict EXCEPT
                         !.status_code = AcceptedStatus(prop),
                         !.decision = Policy[prop.tool_id].decision]
  /\ authorised' = [frame |-> prop, via |-> "policy"]
  /\ issues' = IF Policy[prop.tool_id].decision = "QUORUM" THEN issues + 1
                                                           ELSE issues
  /\ UNCHANGED <<dataport, doorbell, irq, exec_status, agent, executed>>

\* Mutant: a refusal returns without verdict_ready_emit.
PublishVerdictDenySilently ==
  /\ verdict' = local_verdict
  /\ \/ /\ local_verdict.decision = "ALLOW" /\ local_verdict.status_code = "OK"
        /\ GateGoes("publish", "dispatch")
     \/ /\ local_verdict.decision = "QUORUM"
        /\ GateGoes("publish", "emit")
     \/ /\ local_verdict.decision = "DENY"
        /\ GateGoes("publish", "wait")
  /\ UNCHANGED <<prop, app, result, doorbell, irq, g_state, local_verdict,
                 authorised, exec_status, agent, executed, issues>>

PublishVerdict ==
  /\ verdict' = local_verdict
  /\ \/ /\ local_verdict.decision = "ALLOW" /\ local_verdict.status_code = "OK"
        /\ GateGoes("publish", "dispatch")
     \/ /\ ~(local_verdict.decision = "ALLOW"
               /\ local_verdict.status_code = "OK")
        /\ GateGoes("publish", "emit")
  /\ UNCHANGED <<prop, app, result, doorbell, irq, g_state, local_verdict,
                 authorised, exec_status, agent, executed, issues>>

\* exec_execute marshals the proposal that is in the dataport now.
CallExecutor ==
  /\ GateGoes("dispatch", "executing")
  /\ executed' = Append(executed, [frame |-> prop, authorised |-> authorised])
  /\ UNCHANGED <<dataport, doorbell, irq, g_state, local_verdict, authorised,
                 exec_status, agent, issues>>

\* toolexec_dispatch: the text and the status for a tool.
Served == [t \in {"READ_FILE", "WRITE_FILE"} |->
             IF t = "READ_FILE" THEN "EXEC_READ_OK" ELSE "EXEC_WRITE_OK"]
ExecText(tool) == IF tool \in DOMAIN Served THEN Served[tool] ELSE ""
ExecStatus(tool) == IF tool \in DOMAIN Served THEN "OK" ELSE "ERR_UNKNOWN_TOOL"

\* The executor answers: the outputs of the call land in the dataport.
ExecutorReturns ==
  LET tool == executed[Len(executed)].frame.tool_id
  IN /\ GateGoes("executing", "fill")
     /\ exec_status' = ExecStatus(tool)
     /\ result' = [result EXCEPT !.text = ExecText(tool)]
     /\ UNCHANGED <<prop, app, verdict, doorbell, irq, g_state, local_verdict,
                    authorised, agent, executed, issues>>

\* Mutant: the result keeps the number of the one before.
FillResultForgetsNumber ==
  /\ GateGoes("fill", "emit")
  /\ result' = [result EXCEPT !.magic = "SOVX", !.status_code = exec_status]
  /\ verdict' = IF authorised.via = "quorum"
                  THEN [verdict EXCEPT !.status_code = "OK",
                                       !.decision = "ALLOW"]
                  ELSE verdict
  /\ UNCHANGED <<prop, app, doorbell, irq, g_state, local_verdict, authorised,
                 exec_status, agent, executed, issues>>

\* The header of the result, and on the approval path the verdict with it: its
\* magic and number stay as the proposal's verdict left them.
FillResult ==
  /\ GateGoes("fill", "emit")
  /\ result' = [result EXCEPT !.magic = "SOVX", !.status_code = exec_status,
                              !.sequence_id = prop.sequence_id]
  /\ verdict' = IF authorised.via = "quorum"
                  THEN [verdict EXCEPT !.status_code = "OK",
                                       !.decision = "ALLOW"]
                  ELSE verdict
  /\ UNCHANGED <<prop, app, doorbell, irq, g_state, local_verdict, authorised,
                 exec_status, agent, executed, issues>>

EmitVerdictReady ==
  /\ GateGoes("emit", "wait")
  /\ irq' = TRUE
  /\ UNCHANGED <<dataport, doorbell, g_state, local_verdict, authorised,
                 exec_status, agent, executed, issues>>

GateStep ==
  \/ Wake \/ DenyApproval \/ AcceptApproval \/ CheckHeader \/ RefuseBody
  \/ CommitProposal \/ PublishVerdict \/ CallExecutor \/ ExecutorReturns
  \/ FillResult \/ EmitVerdictReady

-----------------------------------------------------------------------------
(* The agent: execute_agent_loop over SovereignGateUIO *)

\* gate.priority and executor.priority are above vmm.priority.
GuestRuns == PriorityIsolation => gpc = "wait" /\ ~doorbell

AgentGoes(from, to) == GuestRuns /\ apc = from /\ apc' = to

\* Opening /dev/uio0 forgets the interrupts that came before.
OpenTransport ==
  /\ AgentGoes("open", "clear")
  /\ irq' = FALSE
  /\ UNCHANGED <<dataport, doorbell, gate, phase, call, calls, runs, report,
                 executed, issues>>

\* Mutant: the approval of an earlier call stays in the dataport.
ClearApprovalForgotten ==
  /\ AgentGoes("clear", "prop_header")
  /\ UNCHANGED <<dataport, doorbell, irq, gate, phase, call, calls, runs, report,
                 executed, issues>>

\* write_proposal: the approval magic first, then the frame.
ClearApproval ==
  /\ AgentGoes("clear", "prop_header")
  /\ app' = [app EXCEPT !.magic = "none"]
  /\ UNCHANGED <<prop, verdict, result, doorbell, irq, gate, phase, call, calls,
                 runs, report, executed, issues>>

\* pack_proposal; the last byte of the payload is not zero.
WriteProposalHeader ==
  /\ AgentGoes("prop_header", "prop_args")
  /\ prop' = [prop EXCEPT !.magic = "SOVP", !.version = SOVP_VERSION,
                          !.tool_id = call.tool_id,
                          !.sequence_id = call.sequence_id,
                          !.arg_len = call.arg_len]
  /\ UNCHANGED <<app, verdict, result, doorbell, irq, gate, phase, call, calls,
                 runs, report, executed, issues>>

WriteProposalArgs ==
  /\ AgentGoes("prop_args", "ring")
  /\ prop' = [prop EXCEPT !.extent = call.arg_len, !.payload = call.payload]
  /\ UNCHANGED <<app, verdict, result, doorbell, irq, gate, phase, call, calls,
                 runs, report, executed, issues>>

RingDoorbell ==
  /\ AgentGoes("ring", "await")
  /\ doorbell' = TRUE
  /\ UNCHANGED <<dataport, irq, gate, phase, call, calls, runs, report,
                 executed, issues>>

\* wait_for_verdict: the interrupt is there, whoever it was meant for ...
TakeInterrupt ==
  /\ irq
  /\ AgentGoes("await", "read_verdict")
  /\ irq' = FALSE
  /\ UNCHANGED <<dataport, doorbell, gate, phase, call, calls, runs, report,
                 executed, issues>>

\* The call returns; the caller makes the next one of its script, or ends.
ReturnFrom(from, r) ==
  /\ GuestRuns /\ apc = from
  /\ report' = r
  /\ phase' = 1
  /\ IF calls < Len(Script)
       THEN /\ calls' = calls + 1
            /\ call' \in Script[calls + 1]
            /\ apc' = "clear"
       ELSE /\ apc' = "exit"
            /\ UNCHANGED <<calls, call>>
  /\ UNCHANGED <<dataport, doorbell, irq, gate, runs, executed, issues>>

\* ... or two seconds have passed without one.
TimeOut ==
  /\ ~irq
  /\ ReturnFrom("await", [call |-> call, verdict |-> ZeroedVerdict,
                          result |-> ZeroedResult, outcome |-> "timeout"])

IsAllowed(v) == v.decision = "ALLOW" /\ v.status_code = "OK"
IsPending(v) == v.decision = "QUORUM" /\ v.status_code = "PENDING_APPROVAL"

\* The final verdict is printed; the result is read whatever it says.
ReadAllowed ==
  /\ phase = 2 \/ IsAllowed(verdict)
  /\ AgentGoes("read_verdict", "read_result")
  /\ report' = [call |-> call, verdict |-> verdict, result |-> ZeroedResult,
                outcome |-> "none"]
  /\ UNCHANGED <<dataport, doorbell, irq, gate, phase, call, calls, runs,
                 executed, issues>>

ReadResult ==
  ReturnFrom("read_result", [report EXCEPT !.result = result,
                                           !.outcome = "executed"])

\* Mutant: a denied call is proposed again.
ReadDeniedRetries ==
  /\ phase = 1 /\ ~IsAllowed(verdict) /\ ~IsPending(verdict)
  /\ AgentGoes("read_verdict", "clear")
  /\ UNCHANGED <<dataport, doorbell, irq, gate, phase, call, calls, runs, report,
                 executed, issues>>

ReadDenied ==
  /\ phase = 1 /\ ~IsAllowed(verdict) /\ ~IsPending(verdict)
  /\ ReturnFrom("read_verdict", [call |-> call, verdict |-> verdict,
                                 result |-> ZeroedResult,
                                 outcome |-> "denied"])

ReadPending ==
  /\ phase = 1 /\ ~IsAllowed(verdict) /\ IsPending(verdict)
  /\ AgentGoes("read_verdict", "app_header")
  /\ UNCHANGED <<dataport, doorbell, irq, gate, phase, call, calls, runs, report,
                 executed, issues>>

\* write_approval: pack_approval with the triad's bitmap ...
WriteApprovalHeader ==
  /\ AgentGoes("app_header", "app_witnesses")
  /\ app' = [app EXCEPT !.magic = "SOVQ", !.version = SOVP_VERSION,
                        !.sequence_id = call.sequence_id,
                        !.signer_bitmap = {0, 1, 2}, !.quorum_count = 3]
  /\ UNCHANGED <<prop, verdict, result, doorbell, irq, gate, phase, call, calls,
                 runs, report, executed, issues>>

\* ... and three simulated signatures, which sign nothing.
WriteWitnesses ==
  /\ AgentGoes("app_witnesses", "ring")
  /\ app' = [app EXCEPT !.witnesses = NoWitness]
  /\ phase' = 2
  /\ UNCHANGED <<prop, verdict, result, doorbell, irq, gate, call, calls, runs,
                 report, executed, issues>>

AgentStep ==
  \/ OpenTransport \/ ClearApproval \/ WriteProposalHeader \/ WriteProposalArgs
  \/ RingDoorbell \/ TakeInterrupt \/ TimeOut \/ ReadAllowed \/ ReadResult
  \/ ReadDenied \/ ReadPending \/ WriteApprovalHeader \/ WriteWitnesses

\* The process dies or has ended, and the program is started again.  The
\* dataport, the gate and a pending doorbell outlive it.
RunAgain ==
  /\ GuestRuns
  /\ runs < MaxRuns
  /\ runs' = runs + 1
  /\ apc' = "open" /\ phase' = 1 /\ calls' = 1
  /\ call' \in Script[1]
  /\ UNCHANGED <<dataport, doorbell, irq, gate, report, executed, issues>>

Next == GateStep \/ AgentStep \/ RunAgain

Spec == Init /\ [][Next]_vars

\* Any program instead of the agent: while the guest runs it may leave any frame
\* in the page, and ring or take an interrupt when it likes.
AnyProgram ==
  /\ GuestRuns
  /\ prop' \in ProposalFrame /\ app' \in ApprovalFrame
  /\ verdict' \in Verdict /\ result' \in Result
  /\ doorbell' \in {doorbell, TRUE} /\ irq' \in {irq, FALSE}
  /\ UNCHANGED <<gate, agent, executed, issues>>

OpenSpec == Init /\ [][GateStep \/ AnyProgram]_vars

\* The kernel schedules the gate and the executor when they can run, and the
\* guest when they cannot.
FairSpec == Spec /\ WF_vars(GateStep) /\ WF_vars(AgentStep)

-----------------------------------------------------------------------------
(* Properties *)

\* Regions, program counters and histories keep their types.
TypeOK ==
  /\ prop \in ProposalFrame /\ app \in ApprovalFrame
  /\ verdict \in Verdict /\ result \in Result
  /\ {doorbell, irq} \subseteq BOOLEAN
  /\ g_state \in GateState
  /\ gpc \in {"wait", "verify", "header", "body", "publish", "dispatch",
              "executing", "fill", "emit"}
  /\ local_verdict \in Verdict /\ authorised \in Authorised
  /\ exec_status \in Statuses
  /\ apc \in {"open", "clear", "prop_header", "prop_args", "ring", "await",
              "read_verdict", "read_result", "app_header", "app_witnesses",
              "exit"}
  /\ phase \in 1 .. 2 /\ call \in Call /\ calls \in 1 .. Len(Script)
  /\ runs \in 1 .. MaxRuns /\ report \in Report
  /\ executed \in Seq(Dispatch) /\ issues \in Nat

\* What the executor is given for such an authorisation is the frame it was given for.
RunsItsOwn(via) ==
  \A i \in DOMAIN executed :
    executed[i].authorised.via = via =>
      executed[i].frame = executed[i].authorised.frame

\* For one run of this agent at a time and under the priorities: the executor is
\* given, byte for byte, the frame the policy admitted or the quorum's challenge was
\* hashed from, although the gate reads the shared page again to call it, and the
\* agent may have died and left an approval there (toolgate_component.c:37-54).
\* It is the agent that keeps its frame until the approval; TwoAgents has two of
\* them on the page, and there the part about the quorum does not hold.
DispatchMatchesAuthorisation == RunsItsOwn("policy") /\ RunsItsOwn("quorum")

\* No sequence number is dispatched twice, although the agent writes the same
\* calls again after it has died anywhere in between.
DispatchedOnce ==
  \A i, j \in DOMAIN executed :
    executed[i].frame.sequence_id = executed[j].frame.sequence_id => i = j

\* An outcome is about the agent's own call: the verdict carries its number, and a
\* result it reads is what the executor answers to a call like it, failures
\* included, under a number under which it was dispatched - although neither region
\* is ever cleared (guest_sovr_agent.py:91, :128).
OutcomeIsOwn ==
  /\ report.outcome \in {"executed", "denied"} =>
       report.verdict.sequence_id = report.call.sequence_id
  /\ report.outcome = "executed" =>
       /\ report.result.sequence_id = report.call.sequence_id
       /\ report.result.status_code = ExecStatus(report.call.tool_id)
       /\ report.result.text = ExecText(report.call.tool_id)
       /\ \E i \in DOMAIN executed :
            /\ executed[i].frame.sequence_id = report.call.sequence_id
            /\ executed[i].frame.tool_id = report.call.tool_id
            /\ executed[i].frame.payload = report.call.payload

\* With the gate above the guest, wait_for_verdict never waits: whenever the
\* guest gets to run its select, the interrupt is there and no call times out.
VerdictIsThere == GuestRuns /\ apc = "await" => irq

\* No wakeup is lost: an agent that waits has its interrupt, or the gate is on
\* its way to raise one - even if a call before timed out and left its own
\* notifications behind.
AnswerIsComing == apc = "await" => irq \/ doorbell \/ gpc # "wait"

\* However the memory races go, a challenge releases one dispatch at most.
QuorumDispatchesCovered ==
  Cardinality({i \in DOMAIN executed : executed[i].authorised.via = "quorum"})
    <= issues

\* Every doorbell is answered by an interrupt ...
DoorbellAnswered == doorbell ~> irq

\* ... and every run of the agent comes to its end.
RunEnds == apc = "open" ~> apc = "exit"

-----------------------------------------------------------------------------
(* The assembly implements the abstract promise of the gate. *)

\* What a frame asks for: a tool with its arguments, under a number.
Orders == [tool_id : ToolIds, payload : Payloads]
RequestOf(f) == [boot |-> 1, seq |-> f.sequence_id,
                 tool |-> [tool_id |-> f.tool_id, payload |-> f.payload]]

\* The gate has let authorised.frame through and not yet called the executor.
Going == gpc = "dispatch" \/ (gpc = "publish" /\ IsAllowed(local_verdict))

HeldRequest ==
  IF g_state.has_active_challenge
    THEN {RequestOf(g_state.active_challenge.prop)} ELSE {}

\* What was given to the executor, and what is about to be.
GrantedRequests ==
  {RequestOf(executed[i].frame) : i \in DOMAIN executed}
    \cup (IF Going THEN {RequestOf(authorised.frame)} ELSE {})

NeedsNoQuorum(o) ==
  o.tool_id \in DOMAIN Policy /\ Policy[o.tool_id].decision = "ALLOW"
NeedsQuorum(o) ==
  o.tool_id \in DOMAIN Policy /\ Policy[o.tool_id].decision = "QUORUM"

Promise == INSTANCE AdmissionGate
             WITH Boots <- {1}, boot <- 1, Tools <- Orders,
                  Direct <- NeedsNoQuorum, Held <- NeedsQuorum,
                  watermark <- g_state.last_seen_sequence_id,
                  held <- HeldRequest, granted <- GrantedRequests

\* With the gate above the guest and one agent at a time in it, the whole assembly
\* keeps the promise of the gate: a tool is dispatched, with its arguments, only for
\* a request that the policy granted when its number was spent, or that was held and
\* then released - although the frame is read from the shared dataport three times
\* and the agent dies in between.
PromiseKept == Promise!Spec
=============================================================================
