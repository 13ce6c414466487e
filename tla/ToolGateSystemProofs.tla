------------------------ MODULE ToolGateSystemProofs ------------------------
(***************************************************************************)
(* Proofs about ToolGateSystem, for every policy table, every script of    *)
(* calls and any number of starts of the agent.                            *)
(***************************************************************************)
EXTENDS ToolGateSystem, FiniteSetTheorems, TLAPS

-----------------------------------------------------------------------------
(* Types *)

GatePlaces == {"wait", "verify", "header", "body", "publish", "dispatch",
               "executing", "fill", "emit"}
AgentPlaces == {"open", "clear", "prop_header", "prop_args", "ring", "await",
                "read_verdict", "read_result", "app_header", "app_witnesses", "exit"}

\* The dataport and the notifications, the gate, the agent, the histories.
PortTypes ==
  /\ prop \in ProposalFrame /\ app \in ApprovalFrame
  /\ verdict \in Verdict /\ result \in Result
  /\ {doorbell, irq} \subseteq BOOLEAN
GateTypes ==
  /\ g_state \in GateState /\ gpc \in GatePlaces
  /\ local_verdict \in Verdict /\ authorised \in Authorised /\ exec_status \in Statuses
AgentTypes ==
  /\ apc \in AgentPlaces /\ phase \in 1 .. 2 /\ call \in Call /\ calls \in 1 .. Len(Script)
  /\ runs \in 1 .. MaxRuns /\ report \in Report
HistoryTypes == executed \in Seq(Dispatch) /\ issues \in Nat

LEMMA TypesAreTypeOK == TypeOK <=> PortTypes /\ GateTypes /\ AgentTypes /\ HistoryTypes
BY DEF TypeOK, PortTypes, GateTypes, AgentTypes, HistoryTypes, GatePlaces, AgentPlaces

\* A pending challenge was hashed from a proposal.
ActiveIsChallenge == g_state.has_active_challenge => g_state.active_challenge \in Challenge

LEMMA ScriptCalls ==
  /\ 1 \in 1 .. Len(Script) /\ Len(Script) \in Nat
  /\ \A n \in 1 .. Len(Script) : Script[n] \subseteq Call
BY ScriptAssumption

LEMMA PolicyRows ==
  \A t \in DOMAIN Policy : /\ Policy[t].decision \in Decisions
                           /\ Policy[t].required_mask \in SUBSET SignerBits
<1>1. \A t \in DOMAIN Policy : Policy[t] \in PolicyRow
  BY PolicyAssumption
<1> QED
  BY <1>1 DEF PolicyRow

LEMMA CallFields ==
  ASSUME NEW c \in Call
  PROVE  /\ c.tool_id \in ToolIds /\ c.sequence_id \in Seqs
         /\ c.arg_len \in 0 .. SOVP_MAX_ARGS /\ c.payload \in Payloads
BY DEF Call

LEMMA ZeroedFrames ==
  /\ ZeroedProposal \in ProposalFrame /\ ZeroedVerdict \in Verdict /\ ZeroedResult \in Result
  /\ ZeroedApproval \in ApprovalFrame /\ ZeroedGateState \in GateState
<1>0. 0 \in Seqs
  BY MaxSeqAssumption DEF Seqs
<1>1. ZeroedProposal \in ProposalFrame
  BY <1>0, BlankAssumption DEF ZeroedProposal, ProposalFrame, Magics, Versions, ToolIds,
     ArgLens, Extents, SOVP_MAX_ARGS
<1>2. ZeroedVerdict \in Verdict /\ ZeroedResult \in Result
  BY <1>0 DEF ZeroedVerdict, Verdict, ZeroedResult, Result, Magics, Statuses, Decisions
<1>3. NoWitness \in Witnesses
  BY DEF NoWitness, Witnesses
<1>4. ZeroedApproval \in ApprovalFrame
  BY <1>0, <1>3 DEF ZeroedApproval, ApprovalFrame, Magics, Versions, QuorumCounts
<1>5. ZeroedGateState \in GateState
  BY <1>0 DEF ZeroedGateState, GateState
<1> QED
  BY <1>1, <1>2, <1>4, <1>5

\* What the agent packs is a frame of the wire contract.
LEMMA PackedFrames ==
  ASSUME PortTypes, AgentTypes
  PROVE  /\ [prop EXCEPT !.magic = "SOVP", !.version = SOVP_VERSION,
                         !.tool_id = call.tool_id, !.sequence_id = call.sequence_id,
                         !.arg_len = call.arg_len] \in ProposalFrame
         /\ [prop EXCEPT !.extent = call.arg_len, !.payload = call.payload] \in ProposalFrame
         /\ [app EXCEPT !.magic = "none"] \in ApprovalFrame
         /\ [app EXCEPT !.magic = "SOVQ", !.version = SOVP_VERSION,
                        !.sequence_id = call.sequence_id, !.signer_bitmap = {0, 1, 2},
                        !.quorum_count = 3] \in ApprovalFrame
         /\ [app EXCEPT !.witnesses = NoWitness] \in ApprovalFrame
<1>1. prop \in ProposalFrame /\ app \in ApprovalFrame
  BY DEF PortTypes
<1>2. /\ call.tool_id \in ToolIds /\ call.sequence_id \in Seqs
      /\ call.arg_len \in 0 .. 992 /\ call.payload \in Payloads
  BY CallFields DEF AgentTypes, SOVP_MAX_ARGS
<1>3. call.arg_len \in ArgLens /\ call.arg_len \in Extents
  <2>1. \A n \in 0 .. 992 : n \in ArgLens /\ n \in Extents
    BY DEF ArgLens, Extents, SOVP_MAX_ARGS
  <2> QED
    BY <1>2, <2>1
<1>4. "SOVP" \in Magics /\ "SOVQ" \in Magics /\ "none" \in Magics /\ SOVP_VERSION \in Versions
  BY DEF Magics, Versions
<1>5. {0, 1, 2} \in SUBSET SignerBits /\ 3 \in QuorumCounts /\ NoWitness \in Witnesses
  BY DEF SignerBits, QuorumCounts, NoWitness, Witnesses
<1> QED
  BY <1>1, <1>2, <1>3, <1>4, <1>5 DEF ProposalFrame, ApprovalFrame

\* The states toolgate.c leaves.
LEMMA CommittedState ==
  ASSUME GateTypes, PortTypes, NEW n \in Nonces, prop.tool_id \in DOMAIN Policy,
         ActiveIsChallenge
  PROVE  /\ Commit(g_state, prop, n) \in GateState
         /\ Commit(g_state, prop, n).last_seen_sequence_id = prop.sequence_id
         /\ Policy[prop.tool_id].decision = "QUORUM" =>
              /\ Commit(g_state, prop, n).has_active_challenge
              /\ Commit(g_state, prop, n).active_challenge = [prop |-> prop, nonce |-> n]
         /\ Policy[prop.tool_id].decision # "QUORUM" =>
              /\ Commit(g_state, prop, n).has_active_challenge = g_state.has_active_challenge
              /\ Commit(g_state, prop, n).active_challenge = g_state.active_challenge
<1>1. g_state \in GateState /\ prop \in ProposalFrame
  BY DEF GateTypes, PortTypes
<1>2. prop.sequence_id \in Seqs
  BY <1>1 DEF ProposalFrame
<1>3. [prop |-> prop, nonce |-> n] \in Challenge
  BY <1>1 DEF Challenge
<1>4. Policy[prop.tool_id].required_mask \in SUBSET SignerBits
  BY PolicyRows
<1>5. CASE Policy[prop.tool_id].decision = "QUORUM"
  BY <1>2, <1>3, <1>4, <1>5 DEF Commit, GateState
<1>6. CASE Policy[prop.tool_id].decision # "QUORUM"
  BY <1>1, <1>2, <1>6 DEF Commit, GateState
<1> QED
  BY <1>5, <1>6

LEMMA ClosedState ==
  ASSUME GateTypes
  PROVE  /\ CloseChallenge(g_state) \in GateState
         /\ ~CloseChallenge(g_state).has_active_challenge
         /\ CloseChallenge(g_state).last_seen_sequence_id = g_state.last_seen_sequence_id
BY DEF GateTypes, CloseChallenge, GateState

\* The frame whose body the gate found in order has a policy row.
LEMMA BodyHasRow == BodyStatus(prop) = "OK" => prop.tool_id \in DOMAIN Policy
BY DEF BodyStatus

LEMMA StatusTypes ==
  /\ \A g, p : HeaderStatus(g, p) \in Statuses
  /\ \A p : BodyStatus(p) \in Statuses /\ AcceptedStatus(p) \in Statuses
  /\ \A g, a : ApprovalStatus(g, a) \in Statuses
<1>1. \A g, p : HeaderStatus(g, p) \in Statuses
  BY DEF HeaderStatus, Statuses
<1>2. \A p : BodyStatus(p) \in Statuses /\ AcceptedStatus(p) \in Statuses
  BY DEF BodyStatus, AcceptedStatus, Statuses
<1>3. \A g, a : ApprovalStatus(g, a) \in Statuses
  BY DEF ApprovalStatus, Statuses
<1> QED
  BY <1>1, <1>2, <1>3

\* An accepted approval answers a pending challenge.
LEMMA ApprovedChallenge ==
  ApprovalStatus(g_state, app) = "OK" => app.magic = "SOVQ" /\ g_state.has_active_challenge
BY DEF ApprovalStatus

\* The gate and the executor leave the agent alone.
LEMMA GateStepTypes ==
  ASSUME PortTypes, GateTypes, HistoryTypes, ActiveIsChallenge, GateStep
  PROVE  PortTypes' /\ GateTypes' /\ HistoryTypes' /\ ActiveIsChallenge'
<1>p. /\ prop \in ProposalFrame /\ app \in ApprovalFrame /\ verdict \in Verdict
      /\ result \in Result /\ {doorbell, irq} \subseteq BOOLEAN
  BY DEF PortTypes
<1>g. /\ g_state \in GateState /\ gpc \in GatePlaces /\ local_verdict \in Verdict
      /\ authorised \in Authorised /\ exec_status \in Statuses
  BY DEF GateTypes
<1>h. executed \in Seq(Dispatch) /\ issues \in Nat
  BY DEF HistoryTypes
<1>m. /\ {"SOVV", "SOVX"} \subseteq Magics /\ {"DENY", "ALLOW"} \subseteq Decisions
      /\ {"OK", "ERR_UNKNOWN_TOOL"} \subseteq Statuses
  BY DEF Magics, Decisions, Statuses
<1>s. prop.sequence_id \in Seqs
  BY <1>p DEF ProposalFrame
<1>1. CASE Wake
  BY <1>1, <1>p, <1>g, <1>h
     DEF Wake, GateGoes, PortTypes, GateTypes, HistoryTypes, GatePlaces, dataport,
         ActiveIsChallenge
<1>2. CASE DenyApproval
  <2>1. [verdict EXCEPT !.magic = "SOVV", !.decision = "DENY",
           !.status_code = ApprovalStatus(g_state, app)] \in Verdict
    BY <1>p, <1>m, StatusTypes DEF Verdict
  <2> QED
    BY <1>2, <1>p, <1>g, <1>h, <2>1
       DEF DenyApproval, GateGoes, PortTypes, GateTypes, HistoryTypes, GatePlaces,
           ActiveIsChallenge
<1>3. CASE AcceptApproval
  <2>1. g_state.active_challenge.prop \in ProposalFrame
    BY <1>3, ApprovedChallenge DEF AcceptApproval, ActiveIsChallenge, Challenge
  <2>2. [frame |-> g_state.active_challenge.prop, via |-> "quorum"] \in Authorised
    BY <2>1 DEF Authorised
  <2>3. g_state' \in GateState /\ ~g_state'.has_active_challenge
    BY <1>3, ClosedState DEF AcceptApproval
  <2> QED
    BY <1>3, <1>p, <1>g, <1>h, <2>2, <2>3
       DEF AcceptApproval, GateGoes, PortTypes, GateTypes, HistoryTypes, GatePlaces,
           dataport, ActiveIsChallenge
<1>4. CASE CheckHeader
  <2>1. local_verdict' \in Verdict
    BY <1>4, <1>m, <1>s, StatusTypes DEF CheckHeader, Deny, Verdict
  <2> QED
    BY <1>4, <1>p, <1>g, <1>h, <2>1
       DEF CheckHeader, GateGoes, PortTypes, GateTypes, HistoryTypes, GatePlaces,
           dataport, ActiveIsChallenge
<1>5. CASE RefuseBody
  <2>1. [local_verdict EXCEPT !.status_code = BodyStatus(prop)] \in Verdict
    BY <1>g, StatusTypes DEF Verdict
  <2> QED
    BY <1>5, <1>p, <1>g, <1>h, <2>1
       DEF RefuseBody, GateGoes, PortTypes, GateTypes, HistoryTypes, GatePlaces,
           dataport, ActiveIsChallenge
<1>6. CASE CommitProposal
  <2>1. prop.tool_id \in DOMAIN Policy
    BY <1>6, BodyHasRow DEF CommitProposal
  <2>2. PICK n \in Nonces : g_state' = Commit(g_state, prop, n)
    BY <1>6 DEF CommitProposal
  <2>3. g_state' \in GateState /\ ActiveIsChallenge'
    <3>1. [prop |-> prop, nonce |-> n] \in Challenge
      BY <1>p DEF Challenge
    <3> QED
      BY <2>1, <2>2, <3>1, CommittedState DEF ActiveIsChallenge
  <2>4. [local_verdict EXCEPT !.status_code = AcceptedStatus(prop),
                              !.decision = Policy[prop.tool_id].decision] \in Verdict
    BY <1>g, <2>1, StatusTypes, PolicyRows DEF Verdict
  <2>5. [frame |-> prop, via |-> "policy"] \in Authorised
    BY <1>p DEF Authorised
  <2>6. issues' \in Nat
    BY <1>6, <1>h DEF CommitProposal
  <2> QED
    BY <1>6, <1>p, <1>g, <1>h, <2>3, <2>4, <2>5, <2>6
       DEF CommitProposal, GateGoes, PortTypes, GateTypes, HistoryTypes, GatePlaces,
           dataport
<1>7. CASE PublishVerdict
  BY <1>7, <1>p, <1>g, <1>h
     DEF PublishVerdict, GateGoes, PortTypes, GateTypes, HistoryTypes, GatePlaces,
         ActiveIsChallenge
<1>8. CASE CallExecutor
  <2>1. [frame |-> prop, authorised |-> authorised] \in Dispatch
    BY <1>p, <1>g DEF Dispatch
  <2>2. executed' \in Seq(Dispatch)
    BY <1>8, <1>h, <2>1 DEF CallExecutor
  <2> QED
    BY <1>8, <1>p, <1>g, <1>h, <2>2
       DEF CallExecutor, GateGoes, PortTypes, GateTypes, HistoryTypes, GatePlaces,
           dataport, ActiveIsChallenge
<1>9. CASE ExecutorReturns
  <2>1. PICK text \in {"", "EXEC_READ_OK", "EXEC_WRITE_OK"} :
          result' = [result EXCEPT !.text = text]
    BY <1>9 DEF ExecutorReturns, ExecText, Served
  <2>2. result' \in Result
    BY <1>p, <2>1 DEF Result
  <2>3. exec_status' \in Statuses
    BY <1>9, <1>m DEF ExecutorReturns, ExecStatus
  <2>4. gpc' \in GatePlaces
    BY <1>9 DEF ExecutorReturns, GateGoes, GatePlaces
  <2>5. UNCHANGED <<prop, app, verdict, doorbell, irq, g_state, local_verdict,
                    authorised, agent, executed, issues>>
    BY <1>9 DEF ExecutorReturns
  <2> QED
    BY <1>p, <1>g, <1>h, <2>2, <2>3, <2>4, <2>5
       DEF PortTypes, GateTypes, HistoryTypes, ActiveIsChallenge
<1>10. CASE FillResult
  <2>1. [result EXCEPT !.magic = "SOVX", !.status_code = exec_status,
                       !.sequence_id = prop.sequence_id] \in Result
    BY <1>p, <1>g, <1>m, <1>s DEF Result
  <2>2. [verdict EXCEPT !.status_code = "OK", !.decision = "ALLOW"] \in Verdict
    BY <1>p, <1>m DEF Verdict
  <2> QED
    BY <1>10, <1>p, <1>g, <1>h, <2>1, <2>2
       DEF FillResult, GateGoes, PortTypes, GateTypes, HistoryTypes, GatePlaces,
           ActiveIsChallenge
<1>11. CASE EmitVerdictReady
  BY <1>11, <1>p, <1>g, <1>h
     DEF EmitVerdictReady, GateGoes, PortTypes, GateTypes, HistoryTypes, GatePlaces,
         dataport, ActiveIsChallenge
<1> QED
  BY <1>1, <1>2, <1>3, <1>4, <1>5, <1>6, <1>7, <1>8, <1>9, <1>10, <1>11 DEF GateStep

LEMMA ReturnTypes ==
  ASSUME AgentTypes, NEW from, NEW r \in Report, ReturnFrom(from, r)
  PROVE  AgentTypes'
<1>1. CASE calls < Len(Script)
  <2>1. calls + 1 \in 1 .. Len(Script) /\ calls' = calls + 1 /\ call' \in Script[calls + 1]
    BY <1>1, ScriptCalls DEF ReturnFrom, AgentTypes
  <2>2. call' \in Call
    BY <2>1, ScriptCalls
  <2> QED
    BY <1>1, <2>1, <2>2 DEF ReturnFrom, AgentTypes, AgentPlaces
<1>2. CASE ~(calls < Len(Script))
  BY <1>2 DEF ReturnFrom, AgentTypes, AgentPlaces
<1> QED
  BY <1>1, <1>2

\* What a call can report.
LEMMA ReportTypes ==
  ASSUME PortTypes, AgentTypes
  PROVE  /\ [call |-> call, verdict |-> verdict, result |-> ZeroedResult,
             outcome |-> "none"] \in Report
         /\ [call |-> call, verdict |-> verdict, result |-> ZeroedResult,
             outcome |-> "denied"] \in Report
         /\ [call |-> call, verdict |-> ZeroedVerdict, result |-> ZeroedResult,
             outcome |-> "timeout"] \in Report
         /\ [report EXCEPT !.result = result, !.outcome = "executed"] \in Report
<1>1. call \in Call /\ verdict \in Verdict /\ result \in Result /\ report \in Report
  BY DEF PortTypes, AgentTypes
<1> QED
  BY <1>1, ZeroedFrames DEF Report

LEMMA AgentStepTypes ==
  ASSUME PortTypes, AgentTypes, AgentStep \/ RunAgain
  PROVE  PortTypes' /\ AgentTypes' /\ UNCHANGED <<gate, executed, issues>>
<1>p. /\ prop \in ProposalFrame /\ app \in ApprovalFrame /\ verdict \in Verdict
      /\ result \in Result /\ {doorbell, irq} \subseteq BOOLEAN
  BY DEF PortTypes
<1>a. /\ apc \in AgentPlaces /\ phase \in 1 .. 2 /\ call \in Call
      /\ calls \in 1 .. Len(Script) /\ runs \in 1 .. MaxRuns /\ report \in Report
  BY DEF AgentTypes
<1>1. CASE OpenTransport
  BY <1>1, <1>p, <1>a DEF OpenTransport, AgentGoes, PortTypes, AgentTypes, AgentPlaces, dataport
<1>2. CASE ClearApproval
  BY <1>2, <1>p, <1>a, PackedFrames DEF ClearApproval, AgentGoes, PortTypes, AgentTypes, AgentPlaces
<1>3. CASE WriteProposalHeader
  BY <1>3, <1>p, <1>a, PackedFrames
     DEF WriteProposalHeader, AgentGoes, PortTypes, AgentTypes, AgentPlaces
<1>4. CASE WriteProposalArgs
  BY <1>4, <1>p, <1>a, PackedFrames
     DEF WriteProposalArgs, AgentGoes, PortTypes, AgentTypes, AgentPlaces
<1>5. CASE RingDoorbell
  BY <1>5, <1>p, <1>a DEF RingDoorbell, AgentGoes, PortTypes, AgentTypes, AgentPlaces, dataport
<1>6. CASE TakeInterrupt
  BY <1>6, <1>p, <1>a DEF TakeInterrupt, AgentGoes, PortTypes, AgentTypes, AgentPlaces, dataport
<1>7. ASSUME NEW from, NEW r \in Report, ReturnFrom(from, r)
      PROVE  PortTypes' /\ AgentTypes' /\ UNCHANGED <<gate, executed, issues>>
  <2>1. AgentTypes'
    BY <1>7, ReturnTypes
  <2> QED
    BY <1>7, <1>p, <2>1 DEF ReturnFrom, PortTypes, dataport
<1>8. CASE TimeOut
  BY <1>7, <1>8, ReportTypes DEF TimeOut
<1>9. CASE ReadAllowed
  BY <1>9, <1>p, <1>a, ReportTypes
     DEF ReadAllowed, AgentGoes, PortTypes, AgentTypes, AgentPlaces, dataport
<1>10. CASE ReadResult
  BY <1>7, <1>10, ReportTypes DEF ReadResult
<1>11. CASE ReadDenied
  BY <1>7, <1>11, ReportTypes DEF ReadDenied
<1>12. CASE ReadPending
  BY <1>12, <1>p, <1>a DEF ReadPending, AgentGoes, PortTypes, AgentTypes, AgentPlaces, dataport
<1>13. CASE WriteApprovalHeader
  BY <1>13, <1>p, <1>a, PackedFrames
     DEF WriteApprovalHeader, AgentGoes, PortTypes, AgentTypes, AgentPlaces
<1>14. CASE WriteWitnesses
  BY <1>14, <1>p, <1>a, PackedFrames
     DEF WriteWitnesses, AgentGoes, PortTypes, AgentTypes, AgentPlaces
<1>15. CASE RunAgain
  <2>1. call' \in Call /\ calls' \in 1 .. Len(Script)
    BY <1>15, ScriptCalls DEF RunAgain
  <2>2. runs' \in 1 .. MaxRuns
    BY <1>15, <1>a, RunAssumption DEF RunAgain
  <2> QED
    BY <1>15, <1>p, <1>a, <2>1, <2>2
       DEF RunAgain, PortTypes, AgentTypes, AgentPlaces, dataport
<1> QED
  BY <1>1, <1>2, <1>3, <1>4, <1>5, <1>6, <1>8, <1>9, <1>10, <1>11, <1>12, <1>13, <1>14,
     <1>15 DEF AgentStep

TypeInv == TypeOK /\ ActiveIsChallenge

LEMMA InitTypes == Init => TypeInv
<1> SUFFICES ASSUME Init PROVE TypeInv
  OBVIOUS
<1>1. PortTypes /\ GateTypes
  <2>1. authorised \in Authorised
    BY ZeroedFrames DEF Init, Authorised
  <2>2. "OK" \in Statuses /\ "wait" \in GatePlaces
    BY DEF Statuses, GatePlaces
  <2> QED
    BY <2>1, <2>2, ZeroedFrames DEF Init, PortTypes, GateTypes
<1>2. AgentTypes /\ HistoryTypes
  <2>1. call \in Call
    BY ScriptCalls DEF Init
  <2>2. report \in Report
    BY <2>1, ZeroedFrames DEF Init, Report
  <2>3. "open" \in AgentPlaces /\ 1 \in 1 .. 2 /\ 1 \in 1 .. MaxRuns
    BY RunAssumption DEF AgentPlaces
  <2>4. <<>> \in Seq(Dispatch) /\ 0 \in Nat
    OBVIOUS
  <2> QED
    BY <2>1, <2>2, <2>3, <2>4, ScriptCalls DEF Init, AgentTypes, HistoryTypes
<1>3. ActiveIsChallenge
  BY DEF Init, ZeroedGateState, ActiveIsChallenge
<1> QED
  BY <1>1, <1>2, <1>3, TypesAreTypeOK DEF TypeInv

LEMMA StepTypes == TypeInv /\ [Next]_vars => TypeInv'
<1> SUFFICES ASSUME TypeInv, [Next]_vars PROVE TypeInv'
  OBVIOUS
<1>0. PortTypes /\ GateTypes /\ AgentTypes /\ HistoryTypes /\ ActiveIsChallenge
  BY TypesAreTypeOK DEF TypeInv
<1>1. PortTypes' /\ GateTypes' /\ AgentTypes' /\ HistoryTypes' => TypeOK'
  BY DEF TypeOK, PortTypes, GateTypes, AgentTypes, HistoryTypes, GatePlaces, AgentPlaces
<1>2. CASE GateStep
  <2>1. UNCHANGED agent
    BY <1>2 DEF GateStep, Wake, DenyApproval, AcceptApproval, CheckHeader, RefuseBody,
       CommitProposal, PublishVerdict, CallExecutor, ExecutorReturns, FillResult,
       EmitVerdictReady
  <2>2. AgentTypes'
    BY <1>0, <2>1 DEF AgentTypes, agent
  <2> QED
    BY <1>0, <1>1, <1>2, <2>2, GateStepTypes DEF TypeInv
<1>3. CASE AgentStep \/ RunAgain
  <2>1. PortTypes' /\ AgentTypes' /\ UNCHANGED <<gate, executed, issues>>
    BY <1>0, <1>3, AgentStepTypes
  <2>2. GateTypes' /\ HistoryTypes' /\ ActiveIsChallenge'
    BY <1>0, <2>1 DEF GateTypes, HistoryTypes, ActiveIsChallenge, gate
  <2> QED
    BY <1>1, <2>1, <2>2 DEF TypeInv
<1>4. CASE UNCHANGED vars
  BY <1>0, <1>1, <1>4 DEF vars, dataport, gate, agent, TypeInv, PortTypes, GateTypes,
     AgentTypes, HistoryTypes, ActiveIsChallenge
<1> QED
  BY <1>2, <1>3, <1>4 DEF Next

\* What the agent can do to the dataport and to the notifications.
LEMMA AgentMoves ==
  ASSUME PortTypes, AgentTypes, AgentStep \/ RunAgain
  PROVE  /\ GuestRuns /\ UNCHANGED <<gate, executed, issues, verdict, result>>
         /\ \/ apc' # "await" /\ UNCHANGED doorbell
            \/ apc = "ring" /\ apc' = "await" /\ doorbell'
         /\ \/ prop' = prop
            \/ apc = "prop_header" /\ apc' = "prop_args"
            \/ apc = "prop_args" /\ apc' = "ring"
         /\ \/ app'.magic = app.magic
            \/ app'.magic = "none"
            \/ apc = "app_header" /\ prop' = prop
         /\ apc' = "prop_header" => app'.magic = "none"
         /\ apc' = "prop_args" => apc = "prop_header" /\ app' = app
         /\ apc' = "read_verdict" => apc = "await" /\ prop' = prop
         /\ apc' = "app_header" => apc = "read_verdict" /\ IsPending(verdict) /\ prop' = prop
<1>p. app \in ApprovalFrame
  BY DEF PortTypes
<1>m. /\ [app EXCEPT !.magic = "none"].magic = "none"
      /\ [app EXCEPT !.witnesses = NoWitness].magic = app.magic
  BY <1>p DEF ApprovalFrame
<1>1. CASE OpenTransport \/ TakeInterrupt \/ RingDoorbell \/ ReadAllowed \/ ReadPending
  BY <1>1 DEF OpenTransport, TakeInterrupt, RingDoorbell, ReadAllowed, ReadPending,
     AgentGoes, dataport
<1>2. CASE ClearApproval
  BY <1>2, <1>m DEF ClearApproval, AgentGoes
<1>3. CASE WriteProposalHeader \/ WriteProposalArgs
  BY <1>3 DEF WriteProposalHeader, WriteProposalArgs, AgentGoes
<1>4. CASE WriteApprovalHeader
  BY <1>4 DEF WriteApprovalHeader, AgentGoes
<1>5. CASE WriteWitnesses
  BY <1>5, <1>m DEF WriteWitnesses, AgentGoes
<1>6. CASE TimeOut \/ ReadResult \/ ReadDenied
  BY <1>6 DEF TimeOut, ReadResult, ReadDenied, ReturnFrom, dataport
<1>7. CASE RunAgain
  BY <1>7 DEF RunAgain, dataport
<1> QED
  BY <1>1, <1>2, <1>3, <1>4, <1>5, <1>6, <1>7 DEF AgentStep

-----------------------------------------------------------------------------
(* Wakeups, and what a challenge releases: with or without isolation *)

LEMMA AnswerStep == TypeInv /\ AnswerIsComing /\ [Next]_vars => AnswerIsComing'
<1> SUFFICES ASSUME TypeInv, AnswerIsComing, [Next]_vars, apc' = "await"
             PROVE  irq' \/ doorbell' \/ gpc' # "wait"
  BY DEF AnswerIsComing
<1>1. CASE EmitVerdictReady
  BY <1>1 DEF EmitVerdictReady
<1>2. CASE GateStep /\ ~EmitVerdictReady
  <2>1. gpc' # "wait"
    BY <1>2 DEF GateStep, Wake, DenyApproval, AcceptApproval, CheckHeader, RefuseBody,
       CommitProposal, PublishVerdict, CallExecutor, ExecutorReturns, FillResult, GateGoes
  <2> QED
    BY <2>1
<1>3. CASE AgentStep \/ RunAgain
  <2>1. PortTypes /\ AgentTypes
    BY TypesAreTypeOK DEF TypeInv
  <2> QED
    BY <1>3, <2>1, AgentMoves
<1>4. CASE UNCHANGED vars
  BY <1>4 DEF vars, gate, agent, AnswerIsComing
<1> QED
  BY <1>1, <1>2, <1>3, <1>4 DEF Next

OfQuorum == {i \in DOMAIN executed : executed[i].authorised.via = "quorum"}
\* The dispatch that is decided and not yet made, and the challenge that may become one.
Decided == IF gpc = "dispatch" /\ authorised.via = "quorum" THEN 1 ELSE 0
Pending == IF g_state.has_active_challenge THEN 1 ELSE 0

\* Only the policy lets a proposal through without a challenge, and every dispatch for
\* a quorum, made or still possible, has its own challenge.
CoverInv ==
  /\ gpc = "body" => local_verdict.decision = "DENY"
  /\ gpc = "publish" /\ local_verdict.decision = "ALLOW" => authorised.via = "policy"
  /\ IsFiniteSet(OfQuorum) /\ Cardinality(OfQuorum) + Decided + Pending <= issues

\* Nothing is dispatched, no challenge issued and none closed.
LEMMA CoverStays ==
  ASSUME CoverInv, UNCHANGED <<executed, issues, g_state, authorised>>,
         gpc' = "dispatch" => gpc = "dispatch" \/ authorised.via # "quorum",
         gpc = "dispatch" => gpc' = "dispatch" \/ authorised.via # "quorum"
  PROVE  IsFiniteSet(OfQuorum)' /\ (Cardinality(OfQuorum) + Decided + Pending <= issues)'
BY DEF CoverInv, OfQuorum, Decided, Pending

LEMMA CoverNumbers ==
  ASSUME TypeInv, CoverInv
  PROVE  /\ Cardinality(OfQuorum) \in Nat /\ issues \in Nat
         /\ Decided \in {0, 1} /\ Pending \in {0, 1}
BY FS_CardinalityType DEF TypeInv, TypeOK, CoverInv, Decided, Pending

LEMMA CallCovers ==
  ASSUME TypeInv, CoverInv, CallExecutor
  PROVE  IsFiniteSet(OfQuorum)' /\ (Cardinality(OfQuorum) + Decided + Pending <= issues)'
<1> DEFINE e == [frame |-> prop, authorised |-> authorised]
           n == Len(executed) + 1
<1>1. executed \in Seq(Dispatch) /\ executed' = Append(executed, e)
  BY DEF TypeInv, TypeOK, CallExecutor
<1>2. /\ DOMAIN executed' = DOMAIN executed \union {n} /\ n \notin DOMAIN executed
      /\ executed'[n] = e /\ \A i \in DOMAIN executed : executed'[i] = executed[i]
  BY <1>1
<1>3. /\ UNCHANGED <<issues, g_state>> /\ gpc = "dispatch" /\ gpc' # "dispatch"
      /\ e.authorised = authorised
  BY DEF CallExecutor, GateGoes
<1> HIDE DEF e, n
<1>4. Pending' = Pending /\ Decided' = 0
  BY <1>3 DEF Pending, Decided
<1>5. CASE authorised.via = "quorum"
  <2>1. OfQuorum' = OfQuorum \union {n} /\ n \notin OfQuorum
    BY <1>2, <1>3, <1>5 DEF OfQuorum
  <2>2. Cardinality(OfQuorum \union {n}) = Cardinality(OfQuorum) + 1
        /\ IsFiniteSet(OfQuorum \union {n})
    BY <2>1, FS_AddElement DEF CoverInv
  <2>3. Decided = 1
    BY <1>3, <1>5 DEF Decided
  <2> QED
    BY <1>3, <1>4, <2>1, <2>2, <2>3, CoverNumbers DEF CoverInv
<1>6. CASE authorised.via # "quorum"
  <2>1. OfQuorum' = OfQuorum
    BY <1>2, <1>3, <1>6 DEF OfQuorum
  <2>2. Decided = 0
    BY <1>6 DEF Decided
  <2> QED
    BY <1>3, <1>4, <2>1, <2>2 DEF CoverInv
<1> QED
  BY <1>5, <1>6

LEMMA CoverStep == TypeInv /\ CoverInv /\ [Next]_vars => CoverInv'
<1> SUFFICES ASSUME TypeInv, CoverInv, [Next]_vars PROVE CoverInv'
  OBVIOUS
<1> DEFINE Covers == IsFiniteSet(OfQuorum) /\ Cardinality(OfQuorum) + Decided + Pending <= issues
<1>c. /\ gpc' = "body" => local_verdict'.decision = "DENY"
      /\ gpc' = "publish" /\ local_verdict'.decision = "ALLOW" => authorised'.via = "policy"
      /\ Covers'
      => CoverInv'
  BY DEF CoverInv
<1> HIDE DEF Covers
<1>s. ASSUME UNCHANGED <<executed, issues, g_state, authorised>>,
             gpc' = "dispatch" => gpc = "dispatch" \/ authorised.via # "quorum",
             gpc = "dispatch" => gpc' = "dispatch" \/ authorised.via # "quorum"
      PROVE  Covers'
  BY <1>s, CoverStays DEF Covers
<1>1. CASE Wake \/ DenyApproval \/ ExecutorReturns \/ FillResult \/ EmitVerdictReady
  BY <1>1, <1>c, <1>s DEF Wake, DenyApproval, ExecutorReturns, FillResult, EmitVerdictReady,
     GateGoes, dataport
<1>2. CASE AcceptApproval
  <2>1. g_state.has_active_challenge /\ ~g_state'.has_active_challenge
    BY <1>2, ApprovedChallenge, ClosedState, TypesAreTypeOK DEF AcceptApproval, TypeInv
  <2>2. Pending = 1 /\ Pending' = 0
    BY <2>1 DEF Pending
  <2>3. gpc = "verify" /\ gpc' = "dispatch" /\ UNCHANGED <<executed, issues>>
    BY <1>2 DEF AcceptApproval, GateGoes
  <2>4. Decided = 0 /\ Decided' \in {0, 1} /\ OfQuorum' = OfQuorum
    BY <2>3 DEF Decided, OfQuorum
  <2>5. Covers'
    BY <2>2, <2>3, <2>4, CoverNumbers DEF CoverInv, Covers
  <2> QED
    BY <1>c, <2>3, <2>5
<1>3. CASE CheckHeader
  <2>1. local_verdict'.decision = "DENY"
    BY <1>3 DEF CheckHeader, Deny
  <2>2. /\ UNCHANGED <<executed, issues, g_state, authorised>>
        /\ gpc = "header" /\ gpc' \in {"publish", "body"}
    BY <1>3 DEF CheckHeader, GateGoes
  <2> QED
    BY <1>c, <1>s, <2>1, <2>2
<1>4. CASE RefuseBody
  <2>1. local_verdict \in Verdict /\ local_verdict.decision = "DENY"
    BY <1>4 DEF RefuseBody, GateGoes, CoverInv, TypeInv, TypeOK
  <2>2. local_verdict'.decision = "DENY"
    BY <1>4, <2>1 DEF RefuseBody, Verdict
  <2>3. /\ UNCHANGED <<executed, issues, g_state, authorised>>
        /\ gpc = "body" /\ gpc' = "publish"
    BY <1>4 DEF RefuseBody, GateGoes
  <2> QED
    BY <1>c, <1>s, <2>2, <2>3
<1>5. CASE CommitProposal
  <2>1. gpc = "body" /\ gpc' = "publish" /\ UNCHANGED executed /\ authorised'.via = "policy"
    BY <1>5 DEF CommitProposal, GateGoes
  <2>2. Decided = 0 /\ Decided' = 0 /\ OfQuorum' = OfQuorum
    BY <2>1 DEF Decided, OfQuorum
  <2>3. CASE Policy[prop.tool_id].decision = "QUORUM"
    <3>1. issues' = issues + 1
      BY <1>5, <2>3 DEF CommitProposal
    <3>2. Pending' \in {0, 1}
      BY DEF Pending
    <3>3. Covers'
      BY <2>2, <3>1, <3>2, CoverNumbers DEF CoverInv, Covers
    <3> QED
      BY <1>c, <2>1, <3>3
  <2>4. CASE Policy[prop.tool_id].decision # "QUORUM"
    <3>1. issues' = issues /\ g_state' = [g_state EXCEPT !.last_seen_sequence_id = prop.sequence_id]
      BY <1>5, <2>4 DEF CommitProposal, Commit
    <3>2. g_state \in GateState
      BY DEF TypeInv, TypeOK
    <3>3. g_state'.has_active_challenge = g_state.has_active_challenge
      BY <3>1, <3>2 DEF GateState
    <3>4. Pending' = Pending
      BY <3>3 DEF Pending
    <3>5. Covers'
      BY <2>2, <3>1, <3>4 DEF CoverInv, Covers
    <3> QED
      BY <1>c, <2>1, <3>5
  <2> QED
    BY <2>3, <2>4
<1>6. CASE PublishVerdict
  <2>1. /\ UNCHANGED <<executed, issues, g_state, authorised>> /\ gpc = "publish"
        /\ \/ gpc' = "dispatch" /\ local_verdict.decision = "ALLOW"
           \/ gpc' = "emit"
    BY <1>6 DEF PublishVerdict, GateGoes
  <2>2. gpc' = "dispatch" => authorised.via # "quorum"
    BY <2>1 DEF CoverInv
  <2> QED
    BY <1>c, <1>s, <2>1, <2>2
<1>7. CASE CallExecutor
  <2>1. gpc' = "executing" /\ Covers'
    BY <1>7, CallCovers DEF CallExecutor, GateGoes, Covers
  <2> QED
    BY <1>c, <2>1
<1>8. CASE AgentStep \/ RunAgain
  <2>1. UNCHANGED <<gate, executed, issues>>
    BY <1>8, AgentMoves, TypesAreTypeOK DEF TypeInv
  <2> QED
    BY <1>s, <2>1 DEF gate, CoverInv, Covers
<1>9. CASE UNCHANGED vars
  BY <1>s, <1>9 DEF vars, gate, CoverInv, Covers
<1> QED
  BY <1>1, <1>2, <1>3, <1>4, <1>5, <1>6, <1>7, <1>8, <1>9 DEF Next, GateStep

LEMMA InitCover == Init => AnswerIsComing /\ CoverInv
<1> SUFFICES ASSUME Init PROVE AnswerIsComing /\ CoverInv
  OBVIOUS
<1>1. OfQuorum = {} /\ IsFiniteSet({}) /\ Cardinality({}) = 0
  BY FS_EmptySet DEF Init, OfQuorum
<1>2. Decided = 0 /\ Pending = 0
  BY DEF Init, Decided, Pending, ZeroedGateState
<1> QED
  BY <1>1, <1>2 DEF Init, AnswerIsComing, CoverInv

-----------------------------------------------------------------------------
(* With the gate and the executor above the guest *)

\* The challenge that is pending, if any, was hashed from the proposal that is there now.
Own == g_state.has_active_challenge => g_state.active_challenge.prop = prop

\* The guest stands at its select while the gate has something to do.
GuestWaits == doorbell \/ gpc # "wait" => apc = "await"

\* An approval is there only beside the proposal it approves: the agent writes it for
\* the proposal whose verdict asked for it, and clears it before the next.
ApprovalInv ==
  /\ apc \in {"prop_header", "prop_args"} \/ gpc \in {"header", "body"} => app.magic # "SOVQ"
  /\ app.magic = "SOVQ" => Own
  /\ gpc = "publish" /\ IsPending(local_verdict) => Own
  /\ gpc = "emit" /\ IsPending(verdict) => Own
  /\ gpc = "wait" /\ ~doorbell /\ apc \in {"await", "read_verdict"} /\ IsPending(verdict)
       => Own
  /\ apc = "app_header" => Own
  /\ gpc \in {"dispatch", "executing", "fill"} =>
       authorised.via = "quorum" \/ verdict.decision = "ALLOW"

FramesMatch == \A i \in DOMAIN executed : executed[i].frame = executed[i].authorised.frame

\* What the gate has decided is about the proposal that is there now.
FrameInv ==
  /\ gpc = "publish" /\ local_verdict.decision = "ALLOW" => authorised.frame = prop
  /\ gpc = "dispatch" => authorised.frame = prop
  /\ FramesMatch

Dispatched(n) == \E i \in DOMAIN executed : executed[i].frame.sequence_id = n

\* What was dispatched, is pending, or is about to be dispatched has a number of its
\* own, and the gate has spent it.
OnceInv ==
  /\ gpc = "body" => HeaderStatus(g_state, prop) = "OK"
  /\ \A i \in DOMAIN executed :
       executed[i].frame.sequence_id <= g_state.last_seen_sequence_id
  /\ g_state.has_active_challenge =>
       /\ g_state.active_challenge.prop.sequence_id <= g_state.last_seen_sequence_id
       /\ ~Dispatched(g_state.active_challenge.prop.sequence_id)
  /\ Going =>
       /\ prop.sequence_id <= g_state.last_seen_sequence_id
       /\ ~Dispatched(prop.sequence_id)
       /\ g_state.has_active_challenge =>
            g_state.active_challenge.prop.sequence_id # prop.sequence_id
  /\ DispatchedOnce

LEMMA GateMoves ==
  ASSUME GateStep
  PROVE  /\ UNCHANGED <<prop, app, agent>> /\ (gpc # "wait" \/ doorbell)
         /\ doorbell' => doorbell
<1>1. CASE Wake
  BY <1>1 DEF Wake, GateGoes, dataport
<1>2. CASE ~Wake
  <2>1. /\ gpc \in {"verify", "header", "body", "publish", "dispatch", "executing", "fill", "emit"}
        /\ UNCHANGED <<prop, app, agent, doorbell>>
    BY <1>2 DEF GateStep, DenyApproval, AcceptApproval, CheckHeader, RefuseBody,
       CommitProposal, PublishVerdict, CallExecutor, ExecutorReturns, FillResult,
       EmitVerdictReady, GateGoes, dataport
  <2> QED
    BY <2>1
<1> QED
  BY <1>1, <1>2

LEMMA WaitsStep ==
  ASSUME PriorityIsolation, TypeInv, GuestWaits, [Next]_vars
  PROVE  GuestWaits'
<1>1. CASE GateStep
  BY <1>1, GateMoves DEF GuestWaits, agent
<1>2. CASE AgentStep \/ RunAgain
  <2>1. GuestRuns /\ gpc' = gpc /\ (doorbell' => doorbell \/ apc' = "await")
    BY <1>2, AgentMoves, TypesAreTypeOK DEF TypeInv, gate
  <2> QED
    BY <2>1 DEF GuestWaits, GuestRuns
<1>3. CASE UNCHANGED vars
  BY <1>3 DEF vars, gate, agent, GuestWaits
<1> QED
  BY <1>1, <1>2, <1>3 DEF Next

\* The agent's part: the gate rests, and the proposal changes only while no approval
\* is there.
LEMMA AgentApprovals ==
  ASSUME PriorityIsolation, TypeInv, ApprovalInv, AgentStep \/ RunAgain
  PROVE  ApprovalInv'
<1>0. PortTypes /\ AgentTypes
  BY TypesAreTypeOK DEF TypeInv
<1>1. gpc = "wait" /\ gpc' = "wait" /\ ~doorbell /\ UNCHANGED <<g_state, verdict>>
  BY <1>0, AgentMoves DEF GuestRuns, gate
<1>2. Own' <=> (prop' = prop /\ Own) \/ (prop' # prop /\ Own')
  BY <1>1 DEF Own
<1>3. /\ apc' \in {"prop_header", "prop_args"} => app'.magic # "SOVQ"
      /\ app'.magic = "SOVQ" => Own'
      /\ apc' \in {"await", "read_verdict"} /\ ~doorbell' /\ IsPending(verdict) => Own'
      /\ apc' = "app_header" => Own'
  <2>1. apc' \in {"prop_header", "prop_args"} => app'.magic # "SOVQ"
    BY <1>0, <1>1, AgentMoves DEF ApprovalInv
  <2>2. ASSUME app'.magic = "SOVQ" PROVE Own'
    <3>1. prop' = prop /\ Own
      BY <1>0, <1>1, <2>2, AgentMoves DEF ApprovalInv
    <3> QED
      BY <1>1, <3>1 DEF Own
  <2>3. ASSUME apc' \in {"await", "read_verdict"}, ~doorbell', IsPending(verdict)
        PROVE  Own'
    <3>1. apc = "await" /\ apc' = "read_verdict" /\ prop' = prop
      BY <1>0, <2>3, AgentMoves
    <3>2. Own
      BY <1>1, <2>3, <3>1 DEF ApprovalInv
    <3> QED
      BY <1>1, <3>1, <3>2 DEF Own
  <2>4. ASSUME apc' = "app_header" PROVE Own'
    <3>1. apc = "read_verdict" /\ IsPending(verdict) /\ prop' = prop
      BY <1>0, <2>4, AgentMoves
    <3>2. Own
      BY <1>1, <3>1 DEF ApprovalInv
    <3> QED
      BY <1>1, <3>1, <3>2 DEF Own
  <2> QED
    BY <2>1, <2>2, <2>3, <2>4
<1> QED
  BY <1>1, <1>3 DEF ApprovalInv

\* The gate's part: what asks for an approval is the proposal it has just hashed.
LEMMA GateApprovals ==
  ASSUME TypeInv, CoverInv, GuestWaits, ApprovalInv, GateStep
  PROVE  ApprovalInv'
<1>0. /\ UNCHANGED <<prop, app, apc>> /\ apc = "await"
      /\ g_state \in GateState /\ local_verdict \in Verdict /\ verdict \in Verdict
      /\ PortTypes /\ GateTypes /\ ActiveIsChallenge
  BY GateMoves, TypesAreTypeOK DEF GuestWaits, agent, TypeInv, TypeOK
<1>d. ASSUME NEW v, v.decision = "DENY" \/ v.decision = "ALLOW" PROVE ~IsPending(v)
  BY <1>d DEF IsPending
<1>1. CASE Wake
  <2>1. /\ UNCHANGED <<g_state, verdict, local_verdict, authorised>> /\ gpc = "wait"
        /\ gpc' \in {"verify", "header"} /\ (gpc' = "header" => app.magic # "SOVQ")
    BY <1>1 DEF Wake, GateGoes, dataport
  <2> QED
    BY <1>0, <2>1 DEF ApprovalInv, Own
<1>2. CASE DenyApproval
  <2>1. /\ UNCHANGED <<g_state, local_verdict, authorised>> /\ gpc' = "emit"
        /\ verdict'.decision = "DENY"
    BY <1>0, <1>2 DEF DenyApproval, GateGoes, Verdict
  <2> QED
    BY <1>0, <1>d, <2>1 DEF ApprovalInv, Own
<1>3. CASE AcceptApproval
  <2>1. /\ gpc' = "dispatch" /\ authorised'.via = "quorum" /\ ~g_state'.has_active_challenge
    BY <1>0, <1>3, ClosedState DEF AcceptApproval, GateGoes
  <2> QED
    BY <1>0, <2>1 DEF ApprovalInv, Own
<1>4. CASE CheckHeader
  <2>1. /\ UNCHANGED <<g_state, verdict, authorised>> /\ local_verdict'.decision = "DENY"
        /\ gpc = "header" /\ gpc' \in {"publish", "body"}
    BY <1>4 DEF CheckHeader, GateGoes, Deny, dataport
  <2> QED
    BY <1>0, <1>d, <2>1 DEF ApprovalInv, Own
<1>5. CASE RefuseBody
  <2>1. /\ UNCHANGED <<g_state, verdict, authorised>> /\ local_verdict'.decision = "DENY"
        /\ gpc = "body" /\ gpc' = "publish"
    BY <1>0, <1>5 DEF RefuseBody, GateGoes, Verdict, dataport, CoverInv
  <2> QED
    BY <1>0, <1>d, <2>1 DEF ApprovalInv, Own
<1>6. CASE CommitProposal
  <2>1. gpc = "body" /\ gpc' = "publish" /\ UNCHANGED verdict /\ app.magic # "SOVQ"
    BY <1>0, <1>6 DEF CommitProposal, GateGoes, dataport, ApprovalInv
  <2>2. IsPending(local_verdict') => Own'
    <3>1. prop.tool_id \in DOMAIN Policy
      BY <1>6, BodyHasRow DEF CommitProposal
    <3>2. PICK n \in Nonces : g_state' = Commit(g_state, prop, n)
      BY <1>6 DEF CommitProposal
    <3>3. local_verdict'.decision = Policy[prop.tool_id].decision
      BY <1>0, <1>6 DEF CommitProposal, Verdict
    <3>4. CASE Policy[prop.tool_id].decision = "QUORUM"
      <4>1. g_state'.active_challenge = [prop |-> prop, nonce |-> n]
        BY <1>0, <3>1, <3>2, <3>4, CommittedState
      <4>2. g_state'.active_challenge.prop = prop'
        BY <1>0, <4>1
      <4> QED
        BY <4>2 DEF Own
    <3>5. CASE Policy[prop.tool_id].decision # "QUORUM"
      BY <3>3, <3>5 DEF IsPending
    <3> QED
      BY <3>4, <3>5
  <2> QED
    BY <1>0, <2>1, <2>2 DEF ApprovalInv
<1>7. CASE PublishVerdict
  <2>1. /\ UNCHANGED <<g_state, authorised, local_verdict>> /\ gpc = "publish"
        /\ verdict' = local_verdict
        /\ \/ gpc' = "dispatch" /\ local_verdict.decision = "ALLOW"
           \/ gpc' = "emit"
    BY <1>7 DEF PublishVerdict, GateGoes
  <2> QED
    BY <1>0, <2>1 DEF ApprovalInv, Own
<1>8. CASE CallExecutor \/ ExecutorReturns
  <2>1. /\ UNCHANGED <<g_state, authorised, local_verdict, verdict>>
        /\ gpc \in {"dispatch", "executing"} /\ gpc' \in {"executing", "fill"}
    BY <1>8 DEF CallExecutor, ExecutorReturns, GateGoes, dataport
  <2> QED
    BY <1>0, <2>1 DEF ApprovalInv, Own
<1>9. CASE FillResult
  <2>1. UNCHANGED <<g_state, authorised, local_verdict>> /\ gpc = "fill" /\ gpc' = "emit"
    BY <1>9 DEF FillResult, GateGoes
  <2>2. verdict'.decision = "ALLOW"
    BY <1>0, <1>9, <2>1 DEF FillResult, ApprovalInv, Verdict
  <2> QED
    BY <1>0, <1>d, <2>1, <2>2 DEF ApprovalInv, Own
<1>10. CASE EmitVerdictReady
  <2>1. /\ UNCHANGED <<g_state, authorised, local_verdict, verdict>>
        /\ gpc = "emit" /\ gpc' = "wait"
    BY <1>10 DEF EmitVerdictReady, GateGoes, dataport
  <2> QED
    BY <1>0, <2>1 DEF ApprovalInv, Own
<1> QED
  BY <1>1, <1>2, <1>3, <1>4, <1>5, <1>6, <1>7, <1>8, <1>9, <1>10 DEF GateStep

\* Between the steps of the gate nothing it has decided can change.
LEMMA QuietSteps ==
  ASSUME PriorityIsolation, TypeInv, AgentStep \/ RunAgain \/ UNCHANGED vars
  PROVE  /\ UNCHANGED <<gpc, g_state, authorised, local_verdict, executed>>
         /\ gpc = "wait" \/ prop' = prop
<1>1. CASE AgentStep \/ RunAgain
  BY <1>1, AgentMoves, TypesAreTypeOK DEF TypeInv, GuestRuns, gate
<1>2. CASE UNCHANGED vars
  BY <1>2 DEF vars, gate, dataport
<1> QED
  BY <1>1, <1>2

LEMMA FrameStep ==
  ASSUME PriorityIsolation, TypeInv, CoverInv, ApprovalInv, FrameInv, [Next]_vars
  PROVE  FrameInv'
<1>0. /\ local_verdict \in Verdict /\ executed \in Seq(Dispatch)
      /\ PortTypes /\ GateTypes /\ ActiveIsChallenge
  BY TypesAreTypeOK DEF TypeInv, TypeOK
<1>1. CASE AgentStep \/ RunAgain \/ UNCHANGED vars
  BY <1>1, QuietSteps DEF FrameInv, FramesMatch
<1>2. CASE Wake \/ DenyApproval \/ ExecutorReturns \/ FillResult \/ EmitVerdictReady
  <2>1. /\ UNCHANGED <<prop, authorised, executed>>
        /\ gpc' \in {"verify", "header", "emit", "fill", "wait"}
    BY <1>2 DEF Wake, DenyApproval, ExecutorReturns, FillResult, EmitVerdictReady,
       GateGoes, dataport
  <2> QED
    BY <2>1 DEF FrameInv, FramesMatch
<1>3. CASE AcceptApproval
  <2>1. Own /\ g_state.has_active_challenge
    BY <1>3, ApprovedChallenge DEF AcceptApproval, ApprovalInv
  <2>2. /\ authorised' = [frame |-> g_state.active_challenge.prop, via |-> "quorum"]
        /\ UNCHANGED <<prop, executed>> /\ gpc' = "dispatch"
    BY <1>3 DEF AcceptApproval, GateGoes, dataport
  <2>3. authorised'.frame = prop'
    BY <2>1, <2>2 DEF Own
  <2> QED
    BY <2>2, <2>3 DEF FrameInv, FramesMatch
<1>4. CASE CheckHeader \/ RefuseBody
  <2>1. /\ UNCHANGED <<prop, authorised, executed>> /\ gpc' \in {"publish", "body"}
        /\ local_verdict'.decision = "DENY"
    BY <1>0, <1>4 DEF CheckHeader, RefuseBody, Deny, Verdict, CoverInv, GateGoes, dataport
  <2> QED
    BY <2>1 DEF FrameInv, FramesMatch
<1>5. CASE CommitProposal
  <2>1. /\ UNCHANGED <<prop, executed>> /\ gpc' = "publish"
        /\ authorised' = [frame |-> prop, via |-> "policy"]
    BY <1>5 DEF CommitProposal, GateGoes, dataport
  <2> QED
    BY <2>1 DEF FrameInv, FramesMatch
<1>6. CASE PublishVerdict
  <2>1. /\ UNCHANGED <<prop, authorised, executed>> /\ gpc = "publish"
        /\ \/ gpc' = "dispatch" /\ local_verdict.decision = "ALLOW"
           \/ gpc' = "emit"
    BY <1>6 DEF PublishVerdict, GateGoes
  <2> QED
    BY <2>1 DEF FrameInv, FramesMatch
<1>7. CASE CallExecutor
  <2> DEFINE e == [frame |-> prop, authorised |-> authorised]
  <2>1. /\ gpc = "dispatch" /\ gpc' = "executing" /\ executed' = Append(executed, e)
    BY <1>7 DEF CallExecutor, GateGoes
  <2>2. \A i \in DOMAIN executed' : executed'[i] = e \/ (i \in DOMAIN executed
                                                           /\ executed'[i] = executed[i])
    BY <1>0, <2>1
  <2>3. e.frame = e.authorised.frame
    BY <2>1 DEF FrameInv
  <2> HIDE DEF e
  <2> QED
    BY <2>1, <2>2, <2>3 DEF FrameInv, FramesMatch
<1> QED
  BY <1>1, <1>2, <1>3, <1>4, <1>5, <1>6, <1>7 DEF Next, GateStep

\* The parts of OnceInv about the pending challenge and about what is about to go.
LEMMA OnceStep ==
  ASSUME PriorityIsolation, TypeInv, CoverInv, ApprovalInv, OnceInv, [Next]_vars
  PROVE  OnceInv'
<1>0. /\ local_verdict \in Verdict /\ executed \in Seq(Dispatch)
      /\ PortTypes /\ GateTypes /\ ActiveIsChallenge
      /\ g_state.last_seen_sequence_id \in Nat /\ prop.sequence_id \in Nat
      /\ \A i \in DOMAIN executed : executed[i].frame.sequence_id \in Nat
  <2>1. \A n \in Seqs : n \in Nat
    BY MaxSeqAssumption DEF Seqs
  <2>2. \A i \in DOMAIN executed : executed[i] \in Dispatch
    BY DEF TypeInv, TypeOK
  <2> QED
    BY <2>1, <2>2, TypesAreTypeOK
       DEF TypeInv, TypeOK, GateState, ProposalFrame, Dispatch
<1>s. ASSUME UNCHANGED <<g_state, executed>>, ~Going' \/ (Going /\ prop' = prop),
             gpc' = "body" => HeaderStatus(g_state, prop') = "OK"
      PROVE  OnceInv'
  <2>1. \A n : Dispatched(n)' <=> Dispatched(n)
    BY <1>s DEF Dispatched
  <2> QED
    BY <1>s, <2>1 DEF OnceInv, DispatchedOnce
<1>1. CASE AgentStep \/ RunAgain \/ UNCHANGED vars
  <2>1. /\ UNCHANGED <<gpc, g_state, local_verdict, executed>>
        /\ gpc = "wait" \/ prop' = prop
    BY <1>1, QuietSteps
  <2>2. ~Going' \/ (Going /\ prop' = prop)
    BY <2>1 DEF Going, IsAllowed
  <2>3. gpc' = "body" => HeaderStatus(g_state, prop') = "OK"
    BY <2>1 DEF OnceInv
  <2> QED
    BY <1>s, <2>1, <2>2, <2>3
<1>2. CASE Wake \/ DenyApproval \/ ExecutorReturns \/ FillResult \/ EmitVerdictReady
  <2>1. UNCHANGED <<g_state, executed>> /\ gpc' \in {"verify", "header", "emit", "fill", "wait"}
    BY <1>2 DEF Wake, DenyApproval, ExecutorReturns, FillResult, EmitVerdictReady,
       GateGoes, dataport
  <2> QED
    BY <1>s, <2>1 DEF Going, IsAllowed
<1>3. CASE AcceptApproval
  <2>1. Own /\ g_state.has_active_challenge
    BY <1>3, ApprovedChallenge DEF AcceptApproval, ApprovalInv
  <2>2. /\ UNCHANGED <<prop, executed>> /\ gpc' = "dispatch"
        /\ ~g_state'.has_active_challenge
        /\ g_state'.last_seen_sequence_id = g_state.last_seen_sequence_id
    BY <1>0, <1>3, ClosedState DEF AcceptApproval, GateGoes, dataport
  <2>3. g_state.active_challenge.prop = prop
    BY <2>1 DEF Own
  <2>4. prop.sequence_id <= g_state.last_seen_sequence_id /\ ~Dispatched(prop.sequence_id)
    BY <2>1, <2>3 DEF OnceInv
  <2>5. ~Dispatched(prop.sequence_id)'
    BY <2>2, <2>4 DEF Dispatched
  <2> QED
    BY <2>2, <2>4, <2>5 DEF OnceInv, DispatchedOnce
<1>4. CASE CheckHeader
  <2>1. UNCHANGED <<prop, g_state, executed>> /\ local_verdict'.decision = "DENY"
    BY <1>4 DEF CheckHeader, Deny, dataport
  <2>2. \/ gpc' = "publish"
        \/ gpc' = "body" /\ HeaderStatus(g_state, prop) = "OK"
    BY <1>4 DEF CheckHeader, GateGoes
  <2>3. ~Going'
    BY <2>1, <2>2 DEF Going, IsAllowed
  <2> QED
    BY <1>s, <2>1, <2>2, <2>3
<1>5. CASE RefuseBody
  <2>1. /\ UNCHANGED <<g_state, executed>> /\ gpc' = "publish"
        /\ local_verdict'.decision = "DENY"
    BY <1>0, <1>5 DEF RefuseBody, Verdict, CoverInv, GateGoes
  <2> QED
    BY <1>s, <2>1 DEF Going, IsAllowed
<1>6. CASE CommitProposal
  <2>1. /\ UNCHANGED <<prop, executed>> /\ gpc = "body" /\ gpc' = "publish"
        /\ prop.tool_id \in DOMAIN Policy
    BY <1>6, BodyHasRow DEF CommitProposal, GateGoes, dataport
  <2>2. PICK n \in Nonces : g_state' = Commit(g_state, prop, n)
    BY <1>6 DEF CommitProposal
  <2>3. local_verdict'.decision = Policy[prop.tool_id].decision
    BY <1>0, <1>6 DEF CommitProposal, Verdict
  <2>4. prop.sequence_id > g_state.last_seen_sequence_id
    <3>1. HeaderStatus(g_state, prop) = "OK"
      BY <2>1 DEF OnceInv
    <3>2. ~(prop.sequence_id <= g_state.last_seen_sequence_id)
      BY <3>1 DEF HeaderStatus
    <3> QED
      BY <1>0, <3>2
  <2>5. g_state'.last_seen_sequence_id = prop.sequence_id
    BY <1>0, <2>1, <2>2, CommittedState
  <2>6. /\ \A i \in DOMAIN executed : executed[i].frame.sequence_id <= prop.sequence_id
        /\ ~Dispatched(prop.sequence_id)
    BY <1>0, <2>4 DEF OnceInv, Dispatched
  <2>7. \A m : Dispatched(m)' <=> Dispatched(m)
    BY <2>1 DEF Dispatched
  <2>8. CASE Policy[prop.tool_id].decision = "QUORUM"
    <3>1. g_state'.active_challenge = [prop |-> prop, nonce |-> n]
      BY <1>0, <2>1, <2>2, <2>8, CommittedState
    <3>2. g_state'.active_challenge.prop.sequence_id = prop.sequence_id
      BY <3>1
    <3>3. ~Going'
      BY <2>1, <2>3, <2>8 DEF Going, IsAllowed
    <3> QED
      BY <1>0, <2>1, <2>5, <2>6, <2>7, <3>2, <3>3 DEF OnceInv, DispatchedOnce
  <2>9. CASE Policy[prop.tool_id].decision # "QUORUM"
    <3>1. /\ g_state'.has_active_challenge = g_state.has_active_challenge
          /\ g_state'.active_challenge = g_state.active_challenge
      BY <1>0, <2>1, <2>2, <2>9, CommittedState
    <3>2. ASSUME g_state'.has_active_challenge
          PROVE  /\ g_state'.active_challenge.prop.sequence_id < prop.sequence_id
                 /\ ~Dispatched(g_state'.active_challenge.prop.sequence_id)
      <4>1. g_state.has_active_challenge
        BY <3>1, <3>2
      <4>2. g_state.active_challenge.prop.sequence_id \in Nat
        BY <1>0, <4>1, MaxSeqAssumption DEF ActiveIsChallenge, Challenge, ProposalFrame, Seqs
      <4> QED
        BY <1>0, <2>4, <3>1, <4>1, <4>2 DEF OnceInv
    <3>3. ASSUME g_state'.has_active_challenge
          PROVE  g_state'.active_challenge.prop.sequence_id \in Nat
      BY <1>0, <3>1, <3>3, MaxSeqAssumption
         DEF ActiveIsChallenge, Challenge, ProposalFrame, Seqs
    <3> QED
      BY <1>0, <2>1, <2>5, <2>6, <2>7, <3>2, <3>3 DEF OnceInv, DispatchedOnce
  <2> QED
    BY <2>8, <2>9
<1>7. CASE PublishVerdict
  <2>1. /\ UNCHANGED <<prop, g_state, executed>> /\ gpc = "publish"
        /\ \/ gpc' = "dispatch" /\ IsAllowed(local_verdict)
           \/ gpc' = "emit"
    BY <1>7 DEF PublishVerdict, GateGoes, IsAllowed
  <2> QED
    BY <1>s, <2>1 DEF Going, IsAllowed
<1>8. CASE CallExecutor
  <2> DEFINE e == [frame |-> prop, authorised |-> authorised]
             n == Len(executed) + 1
  <2>1. /\ gpc = "dispatch" /\ gpc' = "executing" /\ UNCHANGED <<g_state, prop>>
        /\ executed' = Append(executed, e)
    BY <1>8 DEF CallExecutor, GateGoes, dataport
  <2>2. /\ DOMAIN executed' = DOMAIN executed \union {n} /\ n \notin DOMAIN executed
        /\ executed'[n] = e /\ \A i \in DOMAIN executed : executed'[i] = executed[i]
    BY <1>0, <2>1
  <2>3. e.frame = prop
    OBVIOUS
  <2> HIDE DEF e, n
  <2>4. /\ prop.sequence_id <= g_state.last_seen_sequence_id
        /\ ~Dispatched(prop.sequence_id)
        /\ g_state.has_active_challenge =>
             g_state.active_challenge.prop.sequence_id # prop.sequence_id
    BY <2>1 DEF OnceInv, Going, IsAllowed
  <2>5. ~Going' /\ gpc' # "body"
    BY <2>1 DEF Going, IsAllowed
  <2>6. \A i \in DOMAIN executed' :
          executed'[i].frame.sequence_id <= g_state'.last_seen_sequence_id
    BY <2>1, <2>2, <2>3, <2>4 DEF OnceInv
  <2>7. DispatchedOnce'
    BY <2>2, <2>3, <2>4 DEF OnceInv, DispatchedOnce, Dispatched
  <2>8. \A m : Dispatched(m)' => Dispatched(m) \/ m = prop.sequence_id
    BY <2>2, <2>3 DEF Dispatched
  <2> QED
    BY <2>1, <2>4, <2>5, <2>6, <2>7, <2>8 DEF OnceInv
<1> QED
  BY <1>1, <1>2, <1>3, <1>4, <1>5, <1>6, <1>7, <1>8 DEF Next, GateStep

-----------------------------------------------------------------------------
(* The invariant, and what follows from it *)

\* The last part needs the priorities of the assembly; the rest does not.
SystemInv ==
  /\ TypeInv /\ AnswerIsComing /\ CoverInv
  /\ PriorityIsolation => GuestWaits /\ ApprovalInv /\ FrameInv /\ OnceInv

LEMMA InitSystem == Init => SystemInv
<1> SUFFICES ASSUME Init PROVE SystemInv
  OBVIOUS
<1>1. TypeInv /\ AnswerIsComing /\ CoverInv
  BY InitTypes, InitCover
<1>2. GuestWaits /\ ApprovalInv
  BY DEF Init, GuestWaits, ApprovalInv, ZeroedApproval
<1>3. FrameInv /\ OnceInv
  BY DEF Init, FrameInv, OnceInv, FramesMatch, DispatchedOnce, Going,
     ZeroedGateState
<1> QED
  BY <1>1, <1>2, <1>3 DEF SystemInv

LEMMA SystemStep == SystemInv /\ [Next]_vars => SystemInv'
<1> SUFFICES ASSUME SystemInv, [Next]_vars PROVE SystemInv'
  OBVIOUS
<1>1. (TypeInv /\ AnswerIsComing /\ CoverInv)'
  BY StepTypes, AnswerStep, CoverStep DEF SystemInv
<1>2. ASSUME PriorityIsolation
      PROVE  (GuestWaits /\ ApprovalInv /\ FrameInv /\ OnceInv)'
  <2>0. TypeInv /\ CoverInv /\ GuestWaits /\ ApprovalInv /\ FrameInv /\ OnceInv
    BY <1>2 DEF SystemInv
  <2>1. GuestWaits' /\ FrameInv' /\ OnceInv'
    BY <1>2, <2>0, WaitsStep, FrameStep, OnceStep
  <2>2. CASE GateStep
    BY <2>0, <2>1, <2>2, GateApprovals
  <2>3. CASE AgentStep \/ RunAgain
    BY <1>2, <2>0, <2>1, <2>3, AgentApprovals
  <2>4. CASE UNCHANGED vars
    <3>1. ApprovalInv'
      BY <2>0, <2>4 DEF vars, gate, agent, dataport, ApprovalInv, Own
    <3> QED
      BY <2>1, <3>1
  <2> QED
    BY <2>2, <2>3, <2>4 DEF Next
<1> QED
  BY <1>1, <1>2 DEF SystemInv

\* What a step of the assembly preserves holds in every state it reaches.
THEOREM SystemInvariance == Spec => []SystemInv
BY InitSystem, SystemStep, PTL DEF Spec

\* The regions of the dataport, the program counters and the histories keep their types.
THEOREM SystemTypes == Spec => []TypeOK
<1>1. SystemInv => TypeOK
  BY DEF SystemInv, TypeInv
<1> QED
  BY <1>1, SystemInvariance, PTL

\* An agent at its select has its interrupt, or the gate is on its way to raise one,
\* whatever timed out or died before (guest_uio_transport.py:77-82,
\* toolgate_component.c:44-98).
THEOREM NoLostWakeup == Spec => []AnswerIsComing
<1>1. SystemInv => AnswerIsComing
  BY DEF SystemInv
<1> QED
  BY <1>1, SystemInvariance, PTL

LEMMA CoverIsEnough == TypeInv /\ CoverInv => QuorumDispatchesCovered
<1> SUFFICES ASSUME TypeInv, CoverInv PROVE QuorumDispatchesCovered
  OBVIOUS
<1>1. /\ Cardinality(OfQuorum) \in Nat /\ issues \in Nat
      /\ Decided \in {0, 1} /\ Pending \in {0, 1}
      /\ Cardinality(OfQuorum) + Decided + Pending <= issues
  BY CoverNumbers DEF CoverInv
<1>2. Cardinality(OfQuorum) <= issues
  BY <1>1
<1> QED
  BY <1>2 DEF QuorumDispatchesCovered, OfQuorum

\* However the accesses to the dataport interleave, the dispatches made for a quorum
\* are no more than the challenges the gate has issued.
THEOREM QuorumDispatchesAreCovered == Spec => []QuorumDispatchesCovered
<1>1. SystemInv => QuorumDispatchesCovered
  BY CoverIsEnough DEF SystemInv
<1> QED
  BY <1>1, SystemInvariance, PTL

\* With the priorities of the assembly the guest never waits at its select: the gate
\* has answered before the guest runs again.
THEOREM VerdictThereWhenGuestRuns ==
  ASSUME PriorityIsolation
  PROVE  Spec => []VerdictIsThere
<1>1. SystemInv => VerdictIsThere
  BY DEF SystemInv, AnswerIsComing, VerdictIsThere, GuestRuns
<1> QED
  BY <1>1, SystemInvariance, PTL

\* With the priorities of the assembly and this agent, started any number of times but
\* one at a time, the frame the executor is given, read from the shared dataport once
\* more, is the one the policy or the quorum let through.
THEOREM OneAgentRunsItsOwn ==
  ASSUME PriorityIsolation
  PROVE  Spec => []DispatchMatchesAuthorisation
<1>1. SystemInv => DispatchMatchesAuthorisation
  BY DEF SystemInv, FrameInv, FramesMatch, DispatchMatchesAuthorisation, RunsItsOwn
<1> QED
  BY <1>1, SystemInvariance, PTL

\* With the priorities of the assembly no sequence number reaches the executor twice,
\* however often the agent dies and writes its calls again.
THEOREM NumbersAreDispatchedOnce ==
  ASSUME PriorityIsolation
  PROVE  Spec => []DispatchedOnce
<1>1. SystemInv => DispatchedOnce
  BY DEF SystemInv, OnceInv
<1> QED
  BY <1>1, SystemInvariance, PTL

-----------------------------------------------------------------------------
(* Any program in the guest *)

\* What the policy has let through is the proposal that is there now; a quorum's
\* frame may have been replaced before the approval was rung for.
PolicyFrameInv ==
  /\ gpc = "publish" /\ local_verdict.decision = "ALLOW" => authorised.frame = prop
  /\ gpc = "dispatch" /\ authorised.via = "policy" => authorised.frame = prop
  /\ RunsItsOwn("policy")

OpenInv == TypeInv /\ CoverInv /\ PolicyFrameInv

LEMMA AnyProgramStep ==
  ASSUME PriorityIsolation, OpenInv, AnyProgram
  PROVE  OpenInv'
<1>0. PortTypes /\ GateTypes /\ AgentTypes /\ HistoryTypes /\ ActiveIsChallenge /\ CoverInv
  BY TypesAreTypeOK DEF OpenInv, TypeInv
<1>1. gpc = "wait" /\ UNCHANGED <<gate, agent, executed, issues>>
  BY DEF AnyProgram, GuestRuns
<1>2. PortTypes'
  BY <1>0 DEF AnyProgram, PortTypes
<1>3. GateTypes' /\ AgentTypes' /\ HistoryTypes' /\ ActiveIsChallenge'
  BY <1>0, <1>1 DEF GateTypes, AgentTypes, HistoryTypes, ActiveIsChallenge, gate, agent
<1>4. TypeOK'
  BY <1>2, <1>3 DEF TypeOK, PortTypes, GateTypes, AgentTypes, HistoryTypes, GatePlaces,
     AgentPlaces
<1>5. CoverInv'
  BY <1>0, <1>1, CoverStays DEF CoverInv, gate
<1>6. PolicyFrameInv'
  BY <1>1 DEF OpenInv, PolicyFrameInv, RunsItsOwn, gate
<1> QED
  BY <1>3, <1>4, <1>5, <1>6 DEF OpenInv, TypeInv

LEMMA OpenGateStep ==
  ASSUME OpenInv, GateStep
  PROVE  OpenInv'
<1>0. /\ local_verdict \in Verdict /\ executed \in Seq(Dispatch) /\ TypeInv /\ CoverInv
      /\ PolicyFrameInv
  BY DEF OpenInv, TypeInv, TypeOK
<1>1. TypeInv' /\ CoverInv'
  BY <1>0, StepTypes, CoverStep DEF Next
<1>2. CASE Wake \/ DenyApproval \/ ExecutorReturns \/ FillResult \/ EmitVerdictReady
  <2>1. /\ UNCHANGED <<prop, authorised, executed>>
        /\ gpc' \in {"verify", "header", "emit", "fill", "wait"}
    BY <1>2 DEF Wake, DenyApproval, ExecutorReturns, FillResult, EmitVerdictReady,
       GateGoes, dataport
  <2> QED
    BY <1>0, <1>1, <2>1 DEF OpenInv, PolicyFrameInv, RunsItsOwn
<1>3. CASE AcceptApproval
  <2>1. UNCHANGED executed /\ gpc' = "dispatch" /\ authorised'.via = "quorum"
    BY <1>3 DEF AcceptApproval, GateGoes
  <2> QED
    BY <1>0, <1>1, <2>1 DEF OpenInv, PolicyFrameInv, RunsItsOwn
<1>4. CASE CheckHeader \/ RefuseBody
  <2>1. /\ UNCHANGED <<prop, authorised, executed>> /\ gpc' \in {"publish", "body"}
        /\ local_verdict'.decision = "DENY"
    BY <1>0, <1>4 DEF CheckHeader, RefuseBody, Deny, Verdict, CoverInv, GateGoes, dataport
  <2> QED
    BY <1>0, <1>1, <2>1 DEF OpenInv, PolicyFrameInv, RunsItsOwn
<1>5. CASE CommitProposal
  <2>1. /\ UNCHANGED <<prop, executed>> /\ gpc' = "publish"
        /\ authorised' = [frame |-> prop, via |-> "policy"]
    BY <1>5 DEF CommitProposal, GateGoes, dataport
  <2> QED
    BY <1>0, <1>1, <2>1 DEF OpenInv, PolicyFrameInv, RunsItsOwn
<1>6. CASE PublishVerdict
  <2>1. /\ UNCHANGED <<prop, authorised, executed>> /\ gpc = "publish"
        /\ \/ gpc' = "dispatch" /\ local_verdict.decision = "ALLOW"
           \/ gpc' = "emit"
    BY <1>6 DEF PublishVerdict, GateGoes
  <2> QED
    BY <1>0, <1>1, <2>1 DEF OpenInv, PolicyFrameInv, RunsItsOwn
<1>7. CASE CallExecutor
  <2> DEFINE e == [frame |-> prop, authorised |-> authorised]
  <2>1. /\ gpc = "dispatch" /\ gpc' = "executing" /\ executed' = Append(executed, e)
    BY <1>7 DEF CallExecutor, GateGoes
  <2>2. \A i \in DOMAIN executed' : executed'[i] = e \/ (i \in DOMAIN executed
                                                           /\ executed'[i] = executed[i])
    BY <1>0, <2>1
  <2>3. e.authorised.via = "policy" => e.frame = e.authorised.frame
    BY <1>0, <2>1 DEF PolicyFrameInv
  <2> HIDE DEF e
  <2> QED
    BY <1>0, <1>1, <2>1, <2>2, <2>3 DEF OpenInv, PolicyFrameInv, RunsItsOwn
<1> QED
  BY <1>2, <1>3, <1>4, <1>5, <1>6, <1>7 DEF GateStep

\* Whatever runs in the guest and writes into the page, with the priorities of the
\* assembly: a call the policy let through is dispatched as it was checked, and no more
\* calls are dispatched for quorums than challenges were issued.  That a quorum's call
\* is the one it was asked for is not among this (toolgate_component.c:48-54).
THEOREM AnyGuestIsBounded ==
  ASSUME PriorityIsolation
  PROVE  OpenSpec => [](RunsItsOwn("policy") /\ QuorumDispatchesCovered)
<1>1. Init => OpenInv
  BY InitTypes, InitCover DEF Init, OpenInv, PolicyFrameInv, RunsItsOwn
<1>2. OpenInv /\ [GateStep \/ AnyProgram]_vars => OpenInv'
  <2> SUFFICES ASSUME OpenInv, UNCHANGED vars PROVE OpenInv'
    BY OpenGateStep, AnyProgramStep
  <2>1. TypeInv' /\ CoverInv'
    BY StepTypes, CoverStep DEF OpenInv
  <2> QED
    BY <2>1 DEF OpenInv, PolicyFrameInv, RunsItsOwn, vars, gate, dataport
<1>3. OpenInv => RunsItsOwn("policy") /\ QuorumDispatchesCovered
  BY CoverIsEnough DEF OpenInv, PolicyFrameInv
<1> QED
  BY <1>1, <1>2, <1>3, PTL DEF OpenSpec

-----------------------------------------------------------------------------
(* The assembly implements AdmissionGate *)

\* Nothing is decided, let go, or dispatched: the abstract gate stutters.
LEMMA PromiseStutters ==
  ASSUME UNCHANGED <<g_state, executed>>, Going' <=> Going,
         Going => authorised' = authorised
  PROVE  UNCHANGED Promise!vars
BY DEF Promise!vars, HeldRequest, GrantedRequests, RequestOf

\* What a frame in the dataport asks for is a request of the abstract gate.
LEMMA RequestTypes ==
  ASSUME NEW f \in ProposalFrame
  PROVE  RequestOf(f) \in Promise!Request
BY DEF ProposalFrame, RequestOf, Orders, Promise!Request

\* The frame the executor is given is the one that was let through: the request moves
\* from what is about to go to what has gone.
LEMMA CallKeepsPromise ==
  ASSUME TypeInv, FrameInv, CallExecutor
  PROVE  UNCHANGED Promise!vars
<1> DEFINE e == [frame |-> prop, authorised |-> authorised]
           n == Len(executed) + 1
<1>1. executed \in Seq(Dispatch)
  BY DEF TypeInv, TypeOK
<1>2. /\ gpc = "dispatch" /\ gpc' = "executing" /\ UNCHANGED g_state
      /\ executed' = Append(executed, e)
  BY DEF CallExecutor, GateGoes
<1>3. /\ DOMAIN executed' = DOMAIN executed \union {n}
      /\ executed'[n] = e /\ \A i \in DOMAIN executed : executed'[i] = executed[i]
  BY <1>1, <1>2
<1>4. e.frame = authorised.frame
  BY <1>2 DEF FrameInv
<1> HIDE DEF e, n
<1>5. Going /\ ~Going'
  BY <1>2 DEF Going
<1>6. {RequestOf(executed'[i].frame) : i \in DOMAIN executed'}
        = {RequestOf(executed[i].frame) : i \in DOMAIN executed}
            \union {RequestOf(authorised.frame)}
  BY <1>3, <1>4
<1>7. GrantedRequests' = GrantedRequests
  BY <1>5, <1>6 DEF GrantedRequests, RequestOf
<1> QED
  BY <1>2, <1>7 DEF Promise!vars, HeldRequest

\* A committed proposal is granted, dropped or held, under a number above the watermark.
LEMMA CommitKeepsPromise ==
  ASSUME TypeInv, OnceInv, CommitProposal
  PROVE  Promise!Next
<1> DEFINE r == RequestOf(prop)
<1>0. /\ PortTypes /\ GateTypes /\ ActiveIsChallenge /\ prop \in ProposalFrame
      /\ local_verdict \in Verdict
      /\ g_state.last_seen_sequence_id \in Nat /\ prop.sequence_id \in Nat
  <2>1. \A n \in Seqs : n \in Nat
    BY MaxSeqAssumption DEF Seqs
  <2> QED
    BY <2>1, TypesAreTypeOK DEF TypeInv, TypeOK, GateState, ProposalFrame
<1>1. /\ UNCHANGED <<prop, executed>> /\ gpc = "body" /\ gpc' = "publish"
      /\ prop.tool_id \in DOMAIN Policy
      /\ authorised' = [frame |-> prop, via |-> "policy"]
  BY BodyHasRow DEF CommitProposal, GateGoes, dataport
<1>2. PICK n \in Nonces : g_state' = Commit(g_state, prop, n)
  BY DEF CommitProposal
<1>3. /\ local_verdict'.decision = Policy[prop.tool_id].decision
      /\ local_verdict'.status_code = AcceptedStatus(prop)
  BY <1>0 DEF CommitProposal, Verdict
<1>4. prop.sequence_id > g_state.last_seen_sequence_id
  <2>1. HeaderStatus(g_state, prop) = "OK"
    BY <1>1 DEF OnceInv
  <2>2. ~(prop.sequence_id <= g_state.last_seen_sequence_id)
    BY <2>1 DEF HeaderStatus
  <2> QED
    BY <1>0, <2>2
<1>5. g_state'.last_seen_sequence_id = prop.sequence_id
  BY <1>0, <1>1, <1>2, CommittedState
<1>6. /\ r \in Promise!Request /\ r.seq = prop.sequence_id /\ r.boot = 1
      /\ r.tool.tool_id = prop.tool_id
  BY <1>0, RequestTypes DEF RequestOf
<1>7. Promise!Fresh(r)
  BY <1>4, <1>6 DEF Promise!Fresh
<1>8. ~Going /\ authorised'.frame = prop
  BY <1>1 DEF Going
<1> DEFINE Gone == {RequestOf(executed[i].frame) : i \in DOMAIN executed}
<1>9. GrantedRequests = Gone /\ GrantedRequests' = Gone \union (IF Going' THEN {r} ELSE {})
  BY <1>1, <1>8 DEF GrantedRequests, RequestOf
<1> HIDE DEF r, Gone
<1>10. CASE Policy[prop.tool_id].decision = "QUORUM"
  <2>1. /\ g_state'.has_active_challenge
        /\ g_state'.active_challenge = [prop |-> prop, nonce |-> n]
    BY <1>0, <1>1, <1>2, <1>10, CommittedState
  <2>2. HeldRequest' = {r}
    BY <2>1 DEF HeldRequest, RequestOf, r
  <2>3. ~Going'
    BY <1>1, <1>3, <1>10 DEF Going, IsAllowed
  <2>4. NeedsQuorum(r.tool)
    BY <1>1, <1>6, <1>10 DEF NeedsQuorum
  <2>5. Promise!Hold(r)
    BY <1>5, <1>6, <1>7, <1>9, <2>2, <2>3, <2>4 DEF Promise!Hold
  <2> QED
    BY <1>6, <2>5 DEF Promise!Next
<1>11. CASE Policy[prop.tool_id].decision # "QUORUM"
  <2>1. /\ g_state'.has_active_challenge = g_state.has_active_challenge
        /\ g_state'.active_challenge = g_state.active_challenge
    BY <1>0, <1>1, <1>2, <1>11, CommittedState
  <2>2. HeldRequest' = HeldRequest
    BY <2>1 DEF HeldRequest, RequestOf
  <2>3. Going' <=> Policy[prop.tool_id].decision = "ALLOW"
    BY <1>1, <1>3, <1>11 DEF Going, IsAllowed, AcceptedStatus
  <2>4. ~NeedsQuorum(r.tool)
        /\ (NeedsNoQuorum(r.tool) <=> Policy[prop.tool_id].decision = "ALLOW")
    BY <1>1, <1>6, <1>11 DEF NeedsQuorum, NeedsNoQuorum
  <2>5. CASE Going'
    <3>1. Promise!Grant(r)
      BY <1>5, <1>6, <1>7, <1>9, <2>2, <2>3, <2>4, <2>5 DEF Promise!Grant
    <3> QED
      BY <1>6, <3>1 DEF Promise!Next
  <2>6. CASE ~Going'
    <3>1. Promise!Drop(r)
      BY <1>5, <1>6, <1>7, <1>9, <2>2, <2>3, <2>4, <2>6 DEF Promise!Drop
    <3> QED
      BY <1>6, <3>1 DEF Promise!Next
  <2> QED
    BY <2>5, <2>6
<1> QED
  BY <1>10, <1>11

\* A complete quorum releases the one request that is held.
LEMMA ApprovalKeepsPromise ==
  ASSUME TypeInv, AcceptApproval
  PROVE  Promise!Next
<1>1. g_state.has_active_challenge /\ PortTypes /\ GateTypes /\ ActiveIsChallenge
  BY ApprovedChallenge, TypesAreTypeOK DEF AcceptApproval, TypeInv
<1>2. /\ gpc = "verify" /\ gpc' = "dispatch" /\ UNCHANGED executed
      /\ authorised'.frame = g_state.active_challenge.prop
      /\ ~g_state'.has_active_challenge
      /\ g_state'.last_seen_sequence_id = g_state.last_seen_sequence_id
  BY <1>1, ClosedState DEF AcceptApproval, GateGoes
<1>3. ~Going /\ Going'
  BY <1>2 DEF Going
<1>4. /\ HeldRequest = {RequestOf(g_state.active_challenge.prop)} /\ HeldRequest' = {}
      /\ GrantedRequests' = GrantedRequests \union HeldRequest
  BY <1>1, <1>2, <1>3 DEF HeldRequest, GrantedRequests, RequestOf
<1>5. Promise!Release
  BY <1>2, <1>4 DEF Promise!Release
<1> QED
  BY <1>5 DEF Promise!Next

\* Every step of the assembly is a step of the abstract gate, or none.
LEMMA SystemStepKeepsPromise ==
  ASSUME PriorityIsolation, SystemInv, [Next]_vars
  PROVE  [Promise!Next]_(Promise!vars)
<1>0. TypeInv /\ CoverInv /\ FrameInv /\ OnceInv /\ GateTypes /\ local_verdict \in Verdict
  BY TypesAreTypeOK DEF SystemInv, TypeInv, TypeOK
<1>1. CASE AgentStep \/ RunAgain \/ UNCHANGED vars
  BY <1>0, <1>1, QuietSteps, PromiseStutters DEF Going
<1>2. CASE Wake \/ DenyApproval \/ ExecutorReturns \/ FillResult \/ EmitVerdictReady
  <2>1. /\ UNCHANGED <<g_state, executed>>
        /\ gpc \in {"wait", "verify", "executing", "fill", "emit"}
        /\ gpc' \in {"verify", "header", "emit", "fill", "wait"}
    BY <1>2 DEF Wake, DenyApproval, ExecutorReturns, FillResult, EmitVerdictReady,
       GateGoes
  <2> QED
    BY <2>1, PromiseStutters DEF Going
<1>3. CASE CheckHeader \/ RefuseBody
  <2>1. /\ UNCHANGED <<g_state, executed>> /\ gpc \in {"header", "body"}
        /\ gpc' \in {"publish", "body"} /\ local_verdict'.decision = "DENY"
    BY <1>0, <1>3 DEF CheckHeader, RefuseBody, Deny, Verdict, CoverInv, GateGoes
  <2> QED
    BY <2>1, PromiseStutters DEF Going, IsAllowed
<1>4. CASE PublishVerdict
  <2>1. /\ UNCHANGED <<g_state, executed, authorised>> /\ gpc = "publish"
        /\ \/ gpc' = "dispatch" /\ IsAllowed(local_verdict)
           \/ gpc' = "emit" /\ ~IsAllowed(local_verdict)
    BY <1>4 DEF PublishVerdict, GateGoes, IsAllowed
  <2> QED
    BY <2>1, PromiseStutters DEF Going
<1>5. CASE CallExecutor
  BY <1>0, <1>5, CallKeepsPromise
<1>6. CASE CommitProposal
  BY <1>0, <1>6, CommitKeepsPromise
<1>7. CASE AcceptApproval
  BY <1>0, <1>7, ApprovalKeepsPromise
<1> QED
  BY <1>1, <1>2, <1>3, <1>4, <1>5, <1>6, <1>7 DEF Next, GateStep

\* With the priorities of the assembly the agent, the dataport, the gate and the
\* executor together keep the promise that AdmissionGate states of the gate alone: what
\* is dispatched was granted by the policy or held and released, under its own number.
THEOREM AssemblyKeepsPromise ==
  ASSUME PriorityIsolation
  PROVE  Spec => PromiseKept
<1>1. Init => Promise!Init
  BY DEF Init, ZeroedGateState, Promise!Init, HeldRequest, GrantedRequests, Going
<1>2. SystemInv /\ [Next]_vars => [Promise!Next]_(Promise!vars)
  BY SystemStepKeepsPromise
<1> QED
  BY <1>1, <1>2, SystemInvariance, PTL DEF Spec, PromiseKept, Promise!Spec
==============================================================================
