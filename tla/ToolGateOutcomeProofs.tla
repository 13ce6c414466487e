---------------------- MODULE ToolGateOutcomeProofs ----------------------
(***************************************************************************)
(* The outcome the agent reports is that of its own call, for every script *)
(* and any number of starts of the agent: under the priorities of the      *)
(* assembly, and for the build and the signers the agent is written for -  *)
(* the mock build, and masks within the triad whose bitmap it packs.       *)
(***************************************************************************)
EXTENDS ToolGateSystemProofs

MasksWithinTriad == \A t \in DOMAIN Policy : Policy[t].required_mask \subseteq {0, 1, 2}

\* The agent has rung for its proposal.
Asked == {"await", "read_verdict", "read_result", "app_header", "app_witnesses"}

\* The proposal in the dataport is the agent's call.
FrameIsCall ==
  /\ prop.tool_id = call.tool_id /\ prop.sequence_id = call.sequence_id
  /\ prop.payload = call.payload

\* That proposal was dispatched, and the result is the executor's, of its number.
Given == \E i \in DOMAIN executed : executed[i].frame = prop
Answered ==
  /\ result.sequence_id = prop.sequence_id /\ Given
  /\ result.status_code = ExecStatus(prop.tool_id) /\ result.text = ExecText(prop.tool_id)

\* Its challenge is pending, with a mask the agent's bitmap covers ...
PendingOwn ==
  /\ g_state.has_active_challenge
  /\ g_state.active_challenge_seq = prop.sequence_id
  /\ g_state.active_required_mask \subseteq {0, 1, 2}

\* ... and the approval is the one write_approval packs for it.
Packed ==
  /\ app.magic = "SOVQ" /\ app.version = SOVP_VERSION
  /\ app.sequence_id = prop.sequence_id
  /\ app.signer_bitmap = {0, 1, 2} /\ app.quorum_count = 3
Approves == Packed /\ PendingOwn /\ verdict.sequence_id = prop.sequence_id

\* The verdict in the dataport is about the proposal there, and what it says is so.
Told ==
  /\ verdict.sequence_id = prop.sequence_id
  /\ IsAllowed(verdict) => Answered
  /\ phase = 2 => IsAllowed(verdict)
  /\ IsPending(verdict) => PendingOwn

AgentInv ==
  /\ phase = 2 => apc \in {"ring", "await", "read_verdict", "read_result"}
  /\ apc = "prop_args" =>
       prop.tool_id = call.tool_id /\ prop.sequence_id = call.sequence_id
  /\ apc \in Asked \union {"ring"} => FrameIsCall
  /\ (apc = "ring" \/ doorbell) /\ phase = 1 => app.magic # "SOVQ"
  /\ (apc = "ring" \/ doorbell) /\ phase = 2 => Approves
  /\ apc \in {"app_header", "app_witnesses"} => IsPending(verdict)
  /\ apc = "app_witnesses" => Packed
  /\ apc = "read_result" =>
       /\ report.call = call /\ report.verdict.sequence_id = call.sequence_id
       /\ IsAllowed(verdict)

GateInv ==
  /\ gpc # "wait" => ~doorbell
  /\ gpc = "verify" => phase = 2 /\ Approves
  /\ gpc \in {"header", "body", "publish"} => phase = 1
  /\ gpc \in {"body", "publish"} => local_verdict.sequence_id = prop.sequence_id
  /\ gpc = "publish" /\ IsPending(local_verdict) => PendingOwn
  /\ gpc \in {"dispatch", "executing", "fill"} =>
       /\ verdict.sequence_id = prop.sequence_id
       /\ authorised.via = "quorum" \/ IsAllowed(verdict)
  /\ gpc \in {"executing", "fill"} => Given
  /\ gpc = "executing" => executed[Len(executed)].frame = prop
  /\ gpc = "fill" =>
       exec_status = ExecStatus(prop.tool_id) /\ result.text = ExecText(prop.tool_id)
  /\ gpc = "emit" => Told
  /\ gpc = "wait" /\ ~doorbell /\ apc \in Asked => Told

OwnInv == AgentInv /\ GateInv /\ OutcomeIsOwn

\* What the agent packs for a pending challenge satisfies the quorum.
LEMMA PackedIsAccepted ==
  ASSUME MockCrypto, Approves
  PROVE  ApprovalStatus(g_state, app) = "OK"
<1>1. Cardinality({0, 1, 2}) = 3
  <2>1. IsFiniteSet({0}) /\ Cardinality({0}) = 1
    BY FS_Singleton
  <2>2. IsFiniteSet({0} \union {1}) /\ Cardinality({0} \union {1}) = 2
    <3>1. 1 \notin {0}
      OBVIOUS
    <3> QED
      BY <2>1, <3>1, FS_AddElement
  <2>3. Cardinality(({0} \union {1}) \union {2}) = 3
    <3>1. 2 \notin {0} \union {1}
      OBVIOUS
    <3> QED
      BY <2>2, <3>1, FS_AddElement
  <2>4. {0, 1, 2} = ({0} \union {1}) \union {2}
    OBVIOUS
  <2> QED
    BY <2>3, <2>4
<1>2. \A i \in CountedSlots(app) : SignatureVerifies(app.witnesses[i], g_state.active_challenge)
  BY DEF SignatureVerifies
<1> QED
  BY <1>1, <1>2 DEF Approves, Packed, PendingOwn, ApprovalStatus

LEMMA InitOwn == Init => OwnInv
BY DEF Init, OwnInv, AgentInv, GateInv, OutcomeIsOwn, Asked, ZeroedApproval

\* What the agent has reported stays true: the history only grows.
LEMMA OutcomeStays ==
  ASSUME HistoryTypes, OutcomeIsOwn, report' = report,
         executed' = executed \/ \E e \in Dispatch : executed' = Append(executed, e)
  PROVE  OutcomeIsOwn'
<1>1. \A i \in DOMAIN executed : i \in DOMAIN executed' /\ executed'[i] = executed[i]
  BY DEF HistoryTypes
<1> QED
  BY <1>1 DEF OutcomeIsOwn

\* The agent's part.
LEMMA AgentOwns ==
  ASSUME PriorityIsolation, TypeInv, ApprovalInv, OwnInv, AgentStep \/ RunAgain
  PROVE  OwnInv'
<1>0. /\ PortTypes /\ AgentTypes /\ HistoryTypes /\ phase \in {1, 2}
      /\ prop \in ProposalFrame /\ app \in ApprovalFrame /\ report \in Report
  BY TypesAreTypeOK DEF TypeInv, PortTypes, AgentTypes
<1>w. /\ gpc = "wait" /\ gpc' = "wait" /\ ~doorbell
      /\ UNCHANGED <<g_state, executed, verdict, result>>
  BY <1>0, AgentMoves DEF GuestRuns, gate
<1>s. AgentInv /\ GateInv /\ OutcomeIsOwn
  BY DEF OwnInv
<1>g. ASSUME doorbell' \/ apc' \notin Asked \/ Told' PROVE GateInv'
  BY <1>w, <1>g DEF GateInv
<1>t. ASSUME UNCHANGED <<prop, phase>>, apc \in Asked PROVE Told /\ Told'
  <2>1. Told
    BY <1>s, <1>w, <1>t DEF GateInv
  <2> QED
    BY <1>w, <1>t, <2>1 DEF Told, Answered, Given, PendingOwn
<1>o. report' = report => OutcomeIsOwn'
  BY <1>0, <1>s, <1>w, OutcomeStays
<1>1. CASE OpenTransport
  <2>1. apc' = "clear" /\ apc = "open" /\ UNCHANGED <<phase, report, doorbell>>
    BY <1>1 DEF OpenTransport, AgentGoes
  <2>2. AgentInv'
    BY <1>0, <1>s, <1>w, <2>1 DEF AgentInv, Asked
  <2> QED
    BY <1>g, <1>o, <2>1, <2>2 DEF OwnInv, Asked
<1>2. CASE ClearApproval
  <2>1. apc' = "prop_header" /\ apc = "clear" /\ UNCHANGED <<phase, report, doorbell>>
    BY <1>2 DEF ClearApproval, AgentGoes
  <2>2. AgentInv'
    BY <1>0, <1>s, <1>w, <2>1 DEF AgentInv, Asked
  <2> QED
    BY <1>g, <1>o, <2>1, <2>2 DEF OwnInv, Asked
<1>3. CASE WriteProposalHeader
  <2>1. /\ apc' = "prop_args" /\ apc = "prop_header"
        /\ UNCHANGED <<phase, report, doorbell, call>>
    BY <1>3 DEF WriteProposalHeader, AgentGoes
  <2>2. prop'.tool_id = call.tool_id /\ prop'.sequence_id = call.sequence_id
    BY <1>0, <1>3 DEF WriteProposalHeader, ProposalFrame
  <2>3. AgentInv'
    BY <1>0, <1>s, <1>w, <2>1, <2>2 DEF AgentInv, Asked
  <2> QED
    BY <1>g, <1>o, <2>1, <2>3 DEF OwnInv, Asked
<1>4. CASE WriteProposalArgs
  <2>1. /\ apc' = "ring" /\ apc = "prop_args"
        /\ UNCHANGED <<phase, report, doorbell, call, app>>
    BY <1>4 DEF WriteProposalArgs, AgentGoes
  <2>2. /\ prop'.tool_id = prop.tool_id /\ prop'.sequence_id = prop.sequence_id
        /\ prop'.payload = call.payload
    BY <1>0, <1>4 DEF WriteProposalArgs, ProposalFrame
  <2>3. FrameIsCall'
    BY <1>s, <2>1, <2>2 DEF FrameIsCall, AgentInv
  <2>4. app.magic # "SOVQ"
    BY <2>1 DEF ApprovalInv
  <2>5. AgentInv'
    BY <1>0, <1>s, <1>w, <2>1, <2>3, <2>4 DEF AgentInv, Asked
  <2> QED
    BY <1>g, <1>o, <2>1, <2>5 DEF OwnInv, Asked
<1>5. CASE RingDoorbell
  <2>1. /\ apc' = "await" /\ apc = "ring" /\ doorbell'
        /\ UNCHANGED <<phase, report, call, app, prop>>
    BY <1>5 DEF RingDoorbell, AgentGoes, dataport
  <2>2. FrameIsCall' /\ (Approves' <=> Approves)
    BY <1>s, <1>w, <2>1 DEF FrameIsCall, AgentInv, Approves, Packed, PendingOwn
  <2>3. AgentInv'
    BY <1>0, <1>s, <2>1, <2>2 DEF AgentInv, Asked
  <2> QED
    BY <1>g, <1>o, <2>1, <2>3 DEF OwnInv
<1>6. CASE TakeInterrupt
  <2>1. /\ apc' = "read_verdict" /\ apc = "await"
        /\ UNCHANGED <<phase, report, doorbell, call, app, prop>>
    BY <1>6 DEF TakeInterrupt, AgentGoes, dataport
  <2>2. FrameIsCall'
    BY <1>s, <2>1 DEF FrameIsCall, AgentInv, Asked
  <2>3. AgentInv'
    BY <1>0, <1>s, <1>w, <2>1, <2>2 DEF AgentInv, Asked
  <2>4. Told'
    BY <1>t, <2>1 DEF Asked
  <2> QED
    BY <1>g, <1>o, <2>1, <2>3, <2>4 DEF OwnInv
<1>r. ASSUME NEW from, NEW r, ReturnFrom(from, r)
      PROVE  AgentInv' /\ GateInv' /\ report' = r /\ apc = from
  <2>1. /\ apc' \in {"clear", "exit"} /\ phase' = 1 /\ doorbell' = doorbell
        /\ report' = r /\ apc = from
    BY <1>r DEF ReturnFrom
  <2>2. AgentInv'
    BY <1>w, <2>1 DEF AgentInv, Asked
  <2> QED
    BY <1>g, <2>1, <2>2 DEF Asked
<1>7. CASE TimeOut
  <2>1. AgentInv' /\ GateInv' /\ report'.outcome = "timeout"
    BY <1>7, <1>r DEF TimeOut
  <2> QED
    BY <2>1 DEF OwnInv, OutcomeIsOwn
<1>8. CASE ReadAllowed
  <2>1. /\ apc' = "read_result" /\ apc = "read_verdict"
        /\ phase = 2 \/ IsAllowed(verdict)
        /\ UNCHANGED <<phase, doorbell, call, prop>>
        /\ report'.call = call /\ report'.verdict = verdict /\ report'.outcome = "none"
    BY <1>8 DEF ReadAllowed, AgentGoes, dataport
  <2>2. Told /\ Told' /\ FrameIsCall
    BY <1>s, <1>t, <2>1 DEF Asked, AgentInv
  <2>3. FrameIsCall'
    BY <2>1, <2>2 DEF FrameIsCall
  <2>4. verdict.sequence_id = call.sequence_id /\ IsAllowed(verdict)
    BY <2>1, <2>2 DEF Told, FrameIsCall
  <2>5. IsAllowed(verdict')
    BY <1>w, <2>4
  <2>6. AgentInv'
    BY <1>0, <1>s, <1>w, <2>1, <2>3, <2>4, <2>5 DEF AgentInv, Asked
  <2>7. OutcomeIsOwn'
    BY <2>1 DEF OutcomeIsOwn
  <2> QED
    BY <1>g, <2>2, <2>6, <2>7 DEF OwnInv
<1>9. CASE ReadResult
  <2>1. /\ AgentInv' /\ GateInv' /\ apc = "read_result"
        /\ report' = [report EXCEPT !.result = result, !.outcome = "executed"]
    BY <1>9, <1>r DEF ReadResult
  <2>2. /\ report'.call = report.call /\ report'.verdict = report.verdict
        /\ report'.result = result
    BY <1>0, <2>1 DEF Report
  <2>3. /\ FrameIsCall /\ Told /\ report.call = call
        /\ report.verdict.sequence_id = call.sequence_id /\ IsAllowed(verdict)
    BY <1>s, <1>w, <2>1 DEF AgentInv, GateInv, Asked
  <2>4. PICK i \in DOMAIN executed : executed[i].frame = prop
    BY <2>3 DEF Told, Answered, Given
  <2>5. /\ result.sequence_id = call.sequence_id
        /\ result.status_code = ExecStatus(call.tool_id)
        /\ result.text = ExecText(call.tool_id)
    BY <2>3 DEF Told, Answered, FrameIsCall
  <2>6. OutcomeIsOwn'
    BY <1>w, <2>2, <2>3, <2>4, <2>5 DEF OutcomeIsOwn, FrameIsCall
  <2> QED
    BY <2>1, <2>6 DEF OwnInv
<1>10. CASE ReadDenied
  <2>1. /\ AgentInv' /\ GateInv' /\ apc = "read_verdict"
        /\ report'.call = call /\ report'.verdict = verdict /\ report'.outcome = "denied"
    BY <1>10, <1>r DEF ReadDenied
  <2>2. verdict.sequence_id = call.sequence_id
    BY <1>s, <1>w, <2>1 DEF AgentInv, GateInv, Asked, Told, FrameIsCall
  <2> QED
    BY <2>1, <2>2 DEF OwnInv, OutcomeIsOwn
<1>11. CASE ReadPending
  <2>1. /\ apc' = "app_header" /\ apc = "read_verdict" /\ IsPending(verdict) /\ phase = 1
        /\ UNCHANGED <<phase, report, doorbell, call, prop>>
    BY <1>11 DEF ReadPending, AgentGoes, dataport
  <2>2. Told' /\ FrameIsCall
    BY <1>s, <1>t, <2>1 DEF Asked, AgentInv
  <2>3. FrameIsCall' /\ IsPending(verdict')
    BY <1>w, <2>1, <2>2 DEF FrameIsCall
  <2>4. AgentInv'
    BY <1>w, <2>1, <2>3 DEF AgentInv, Asked
  <2> QED
    BY <1>g, <1>o, <2>1, <2>2, <2>4 DEF OwnInv
<1>12. CASE WriteApprovalHeader
  <2>1. /\ apc' = "app_witnesses" /\ apc = "app_header"
        /\ UNCHANGED <<phase, report, doorbell, call, prop>>
    BY <1>12 DEF WriteApprovalHeader, AgentGoes
  <2>2. Told' /\ FrameIsCall /\ IsPending(verdict) /\ phase # 2
    BY <1>s, <1>t, <2>1 DEF Asked, AgentInv
  <2>3. FrameIsCall' /\ IsPending(verdict')
    BY <1>w, <2>1, <2>2 DEF FrameIsCall
  <2>4. Packed'
    <3>1. /\ app'.magic = "SOVQ" /\ app'.version = SOVP_VERSION
          /\ app'.sequence_id = call.sequence_id
          /\ app'.signer_bitmap = {0, 1, 2} /\ app'.quorum_count = 3
      BY <1>0, <1>12 DEF WriteApprovalHeader, ApprovalFrame
    <3> QED
      BY <2>1, <2>2, <3>1 DEF Packed, FrameIsCall
  <2>5. AgentInv'
    BY <1>w, <2>1, <2>2, <2>3, <2>4 DEF AgentInv, Asked
  <2> QED
    BY <1>g, <1>o, <2>1, <2>2, <2>5 DEF OwnInv
<1>13. CASE WriteWitnesses
  <2>1. /\ apc' = "ring" /\ apc = "app_witnesses" /\ phase' = 2
        /\ UNCHANGED <<report, doorbell, call, prop>>
    BY <1>13 DEF WriteWitnesses, AgentGoes
  <2>2. Told /\ FrameIsCall /\ IsPending(verdict) /\ Packed
    BY <1>s, <1>w, <2>1 DEF Asked, AgentInv, GateInv
  <2>3. FrameIsCall'
    BY <2>1, <2>2 DEF FrameIsCall
  <2>4. Packed'
    <3>1. /\ app'.magic = app.magic /\ app'.version = app.version
          /\ app'.sequence_id = app.sequence_id
          /\ app'.signer_bitmap = app.signer_bitmap
          /\ app'.quorum_count = app.quorum_count
      BY <1>0, <1>13 DEF WriteWitnesses, ApprovalFrame
    <3> QED
      BY <2>1, <2>2, <3>1 DEF Packed
  <2>5. Approves'
    <3>1. PendingOwn /\ verdict.sequence_id = prop.sequence_id
      BY <2>2 DEF Told
    <3>2. PendingOwn'
      BY <1>w, <2>1, <3>1 DEF PendingOwn
    <3> QED
      BY <1>w, <2>1, <2>4, <3>1, <3>2 DEF Approves
  <2>6. AgentInv'
    BY <1>w, <2>1, <2>3, <2>5 DEF AgentInv, Asked
  <2> QED
    BY <1>g, <1>o, <2>1, <2>6 DEF OwnInv, Asked
<1>14. CASE RunAgain
  <2>1. apc' = "open" /\ phase' = 1 /\ UNCHANGED <<report, doorbell>>
    BY <1>14 DEF RunAgain
  <2>2. AgentInv'
    BY <1>w, <2>1 DEF AgentInv, Asked
  <2> QED
    BY <1>g, <1>o, <2>1, <2>2 DEF OwnInv, Asked
<1> QED
  BY <1>1, <1>2, <1>3, <1>4, <1>5, <1>6, <1>7, <1>8, <1>9, <1>10, <1>11, <1>12, <1>13,
     <1>14 DEF AgentStep

\* The gate's part.
LEMMA GateOwns ==
  ASSUME MockCrypto, MasksWithinTriad, TypeInv, CoverInv, GuestWaits, OwnInv, GateStep
  PROVE  OwnInv'
<1>0. /\ HistoryTypes /\ phase \in {1, 2} /\ GateTypes /\ PortTypes /\ ActiveIsChallenge
      /\ verdict \in Verdict /\ local_verdict \in Verdict /\ result \in Result
      /\ prop \in ProposalFrame /\ authorised \in Authorised
  BY TypesAreTypeOK DEF TypeInv, TypeOK, PortTypes, GateTypes
<1>w. UNCHANGED <<prop, app, apc, phase, call, report>> /\ apc = "await"
  BY GateMoves DEF GuestWaits, agent
<1>s. AgentInv /\ GateInv /\ OutcomeIsOwn
  BY DEF OwnInv
<1>f. FrameIsCall /\ FrameIsCall'
  BY <1>s, <1>w DEF AgentInv, Asked, FrameIsCall
<1>a. ASSUME ~doorbell', OutcomeIsOwn', GateInv' PROVE OwnInv'
  <2>1. AgentInv'
    BY <1>f, <1>w, <1>a DEF AgentInv, Asked
  <2> QED
    BY <1>a, <2>1 DEF OwnInv
<1>o. executed' = executed => OutcomeIsOwn'
  BY <1>0, <1>s, <1>w, OutcomeStays
<1>p. ASSUME g_state' = g_state PROVE PendingOwn' <=> PendingOwn
  BY <1>w, <1>p DEF PendingOwn
<1>1. CASE Wake
  <2>1. /\ doorbell /\ ~doorbell' /\ UNCHANGED <<g_state, verdict, executed>>
        /\ \/ gpc' = "verify" /\ app.magic = "SOVQ"
           \/ gpc' = "header" /\ app.magic # "SOVQ"
    BY <1>1 DEF Wake, GateGoes, dataport
  <2>2. \/ phase = 1 /\ app.magic # "SOVQ"
        \/ phase = 2 /\ Approves /\ app.magic = "SOVQ"
    BY <1>0, <1>s, <2>1 DEF AgentInv, Approves, Packed
  <2>3. Approves' <=> Approves
    BY <1>p, <1>w, <2>1 DEF Approves, Packed
  <2>4. GateInv'
    BY <1>w, <2>1, <2>2, <2>3 DEF GateInv
  <2> QED
    BY <1>a, <1>o, <2>1, <2>4
<1>2. CASE DenyApproval
  <2>1. Approves
    BY <1>2, <1>s DEF DenyApproval, GateGoes, GateInv
  <2> QED
    BY <1>2, <2>1, PackedIsAccepted DEF DenyApproval
<1>3. CASE AcceptApproval
  <2>1. /\ gpc = "verify" /\ gpc' = "dispatch" /\ UNCHANGED <<doorbell, verdict, executed>>
        /\ authorised'.via = "quorum"
    BY <1>3 DEF AcceptApproval, GateGoes, dataport
  <2>2. verdict'.sequence_id = prop'.sequence_id
    BY <1>s, <1>w, <2>1 DEF GateInv, Approves
  <2>3. GateInv'
    BY <1>s, <2>1, <2>2 DEF GateInv
  <2> QED
    BY <1>a, <1>o, <1>s, <2>1, <2>3 DEF GateInv
<1>4. CASE CheckHeader
  <2>1. /\ gpc = "header" /\ gpc' \in {"publish", "body"} /\ UNCHANGED <<doorbell, executed>>
        /\ local_verdict'.sequence_id = prop.sequence_id
        /\ local_verdict'.decision = "DENY"
    BY <1>4 DEF CheckHeader, GateGoes, Deny
  <2>2. ~IsPending(local_verdict')
    BY <2>1 DEF IsPending
  <2>3. GateInv'
    BY <1>s, <1>w, <2>1, <2>2 DEF GateInv
  <2> QED
    BY <1>a, <1>o, <1>s, <2>1, <2>3 DEF GateInv
<1>5. CASE RefuseBody
  <2>1. /\ gpc = "body" /\ gpc' = "publish" /\ UNCHANGED <<doorbell, executed>>
        /\ local_verdict'.sequence_id = local_verdict.sequence_id
        /\ local_verdict'.decision = "DENY"
    BY <1>0, <1>5 DEF RefuseBody, GateGoes, Verdict, CoverInv
  <2>2. ~IsPending(local_verdict')
    BY <2>1 DEF IsPending
  <2>3. GateInv'
    BY <1>s, <1>w, <2>1, <2>2 DEF GateInv
  <2> QED
    BY <1>a, <1>o, <1>s, <2>1, <2>3 DEF GateInv
<1>6. CASE CommitProposal
  <2>1. /\ gpc = "body" /\ gpc' = "publish" /\ UNCHANGED <<doorbell, executed>>
        /\ prop.tool_id \in DOMAIN Policy
    BY <1>6, BodyHasRow DEF CommitProposal, GateGoes
  <2>2. /\ local_verdict'.sequence_id = local_verdict.sequence_id
        /\ local_verdict'.decision = Policy[prop.tool_id].decision
    BY <1>0, <1>6 DEF CommitProposal, Verdict
  <2>3. ASSUME IsPending(local_verdict') PROVE PendingOwn'
    <3>1. Policy[prop.tool_id].decision = "QUORUM"
      BY <2>2, <2>3 DEF IsPending
    <3>2. /\ g_state'.has_active_challenge
          /\ g_state'.active_challenge_seq = prop.sequence_id
          /\ g_state'.active_required_mask = Policy[prop.tool_id].required_mask
      BY <1>6, <3>1 DEF CommitProposal, Commit
    <3> QED
      BY <1>w, <2>1, <3>2 DEF PendingOwn, MasksWithinTriad
  <2>4. GateInv'
    BY <1>s, <1>w, <2>1, <2>2, <2>3 DEF GateInv
  <2> QED
    BY <1>a, <1>o, <1>s, <2>1, <2>4 DEF GateInv
<1>7. CASE PublishVerdict
  <2>1. /\ gpc = "publish" /\ UNCHANGED <<doorbell, executed, g_state>>
        /\ verdict' = local_verdict
        /\ \/ gpc' = "dispatch" /\ IsAllowed(local_verdict)
           \/ gpc' = "emit" /\ ~IsAllowed(local_verdict)
    BY <1>7 DEF PublishVerdict, GateGoes, IsAllowed
  <2>2. /\ verdict'.sequence_id = prop'.sequence_id /\ phase' = 1
        /\ IsPending(verdict') => PendingOwn'
        /\ IsAllowed(verdict') <=> IsAllowed(local_verdict)
    BY <1>p, <1>s, <1>w, <2>1 DEF GateInv
  <2>3. gpc' = "emit" => Told'
    BY <2>1, <2>2 DEF Told
  <2>4. GateInv'
    BY <1>s, <2>1, <2>2, <2>3 DEF GateInv
  <2> QED
    BY <1>a, <1>o, <1>s, <2>1, <2>4 DEF GateInv
<1>8. CASE CallExecutor
  <2> DEFINE e == [frame |-> prop, authorised |-> authorised]
  <2>1. /\ gpc = "dispatch" /\ gpc' = "executing"
        /\ UNCHANGED <<doorbell, verdict, authorised>>
        /\ executed' = Append(executed, e)
    BY <1>8 DEF CallExecutor, GateGoes, dataport
  <2>2. e \in Dispatch /\ e.frame = prop
    BY <1>0 DEF Dispatch
  <2> HIDE DEF e
  <2>3. Len(executed) + 1 \in DOMAIN executed' /\ executed'[Len(executed) + 1] = e
    BY <1>0, <2>1 DEF HistoryTypes
  <2>4. Given'
    BY <1>w, <2>2, <2>3 DEF Given
  <2>5. OutcomeIsOwn'
    BY <1>0, <1>s, <1>w, <2>1, <2>2, OutcomeStays
  <2>6. GateInv'
    <3>1. /\ verdict'.sequence_id = prop'.sequence_id
          /\ authorised'.via = "quorum" \/ IsAllowed(verdict')
          /\ executed'[Len(executed')].frame = prop'
      <4>1. Len(executed') = Len(executed) + 1
        BY <1>0, <2>1 DEF HistoryTypes
      <4> QED
        BY <1>s, <1>w, <2>1, <2>2, <2>3, <4>1 DEF GateInv
    <3> QED
      BY <1>s, <2>1, <2>4, <3>1 DEF GateInv
  <2> QED
    BY <1>a, <1>s, <2>1, <2>5, <2>6 DEF GateInv
<1>9. CASE ExecutorReturns
  <2>1. /\ gpc = "executing" /\ gpc' = "fill"
        /\ UNCHANGED <<doorbell, verdict, authorised, executed>>
    BY <1>9 DEF ExecutorReturns, GateGoes
  <2>2. /\ verdict'.sequence_id = prop'.sequence_id
        /\ authorised'.via = "quorum" \/ IsAllowed(verdict')
        /\ Given'
    BY <1>s, <1>w, <2>1 DEF GateInv, Given
  <2>4. /\ exec_status' = ExecStatus(prop'.tool_id)
        /\ result'.text = ExecText(prop'.tool_id)
    <3>1. executed[Len(executed)].frame = prop
      BY <1>s, <2>1 DEF GateInv
    <3> QED
      BY <1>0, <1>9, <1>w, <3>1 DEF ExecutorReturns, Result
  <2>3. GateInv'
    BY <1>s, <2>1, <2>2, <2>4 DEF GateInv
  <2> QED
    BY <1>a, <1>o, <1>s, <2>1, <2>3 DEF GateInv
<1>10. CASE FillResult
  <2>1. /\ gpc = "fill" /\ gpc' = "emit" /\ UNCHANGED <<doorbell, executed>>
        /\ result'.sequence_id = prop.sequence_id
        /\ result'.status_code = exec_status /\ result'.text = result.text
    BY <1>0, <1>10 DEF FillResult, GateGoes, Result
  <2>2. IsAllowed(verdict') /\ verdict'.sequence_id = prop.sequence_id
    <3>1. CASE authorised.via = "quorum"
      BY <1>0, <1>10, <1>s, <2>1, <3>1 DEF FillResult, GateInv, Verdict, IsAllowed
    <3>2. CASE authorised.via # "quorum"
      BY <1>10, <1>s, <2>1, <3>2 DEF FillResult, GateInv
    <3> QED
      BY <3>1, <3>2
  <2>3. ~IsPending(verdict')
    BY <2>2 DEF IsAllowed, IsPending
  <2>4. Answered'
    BY <1>s, <1>w, <2>1 DEF GateInv, Answered, Given
  <2>5. Told'
    BY <1>w, <2>2, <2>3, <2>4 DEF Told
  <2>6. GateInv'
    BY <1>s, <2>1, <2>5 DEF GateInv
  <2> QED
    BY <1>a, <1>o, <1>s, <2>1, <2>6 DEF GateInv
<1>11. CASE EmitVerdictReady
  <2>1. /\ gpc = "emit" /\ gpc' = "wait"
        /\ UNCHANGED <<doorbell, g_state, verdict, result, executed>>
    BY <1>11 DEF EmitVerdictReady, GateGoes, dataport
  <2>2. Told'
    BY <1>p, <1>s, <1>w, <2>1 DEF GateInv, Told, Answered, Given
  <2>3. GateInv'
    BY <2>1, <2>2 DEF GateInv
  <2> QED
    BY <1>a, <1>o, <1>s, <2>1, <2>3 DEF GateInv
<1> QED
  BY <1>1, <1>2, <1>3, <1>4, <1>5, <1>6, <1>7, <1>8, <1>9, <1>10, <1>11 DEF GateStep

\* With the priorities of the assembly, the mock build and masks within the triad, an
\* outcome the agent reports is about its own call: the verdict carries its number, and
\* the result is the executor's answer to a dispatch of its own frame
\* (guest_sovr_agent.py:83-131).
THEOREM OutcomesAreOwn ==
  ASSUME PriorityIsolation, MockCrypto, MasksWithinTriad
  PROVE  Spec => []OutcomeIsOwn
<1>1. SystemInv /\ OwnInv /\ [Next]_vars => OwnInv'
  <2> SUFFICES ASSUME SystemInv, OwnInv, [Next]_vars PROVE OwnInv'
    OBVIOUS
  <2>0. TypeInv /\ CoverInv /\ GuestWaits /\ ApprovalInv
    BY DEF SystemInv
  <2>1. CASE GateStep
    BY <2>0, <2>1, GateOwns
  <2>2. CASE AgentStep \/ RunAgain
    BY <2>0, <2>2, AgentOwns
  <2>3. CASE UNCHANGED vars
    BY <2>3 DEF vars, gate, agent, dataport, OwnInv, AgentInv, GateInv, OutcomeIsOwn,
       FrameIsCall, Approves, Packed, PendingOwn, Told, Answered, Given
  <2> QED
    BY <2>1, <2>2, <2>3 DEF Next
<1>2. OwnInv => OutcomeIsOwn
  BY DEF OwnInv
<1> QED
  BY <1>1, <1>2, InitOwn, SystemInvariance, PTL DEF Spec
=============================================================================
