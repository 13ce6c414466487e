------------------------------ MODULE GateTwin ------------------------------
(***************************************************************************)
(* The gate twice: the device, src/toolgate.c behind                       *)
(* src/toolgate_component.c linked with src/toolgate_mock.c, and its       *)
(* emulation in Python, the branch of SovereignGateUIO.ring_doorbell that  *)
(* runs where there is no /dev/uio0.                                       *)
(*                                                                         *)
(* A step is one frame that the guest's functions pack, written and rung   *)
(* on both.  Each answers before the guest goes on, the emulation because  *)
(* it is a function call, the device because it runs above the guest.      *)
(***************************************************************************)
EXTENDS ToolGateOps

CONSTANTS Proposals,    \* what write_proposal is given
          Approvals     \* what write_approval is given

\* SOVP_POLICY of guest_uio_transport.py
PY_POLICY ==
  [t \in PolicyTools |->
     CASE t = "READ_FILE" -> [decision |-> "ALLOW", required_mask |-> {},
                              min_arg_len |-> 1, max_arg_len |-> 256]
       [] t = "HTTP_GET"  -> [decision |-> "ALLOW", required_mask |-> {},
                              min_arg_len |-> 1, max_arg_len |-> 512]
       [] OTHER           -> [decision |-> "QUORUM", required_mask |-> {0, 1, 2},
                              min_arg_len |-> 2, max_arg_len |-> 992]]

ASSUME TableAssumption == Policy = PY_POLICY
ASSUME BuildAssumption == MockCrypto
ASSUME FrameAssumption ==
  /\ Proposals \subseteq ProposalFrame
  /\ Approvals \subseteq {a \in ApprovalFrame :
                            a.magic = "SOVQ" /\ a.version = SOVP_VERSION}

VARIABLES prop,                                          \* write_proposal's frame
          g_state, verdict, result,                      \* the device
          last_seq, active_seq, active_mask,             \* the emulation
          py_verdict, py_result

device == <<g_state, verdict, result>>
emulation == <<last_seq, active_seq, active_mask, py_verdict, py_result>>
vars == <<prop, device, emulation>>

Verdict == [status_code : Statuses, decision : Decisions, sequence_id : Seqs]
Texts == {"", "EXEC_READ_OK", "EXEC_WRITE_OK"}
Result == [sequence_id : Seqs, text : Texts]

VerdictOf(status, decision, seq) ==
  [status_code |-> status, decision |-> decision, sequence_id |-> seq]

Init ==
  /\ prop \in Proposals
  /\ g_state = ZeroedGateState
  /\ verdict = VerdictOf("OK", "DENY", 0)
  /\ result = [sequence_id |-> 0, text |-> ""]
  /\ last_seq = 0 /\ active_seq = 0 /\ active_mask = {}
  /\ py_verdict = VerdictOf("OK", "DENY", 0)
  /\ py_result = [sequence_id |-> 0, text |-> ""]

-----------------------------------------------------------------------------
(* The device *)

Served(tool) ==
  CASE tool = "READ_FILE"  -> "EXEC_READ_OK"
    [] tool = "WRITE_FILE" -> "EXEC_WRITE_OK"
    [] OTHER               -> ""

DeviceRefuses(p) ==
  /\ ProposalStatus(g_state, p) # "OK"
  /\ verdict' = VerdictOf(ProposalStatus(g_state, p), "DENY", p.sequence_id)
  /\ UNCHANGED <<g_state, result>>

DeviceDecides(p) ==
  /\ ProposalStatus(g_state, p) = "OK"
  /\ \E n \in Nonces : g_state' = Commit(g_state, p, n)
  /\ verdict' = VerdictOf(AcceptedStatus(p), Policy[p.tool_id].decision,
                          p.sequence_id)
  /\ result' = IF Policy[p.tool_id].decision = "ALLOW"
                 THEN [sequence_id |-> p.sequence_id, text |-> Served(p.tool_id)]
                 ELSE result

\* The number in the verdict is still the one of the last proposal, and the
\* tool that runs is the one whose frame lies in the dataport.
DeviceDenies(a) ==
  /\ ApprovalStatus(g_state, a) # "OK"
  /\ verdict' = VerdictOf(ApprovalStatus(g_state, a), "DENY",
                          verdict.sequence_id)
  /\ UNCHANGED <<g_state, result>>

DeviceReleases(a) ==
  /\ ApprovalStatus(g_state, a) = "OK"
  /\ g_state' = CloseChallenge(g_state)
  /\ verdict' = VerdictOf("OK", "ALLOW", verdict.sequence_id)
  /\ result' = [sequence_id |-> prop.sequence_id, text |-> Served(prop.tool_id)]

-----------------------------------------------------------------------------
(* The emulation *)

PyStatus(p) ==
  IF p.magic # "SOVP" THEN "ERR_MAGIC"
  ELSE IF p.version # SOVP_VERSION THEN "ERR_VERSION"
  ELSE IF p.sequence_id <= last_seq THEN "ERR_SEQUENCE"
  ELSE IF p.arg_len > 992 THEN "ERR_ARGS_LEN"
  ELSE IF p.extent > p.arg_len THEN "ERR_CANONICAL"
  ELSE IF p.tool_id \notin DOMAIN PY_POLICY THEN "ERR_UNKNOWN_TOOL"
  ELSE IF \/ p.arg_len < PY_POLICY[p.tool_id].min_arg_len
          \/ p.arg_len > PY_POLICY[p.tool_id].max_arg_len THEN "ERR_ARGS_LEN"
  ELSE "OK"

PyRefuses(p) ==
  /\ PyStatus(p) # "OK"
  /\ py_verdict' = VerdictOf(PyStatus(p), "DENY", p.sequence_id)
  /\ UNCHANGED <<last_seq, active_seq, active_mask, py_result>>

\* Mutant: an allowed call drops the challenge that is pending.
PyAllowsDropsChallenge(p) ==
  /\ PyStatus(p) = "OK" /\ PY_POLICY[p.tool_id].decision = "ALLOW"
  /\ last_seq' = p.sequence_id /\ active_seq' = 0
  /\ py_verdict' = VerdictOf("OK", "ALLOW", p.sequence_id)
  /\ py_result' = [sequence_id |-> p.sequence_id, text |-> "EXEC_READ_OK"]
  /\ UNCHANGED active_mask

PyAllows(p) ==
  /\ PyStatus(p) = "OK" /\ PY_POLICY[p.tool_id].decision = "ALLOW"
  /\ last_seq' = p.sequence_id
  /\ py_verdict' = VerdictOf("OK", "ALLOW", p.sequence_id)
  /\ py_result' = [sequence_id |-> p.sequence_id, text |-> "EXEC_READ_OK"]
  /\ UNCHANGED <<active_seq, active_mask>>

\* Mutant: the number after the proposal's is spent.
PyHoldsSpendsNext(p) ==
  /\ PyStatus(p) = "OK" /\ PY_POLICY[p.tool_id].decision = "QUORUM"
  /\ last_seq' = p.sequence_id + 1
  /\ active_seq' = p.sequence_id
  /\ active_mask' = PY_POLICY[p.tool_id].required_mask
  /\ py_verdict' = VerdictOf("PENDING_APPROVAL", "QUORUM", p.sequence_id)
  /\ UNCHANGED py_result

PyHolds(p) ==
  /\ PyStatus(p) = "OK" /\ PY_POLICY[p.tool_id].decision = "QUORUM"
  /\ last_seq' = p.sequence_id
  /\ active_seq' = p.sequence_id
  /\ active_mask' = PY_POLICY[p.tool_id].required_mask
  /\ py_verdict' = VerdictOf("PENDING_APPROVAL", "QUORUM", p.sequence_id)
  /\ UNCHANGED py_result

PyApprovalStatus(a) ==
  IF a.sequence_id # active_seq \/ active_seq = 0 THEN "ERR_STALE"
  ELSE IF \/ Cardinality(a.signer_bitmap) # a.quorum_count
          \/ ~(active_mask \subseteq a.signer_bitmap) THEN "ERR_QUORUM_COUNT"
  ELSE "OK"

PyDenies(a) ==
  /\ PyApprovalStatus(a) # "OK"
  /\ py_verdict' = VerdictOf(PyApprovalStatus(a), "DENY", a.sequence_id)
  /\ UNCHANGED <<last_seq, active_seq, active_mask, py_result>>

\* Mutant: the challenge stays open after the quorum that satisfied it.
PyReleasesLeavesOpen(a) ==
  /\ PyApprovalStatus(a) = "OK"
  /\ py_verdict' = VerdictOf("OK", "ALLOW", a.sequence_id)
  /\ py_result' = [sequence_id |-> a.sequence_id, text |-> "EXEC_WRITE_OK"]
  /\ UNCHANGED <<last_seq, active_seq, active_mask>>

PyReleases(a) ==
  /\ PyApprovalStatus(a) = "OK"
  /\ active_seq' = 0
  /\ py_verdict' = VerdictOf("OK", "ALLOW", a.sequence_id)
  /\ py_result' = [sequence_id |-> a.sequence_id, text |-> "EXEC_WRITE_OK"]
  /\ UNCHANGED <<last_seq, active_mask>>

-----------------------------------------------------------------------------
(* Both *)

\* write_proposal clears the approval magic: both take the frame for a proposal.
Propose(p) ==
  /\ prop' = p
  /\ DeviceRefuses(p) \/ DeviceDecides(p)
  /\ PyRefuses(p) \/ PyAllows(p) \/ PyHolds(p)

Approve(a) ==
  /\ DeviceDenies(a) \/ DeviceReleases(a)
  /\ PyDenies(a) \/ PyReleases(a)
  /\ UNCHANGED prop

Next == (\E p \in Proposals : Propose(p)) \/ (\E a \in Approvals : Approve(a))

Spec == Init /\ [][Next]_vars

-----------------------------------------------------------------------------
(* Properties *)

\* Both sides keep to the fields of the frames and of the gate's state.
TypeOK ==
  /\ prop \in ProposalFrame
  /\ g_state \in GateState
  /\ verdict \in Verdict /\ py_verdict \in Verdict
  /\ result \in Result /\ py_result \in Result
  /\ last_seq \in Seqs /\ active_seq \in Seqs
  /\ active_mask \in SUBSET SignerBits

\* guest_uio_transport.py:96-180 against toolgate.c:41-149: whatever was proposed
\* and approved before, in any order, the agent is given the same status and
\* decision by the emulation as by the device.  The results are not compared: the
\* emulation has two fixed texts and no failure of an executor.
StatusesAgree ==
  /\ py_verdict.status_code = verdict.status_code
  /\ py_verdict.decision = verdict.decision

\* The same code: the emulation knows the watermark and the pending challenge of
\* the gate, without the flag that says whether there is one.
EmulationTracksGate ==
  /\ last_seq = g_state.last_seen_sequence_id
  /\ IF g_state.has_active_challenge
       THEN /\ active_seq = g_state.active_challenge_seq
            /\ active_mask = g_state.active_required_mask
            /\ active_seq # 0
       ELSE active_seq = 0
=============================================================================
