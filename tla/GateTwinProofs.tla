--------------------------- MODULE GateTwinProofs ---------------------------
(***************************************************************************)
(* Proofs about GateTwin, for every range of sequence numbers and every    *)
(* set of proposals and approvals the guest's functions can write.         *)
(*                                                                         *)
(* EmulationTracksGate is the simulation relation: in related states both  *)
(* give the same status to the same frame, and the steps they then take    *)
(* end in related states.                                                  *)
(***************************************************************************)
EXTENDS GateTwin, TLAPS

\* The two tables have the same rows, and an ALLOW row is not a QUORUM row.
LEMMA Tables ==
  /\ DOMAIN Policy = DOMAIN PY_POLICY
  /\ \A t \in DOMAIN Policy :
       /\ Policy[t] = PY_POLICY[t]
       /\ Policy[t].decision \in {"ALLOW", "QUORUM"}
       /\ Policy[t].required_mask \subseteq SignerBits
<1>1. Policy = PY_POLICY
  BY TableAssumption
<1>2. \A t \in PolicyTools : PY_POLICY[t].decision \in {"ALLOW", "QUORUM"}
  BY DEF PY_POLICY, PolicyTools
<1>3. DOMAIN PY_POLICY = PolicyTools
  BY DEF PY_POLICY
<1>4. \A t \in PolicyTools : PY_POLICY[t].required_mask \subseteq SignerBits
  BY DEF PY_POLICY, PolicyTools, SignerBits
<1> QED
  BY <1>1, <1>2, <1>3, <1>4

\* The number and the tool of a proposal frame.
LEMMA ProposalFields ==
  ASSUME NEW p \in ProposalFrame
  PROVE  p.sequence_id \in Seqs /\ p.tool_id \in ToolIds
BY DEF ProposalFrame

\* What the guest writes has the fields of its struct.
LEMMA Frames ==
  /\ \A p \in Proposals : /\ p \in ProposalFrame
                          /\ p.sequence_id \in Seqs
                          /\ p.tool_id \in ToolIds
  /\ \A a \in Approvals : /\ a.magic = "SOVQ" /\ a.version = SOVP_VERSION
                          /\ a.sequence_id \in Seqs
<1>1. ASSUME NEW p \in Proposals
      PROVE  p \in ProposalFrame /\ p.sequence_id \in Seqs /\ p.tool_id \in ToolIds
  <2>1. p \in ProposalFrame
    BY FrameAssumption
  <2> QED
    BY <2>1, ProposalFields
<1>2. ASSUME NEW a \in Approvals
      PROVE  a.magic = "SOVQ" /\ a.version = SOVP_VERSION /\ a.sequence_id \in Seqs
  <2>1. /\ a \in ApprovalFrame
        /\ a.magic = "SOVQ" /\ a.version = SOVP_VERSION
    BY FrameAssumption
  <2> QED
    BY <2>1 DEF ApprovalFrame
<1> QED
  BY <1>1, <1>2

\* In related states the checks of ring_doorbell are those of
\* toolgate_handle_proposal.
LEMMA SameProposalStatus ==
  ASSUME NEW p \in Proposals, EmulationTracksGate
  PROVE  PyStatus(p) = ProposalStatus(g_state, p)
<1>1. last_seq = g_state.last_seen_sequence_id
  BY DEF EmulationTracksGate
<1>2. \A t : t \in DOMAIN Policy <=> t \in DOMAIN PY_POLICY
  BY Tables
<1>3. p.tool_id \in DOMAIN Policy => Policy[p.tool_id] = PY_POLICY[p.tool_id]
  BY Tables
<1> QED
  BY <1>1, <1>2, <1>3
  DEF PyStatus, ProposalStatus, HeaderStatus, BodyStatus, SOVP_MAX_ARGS

\* ... and its checks of an approval those of toolgate_verify_approval, where
\* every signature verifies.
LEMMA SameApprovalStatus ==
  ASSUME NEW a \in Approvals, EmulationTracksGate
  PROVE  PyApprovalStatus(a) = ApprovalStatus(g_state, a)
<1>1. a.magic = "SOVQ" /\ a.version = SOVP_VERSION
  BY Frames
<1>2. ~\E i \in CountedSlots(a) :
         ~SignatureVerifies(a.witnesses[i], g_state.active_challenge)
  BY BuildAssumption DEF SignatureVerifies
<1>3. CASE g_state.has_active_challenge
  <2>1. /\ active_seq = g_state.active_challenge_seq
        /\ active_mask = g_state.active_required_mask
        /\ active_seq # 0
    BY <1>3 DEF EmulationTracksGate
  <2> QED
    BY <1>1, <1>2, <1>3, <2>1 DEF PyApprovalStatus, ApprovalStatus
<1>4. CASE ~g_state.has_active_challenge
  <2>1. active_seq = 0
    BY <1>4 DEF EmulationTracksGate
  <2> QED
    BY <1>1, <1>4, <2>1 DEF PyApprovalStatus, ApprovalStatus
<1> QED
  BY <1>3, <1>4

\* A proposal that passes the checks has a row and a number above the watermark.
LEMMA Accepted ==
  ASSUME NEW p \in Proposals, PyStatus(p) = "OK", TypeOK
  PROVE  /\ p.tool_id \in DOMAIN Policy
         /\ p.sequence_id \in Seqs /\ p.sequence_id # 0
<1>1. p.tool_id \in DOMAIN Policy /\ ~(p.sequence_id <= last_seq)
  BY Tables DEF PyStatus
<1>2. p.sequence_id \in Nat /\ last_seq \in Nat
  BY Frames, MaxSeqAssumption DEF TypeOK, Seqs
<1> QED
  BY <1>1, <1>2, Frames

-----------------------------------------------------------------------------
(* The types of the parts a step writes *)

\* Every check answers with a status of the contract.
LEMMA StatusTypes ==
  /\ \A p : PyStatus(p) \in Statuses /\ ProposalStatus(g_state, p) \in Statuses
  /\ \A a : /\ PyApprovalStatus(a) \in Statuses
            /\ ApprovalStatus(g_state, a) \in Statuses
<1>1. \A p : PyStatus(p) \in Statuses
  BY DEF PyStatus, Statuses
<1>2. \A p : ProposalStatus(g_state, p) \in Statuses
  BY DEF ProposalStatus, HeaderStatus, BodyStatus, Statuses
<1>3. \A a : PyApprovalStatus(a) \in Statuses
  BY DEF PyApprovalStatus, Statuses
<1>4. \A a : ApprovalStatus(g_state, a) \in Statuses
  BY DEF ApprovalStatus, Statuses
<1> QED
  BY <1>1, <1>2, <1>3, <1>4

\* A verdict of the right parts is a verdict.
LEMMA VerdictType ==
  ASSUME NEW status \in Statuses, NEW decision \in Decisions, NEW seq \in Seqs
  PROVE  VerdictOf(status, decision, seq) \in Verdict
BY DEF VerdictOf, Verdict

\* The decisions by name.
LEMMA DecisionTypes == {"DENY", "ALLOW", "QUORUM"} = Decisions
BY DEF Decisions

\* A proposal changes what it has to, and nothing else changes.
LEMMA CommitFields ==
  ASSUME NEW p \in Proposals, NEW n \in Nonces, TypeOK,
         p.tool_id \in DOMAIN Policy
  PROVE  /\ Commit(g_state, p, n) \in GateState
         /\ Commit(g_state, p, n).last_seen_sequence_id = p.sequence_id
         /\ Policy[p.tool_id].decision = "QUORUM" =>
              /\ Commit(g_state, p, n).has_active_challenge
              /\ Commit(g_state, p, n).active_challenge_seq = p.sequence_id
              /\ Commit(g_state, p, n).active_required_mask
                   = Policy[p.tool_id].required_mask
         /\ Policy[p.tool_id].decision # "QUORUM" =>
              /\ Commit(g_state, p, n).has_active_challenge
                   = g_state.has_active_challenge
              /\ Commit(g_state, p, n).active_challenge_seq
                   = g_state.active_challenge_seq
              /\ Commit(g_state, p, n).active_required_mask
                   = g_state.active_required_mask
<1>1. p \in ProposalFrame /\ p.sequence_id \in Seqs
  BY Frames
<1>2. [prop |-> p, nonce |-> n] \in Challenge
  BY <1>1 DEF Challenge
<1>3. Policy[p.tool_id].required_mask \in SUBSET SignerBits
  BY Tables
<1>4. g_state \in GateState
  BY DEF TypeOK
<1> QED
  BY <1>1, <1>2, <1>3, <1>4 DEF Commit, GateState

-----------------------------------------------------------------------------
(* The steps *)

\* The inductive invariant: types, and related states with equal answers.
TwinInv == TypeOK /\ StatusesAgree /\ EmulationTracksGate

\* Both sides start related.
LEMMA InitTwin == Init => TwinInv
<1> SUFFICES ASSUME Init PROVE TwinInv
  OBVIOUS
<1>1. 0 \in Seqs
  BY MaxSeqAssumption DEF Seqs
<1>2. g_state \in GateState
  BY <1>1 DEF Init, ZeroedGateState, GateState
<1>3. verdict \in Verdict /\ py_verdict \in Verdict
  BY <1>1 DEF Init, Verdict, VerdictOf, Statuses, Decisions
<1>4. result \in Result /\ py_result \in Result
  BY <1>1 DEF Init, Result, Texts
<1>5. prop \in ProposalFrame
  BY Frames DEF Init
<1>6. TypeOK
  BY <1>1, <1>2, <1>3, <1>4, <1>5 DEF Init, TypeOK
<1>7. StatusesAgree /\ EmulationTracksGate
  BY DEF Init, StatusesAgree, EmulationTracksGate, VerdictOf, ZeroedGateState
<1> QED
  BY <1>6, <1>7 DEF TwinInv

\* A proposal takes related states to related states.
LEMMA ProposeTwin ==
  ASSUME TwinInv, NEW p \in Proposals, Propose(p)
  PROVE  TwinInv'
<1> USE DEF TwinInv
<1>1. PyStatus(p) = ProposalStatus(g_state, p)
  BY SameProposalStatus
<1>2. p \in ProposalFrame /\ p.sequence_id \in Seqs /\ prop' = p
  BY Frames DEF Propose
<1>3. CASE PyStatus(p) # "OK"
  <2>1. DeviceRefuses(p) /\ PyRefuses(p)
    BY <1>1, <1>3 DEF Propose, DeviceDecides, PyAllows, PyHolds
  <2>2. verdict' \in Verdict /\ py_verdict' \in Verdict
    BY <2>1, <1>2, StatusTypes, VerdictType, DecisionTypes
    DEF DeviceRefuses, PyRefuses
  <2>3. TypeOK'
    BY <1>2, <2>1, <2>2 DEF TypeOK, DeviceRefuses, PyRefuses
  <2>4. StatusesAgree'
    BY <1>1, <2>1 DEF StatusesAgree, DeviceRefuses, PyRefuses, VerdictOf
  <2>5. EmulationTracksGate'
    BY <2>1 DEF EmulationTracksGate, DeviceRefuses, PyRefuses
  <2> QED
    BY <2>3, <2>4, <2>5
<1>4. CASE PyStatus(p) = "OK"
  <2>1. DeviceDecides(p) /\ (PyAllows(p) \/ PyHolds(p))
    BY <1>1, <1>4 DEF Propose, DeviceRefuses, PyRefuses
  <2>2. /\ p.tool_id \in DOMAIN Policy /\ p.sequence_id # 0
        /\ Policy[p.tool_id] = PY_POLICY[p.tool_id]
        /\ Policy[p.tool_id].decision \in {"ALLOW", "QUORUM"}
        /\ Policy[p.tool_id].required_mask \subseteq SignerBits
    BY <1>4, Accepted, Tables
  <2>3. PICK n \in Nonces : g_state' = Commit(g_state, p, n)
    BY <2>1 DEF DeviceDecides
  <2>4. g_state' \in GateState /\ g_state'.last_seen_sequence_id = p.sequence_id
    BY <2>2, <2>3, CommitFields
  <2>5. verdict' \in Verdict /\ result' \in Result
    <3>1. AcceptedStatus(p) \in Statuses
      BY DEF AcceptedStatus, Statuses
    <3>2. Served(p.tool_id) \in Texts
      BY DEF Served, Texts
    <3>3. verdict' \in Verdict
      BY <1>2, <2>1, <2>2, <3>1, VerdictType, DecisionTypes DEF DeviceDecides
    <3>4. result' \in Result
      BY <1>2, <2>1, <3>2 DEF DeviceDecides, Result, TypeOK
    <3> QED
      BY <3>3, <3>4
  <2>6. CASE PyAllows(p)
    <3>1. Policy[p.tool_id].decision = "ALLOW"
      BY <2>2, <2>6 DEF PyAllows
    <3>2. /\ g_state'.has_active_challenge = g_state.has_active_challenge
          /\ g_state'.active_challenge_seq = g_state.active_challenge_seq
          /\ g_state'.active_required_mask = g_state.active_required_mask
      BY <2>2, <2>3, <3>1, CommitFields
    <3>3. py_verdict' \in Verdict /\ py_result' \in Result
      BY <1>2, <2>6
      DEF PyAllows, Verdict, VerdictOf, Statuses, Decisions, Result, Texts
    <3>4. TypeOK'
      BY <1>2, <2>4, <2>5, <2>6, <3>3 DEF TypeOK, PyAllows
    <3>5. StatusesAgree'
      BY <2>1, <2>6, <3>1
      DEF StatusesAgree, DeviceDecides, PyAllows, VerdictOf, AcceptedStatus
    <3>6. EmulationTracksGate'
      BY <2>4, <2>6, <3>2 DEF EmulationTracksGate, PyAllows
    <3> QED
      BY <3>4, <3>5, <3>6
  <2>7. CASE PyHolds(p)
    <3>1. Policy[p.tool_id].decision = "QUORUM"
      BY <2>2, <2>7 DEF PyHolds
    <3>2. /\ g_state'.has_active_challenge
          /\ g_state'.active_challenge_seq = p.sequence_id
          /\ g_state'.active_required_mask = Policy[p.tool_id].required_mask
      BY <2>2, <2>3, <3>1, CommitFields
    <3>3. py_verdict' \in Verdict
      BY <1>2, <2>7 DEF PyHolds, Verdict, VerdictOf, Statuses, Decisions
    <3>4. TypeOK'
      BY <1>2, <2>2, <2>4, <2>5, <2>7, <3>3 DEF TypeOK, PyHolds
    <3>5. StatusesAgree'
      BY <2>1, <2>7, <3>1
      DEF StatusesAgree, DeviceDecides, PyHolds, VerdictOf, AcceptedStatus
    <3>6. EmulationTracksGate'
      BY <2>2, <2>4, <2>7, <3>2 DEF EmulationTracksGate, PyHolds
    <3> QED
      BY <3>4, <3>5, <3>6
  <2> QED
    BY <2>1, <2>6, <2>7
<1> QED
  BY <1>3, <1>4

\* So does an approval.
LEMMA ApproveTwin ==
  ASSUME TwinInv, NEW a \in Approvals, Approve(a)
  PROVE  TwinInv'
<1> USE DEF TwinInv
<1>1. PyApprovalStatus(a) = ApprovalStatus(g_state, a)
  BY SameApprovalStatus
<1>2. a.sequence_id \in Seqs /\ prop' = prop /\ prop \in ProposalFrame
  BY Frames DEF Approve, TypeOK
<1>3. verdict.sequence_id \in Seqs /\ prop.sequence_id \in Seqs
  <2>1. prop.sequence_id \in Seqs
    BY <1>2, ProposalFields
  <2>2. verdict \in Verdict
    BY DEF TypeOK
  <2>3. verdict.sequence_id \in Seqs
    BY <2>2 DEF Verdict
  <2> QED
    BY <2>1, <2>3
<1>4. CASE PyApprovalStatus(a) # "OK"
  <2>1. DeviceDenies(a) /\ PyDenies(a)
    BY <1>1, <1>4 DEF Approve, DeviceReleases, PyReleases
  <2>2. verdict' \in Verdict /\ py_verdict' \in Verdict
    BY <2>1, <1>2, <1>3, StatusTypes, VerdictType, DecisionTypes
    DEF DeviceDenies, PyDenies
  <2>3. TypeOK'
    BY <1>2, <2>1, <2>2 DEF TypeOK, DeviceDenies, PyDenies
  <2>4. StatusesAgree'
    BY <1>1, <2>1 DEF StatusesAgree, DeviceDenies, PyDenies, VerdictOf
  <2>5. EmulationTracksGate'
    BY <2>1 DEF EmulationTracksGate, DeviceDenies, PyDenies
  <2> QED
    BY <2>3, <2>4, <2>5
<1>5. CASE PyApprovalStatus(a) = "OK"
  <2>1. DeviceReleases(a) /\ PyReleases(a)
    BY <1>1, <1>5 DEF Approve, DeviceDenies, PyDenies
  <2>2. /\ g_state' \in GateState
        /\ ~g_state'.has_active_challenge
        /\ g_state'.last_seen_sequence_id = g_state.last_seen_sequence_id
    BY <2>1 DEF DeviceReleases, CloseChallenge, TypeOK, GateState
  <2>3. verdict' \in Verdict /\ py_verdict' \in Verdict
    BY <1>2, <1>3, <2>1
    DEF DeviceReleases, PyReleases, Verdict, VerdictOf, Statuses, Decisions
  <2>4. result' \in Result /\ py_result' \in Result
    <3>1. Served(prop.tool_id) \in Texts
      BY DEF Served, Texts
    <3> QED
      BY <1>2, <1>3, <2>1, <3>1 DEF DeviceReleases, PyReleases, Result, Texts
  <2>5. TypeOK'
    <3>1. 0 \in Seqs
      BY MaxSeqAssumption DEF Seqs
    <3> QED
      BY <1>2, <2>1, <2>2, <2>3, <2>4, <3>1 DEF TypeOK, PyReleases
  <2>6. StatusesAgree'
    BY <2>1 DEF StatusesAgree, DeviceReleases, PyReleases, VerdictOf
  <2>7. EmulationTracksGate'
    BY <2>1, <2>2 DEF EmulationTracksGate, PyReleases
  <2> QED
    BY <2>5, <2>6, <2>7
<1> QED
  BY <1>4, <1>5

\* Every step keeps the relation.
LEMMA NextTwin == TwinInv /\ [Next]_vars => TwinInv'
<1> SUFFICES ASSUME TwinInv, [Next]_vars PROVE TwinInv'
  OBVIOUS
<1>1. CASE Next
  BY <1>1, ProposeTwin, ApproveTwin DEF Next
<1>2. CASE UNCHANGED vars
  BY <1>2 DEF vars, device, emulation, TwinInv, TypeOK, StatusesAgree,
              EmulationTracksGate
<1> QED
  BY <1>1, <1>2

-----------------------------------------------------------------------------
(* The theorems *)

\* Gate and emulation stay related, with every variable in its type, whatever
\* the guest proposes and approves.
THEOREM TwinInvariance == Spec => []TwinInv
BY InitTwin, NextTwin, PTL DEF Spec

\* Both sides keep their types (SovereignGateUIO and g_state), whatever the guest
\* proposes and approves.
THEOREM TwinTypes == Spec => []TypeOK
<1>1. TwinInv => TypeOK
  BY DEF TwinInv
<1> QED
  BY <1>1, TwinInvariance, PTL

\* The agent is given the same status and decision by both, after any history
\* (ring_doorbell, guest_uio_transport.py:96-180, against toolgate.c:41-149).
THEOREM SameAnswers == Spec => []StatusesAgree
<1>1. TwinInv => StatusesAgree
  BY DEF TwinInv
<1> QED
  BY <1>1, TwinInvariance, PTL

\* The emulation's last_seq, active_seq and active_mask are the gate's watermark
\* and pending challenge, after any history.
THEOREM EmulationIsSimulation == Spec => []EmulationTracksGate
<1>1. TwinInv => EmulationTracksGate
  BY DEF TwinInv
<1> QED
  BY <1>1, TwinInvariance, PTL
=============================================================================
