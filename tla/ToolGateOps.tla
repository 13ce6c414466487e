---------------------------- MODULE ToolGateOps ----------------------------
(***************************************************************************)
(* The functions of src/toolgate.c as operators over the gate's state      *)
(* record.  Each operator gives the value the C function computes; the     *)
(* modules that extend this one decide when a function runs and what else  *)
(* may happen while it does.                                               *)
(***************************************************************************)
EXTENDS SovereignProposal

CONSTANTS Policy,       \* the table lookup_policy searches
          MockCrypto    \* TRUE for the build linked with src/toolgate_mock.c

ASSUME PolicyAssumption ==
  /\ DOMAIN Policy \subseteq ToolIds
  /\ Policy \in [DOMAIN Policy -> PolicyRow]
  /\ \A t \in DOMAIN Policy : Policy[t].required_mask \subseteq Slots
ASSUME CryptoAssumption == MockCrypto \in BOOLEAN

\* gate_state_t
GateState ==
  [last_seen_sequence_id : Seqs, has_active_challenge : BOOLEAN,
   active_challenge_seq : Seqs, active_required_mask : SUBSET SignerBits,
   active_challenge : Challenge \cup {NoChallenge}]

\* toolgate_init
ZeroedGateState ==
  [last_seen_sequence_id |-> 0, has_active_challenge |-> FALSE,
   active_challenge_seq |-> 0, active_required_mask |-> {},
   active_challenge |-> NoChallenge]

\* Mutant: the sequence check lets a repeated number through.
HeaderStatusEqualSeqPasses(g, p) ==
  IF p.magic # "SOVP" THEN "ERR_MAGIC"
  ELSE IF p.version # SOVP_VERSION THEN "ERR_VERSION"
  ELSE IF p.sequence_id < g.last_seen_sequence_id THEN "ERR_SEQUENCE"
  ELSE IF p.arg_len > SOVP_MAX_ARGS THEN "ERR_ARGS_LEN"
  ELSE "OK"

\* The checks of toolgate_handle_proposal that read the header of the frame.
HeaderStatus(g, p) ==
  IF p.magic # "SOVP" THEN "ERR_MAGIC"
  ELSE IF p.version # SOVP_VERSION THEN "ERR_VERSION"
  ELSE IF p.sequence_id <= g.last_seen_sequence_id THEN "ERR_SEQUENCE"
  ELSE IF p.arg_len > SOVP_MAX_ARGS THEN "ERR_ARGS_LEN"
  ELSE "OK"

\* The padding scan, lookup_policy and the length bounds of the policy row.
BodyStatus(p) ==
  IF p.extent > p.arg_len THEN "ERR_CANONICAL"
  ELSE IF p.tool_id \notin DOMAIN Policy THEN "ERR_UNKNOWN_TOOL"
  ELSE IF \/ p.arg_len < Policy[p.tool_id].min_arg_len
          \/ p.arg_len > Policy[p.tool_id].max_arg_len THEN "ERR_ARGS_LEN"
  ELSE "OK"

ProposalStatus(g, p) ==
  IF HeaderStatus(g, p) # "OK" THEN HeaderStatus(g, p) ELSE BodyStatus(p)

\* Mutant: the number after the proposal's is spent with it.
CommitSpendsNext(g, p, nonce) ==
  [g EXCEPT !.last_seen_sequence_id = p.sequence_id + 1,
            !.has_active_challenge = Policy[p.tool_id].decision = "QUORUM",
            !.active_challenge_seq = p.sequence_id,
            !.active_required_mask = Policy[p.tool_id].required_mask,
            !.active_challenge = [prop |-> p, nonce |-> nonce]]

\* Mutant: the number is not spent on the quorum path.
CommitForgetsSequence(g, p, nonce) ==
  IF Policy[p.tool_id].decision = "QUORUM"
    THEN [g EXCEPT !.has_active_challenge = TRUE,
                   !.active_challenge_seq = p.sequence_id,
                   !.active_required_mask = Policy[p.tool_id].required_mask,
                   !.active_challenge = [prop |-> p, nonce |-> nonce]]
    ELSE [g EXCEPT !.last_seen_sequence_id = p.sequence_id]

\* Mutant: a pending challenge keeps its place, only its number is renewed.
CommitKeepsOldChallenge(g, p, nonce) ==
  IF Policy[p.tool_id].decision = "QUORUM"
    THEN [last_seen_sequence_id |-> p.sequence_id,
          has_active_challenge  |-> TRUE,
          active_challenge_seq  |-> p.sequence_id,
          active_required_mask  |-> Policy[p.tool_id].required_mask,
          active_challenge      |-> IF g.has_active_challenge
                                      THEN g.active_challenge
                                      ELSE [prop |-> p, nonce |-> nonce]]
    ELSE [g EXCEPT !.last_seen_sequence_id = p.sequence_id]

\* What an accepted proposal does to the gate state: the sequence number is
\* spent, and a QUORUM tool replaces whatever challenge was active.
Commit(g, p, nonce) ==
  IF Policy[p.tool_id].decision = "QUORUM"
    THEN [last_seen_sequence_id |-> p.sequence_id,
          has_active_challenge  |-> TRUE,
          active_challenge_seq  |-> p.sequence_id,
          active_required_mask  |-> Policy[p.tool_id].required_mask,
          active_challenge      |-> [prop |-> p, nonce |-> nonce]]
    ELSE [g EXCEPT !.last_seen_sequence_id = p.sequence_id]

\* Status of the verdict on an accepted proposal; its decision is the policy's.
AcceptedStatus(p) ==
  IF Policy[p.tool_id].decision = "QUORUM" THEN "PENDING_APPROVAL" ELSE "OK"

\* ed25519_verify over the active challenge; the mock build accepts anything.
SignatureVerifies(signed, challenge) == MockCrypto \/ signed = challenge

\* The witness slots that the verification loop visits.
CountedSlots(a) == {i \in Slots : i < a.quorum_count}

\* Mutant: the bitmap is counted but not held against the required mask.
ApprovalStatusSkipsMask(g, a) ==
  IF a.magic # "SOVQ" THEN "ERR_MAGIC"
  ELSE IF a.version # SOVP_VERSION THEN "ERR_VERSION"
  ELSE IF ~g.has_active_challenge THEN "ERR_STALE"
  ELSE IF a.sequence_id # g.active_challenge_seq THEN "ERR_STALE"
  ELSE IF Cardinality(a.signer_bitmap) # a.quorum_count THEN "ERR_QUORUM_COUNT"
  ELSE IF \E i \in CountedSlots(a) :
            ~SignatureVerifies(a.witnesses[i], g.active_challenge)
    THEN "ERR_SIG_FAIL"
  ELSE "OK"

\* toolgate_verify_approval: the status it returns ...
ApprovalStatus(g, a) ==
  IF a.magic # "SOVQ" THEN "ERR_MAGIC"
  ELSE IF a.version # SOVP_VERSION THEN "ERR_VERSION"
  ELSE IF ~g.has_active_challenge THEN "ERR_STALE"
  ELSE IF a.sequence_id # g.active_challenge_seq THEN "ERR_STALE"
  ELSE IF Cardinality(a.signer_bitmap) # a.quorum_count THEN "ERR_QUORUM_COUNT"
  ELSE IF ~(g.active_required_mask \subseteq a.signer_bitmap)
    THEN "ERR_QUORUM_COUNT"
  ELSE IF \E i \in CountedSlots(a) :
            ~SignatureVerifies(a.witnesses[i], g.active_challenge)
    THEN "ERR_SIG_FAIL"
  ELSE "OK"

\* Mutant: the challenge stays open after the quorum that satisfied it.
CloseChallengeLeavesOpen(g) == g

\* ... and the state it leaves: only a satisfied quorum closes the challenge.
CloseChallenge(g) == [g EXCEPT !.has_active_challenge = FALSE]
=============================================================================
