------------------------------ MODULE ToolGate ------------------------------
(***************************************************************************)
(* The gate of src/toolgate.c as a state machine: its static g_state under *)
(* any sequence of calls to toolgate_handle_proposal,                      *)
(* toolgate_verify_approval and, at each start of the component,           *)
(* toolgate_init.  seL4 runs the component single-threaded, so a call is   *)
(* one step here; ToolGateSystem splits the calls where shared memory is   *)
(* read.                                                                   *)
(*                                                                         *)
(* A refused call leaves no trace in the gate; the status it returns, and  *)
(* where the verdict goes, is the subject of ToolGateSystem.  issued and   *)
(* grants are history: the challenges handed out and the requests let      *)
(* through, in order, since the first start.                               *)
(***************************************************************************)
EXTENDS ToolGateOps, Sequences

CONSTANTS Proposals,    \* proposal frames presented to the gate
          Bitmaps,      \* signer_bitmap values presented
          Counts,       \* quorum_count values presented
          SignedSets,   \* sets of witness slots with a genuine signature
          MaxBoots      \* starts of the component (bound)

ASSUME InputAssumption ==
  /\ Proposals \subseteq ProposalFrame
  /\ Bitmaps \subseteq SUBSET SignerBits
  /\ Counts \subseteq 0 .. 255
  /\ SignedSets \subseteq SUBSET Slots
ASSUME BootAssumption == MaxBoots \in Nat \ {0}

VARIABLES g_state, boot, issued, grants

vars == <<g_state, boot, issued, grants>>

Issue == [boot : 1 .. MaxBoots, challenge : Challenge]

Via == {"policy", "quorum"}

\* signed is the set of slots whose signature covers the active challenge.
GrantRecord == [boot : 1 .. MaxBoots, seq : Seqs, tool : ToolIds, via : Via,
                challenge : Challenge \cup {NoChallenge},
                bitmap : SUBSET SignerBits, signed : SUBSET Slots]

Init ==
  /\ g_state = ZeroedGateState
  /\ boot = 1
  /\ issued = <<>>
  /\ grants = <<>>

-----------------------------------------------------------------------------
(* toolgate_handle_proposal *)

RefuseProposal(p) ==
  /\ ProposalStatus(g_state, p) # "OK"
  /\ UNCHANGED vars

PolicyGrant(p) ==
  [boot |-> boot, seq |-> p.sequence_id, tool |-> p.tool_id, via |-> "policy",
   challenge |-> NoChallenge, bitmap |-> {}, signed |-> {}]

\* A tool the policy row settles: ALLOW lets it through, DENY does not.
SettleProposal(p) ==
  /\ ProposalStatus(g_state, p) = "OK"
  /\ Policy[p.tool_id].decision # "QUORUM"
  /\ g_state' = Commit(g_state, p, NoChallenge)
  /\ grants' = IF Policy[p.tool_id].decision = "ALLOW"
                 THEN Append(grants, PolicyGrant(p)) ELSE grants
  /\ UNCHANGED <<boot, issued>>

\* gate_get_random_nonce never repeats a value, across restarts too; the mock
\* build returns a constant.
FreshNonces ==
  IF MockCrypto
    THEN Nonces
    ELSE Nonces \ {issued[i].challenge.nonce : i \in DOMAIN issued}

HoldProposal(p) ==
  /\ ProposalStatus(g_state, p) = "OK"
  /\ Policy[p.tool_id].decision = "QUORUM"
  /\ \E n \in FreshNonces :
       /\ g_state' = Commit(g_state, p, n)
       /\ issued' = Append(issued, [boot |-> boot,
                                    challenge |-> [prop |-> p, nonce |-> n]])
  /\ UNCHANGED <<boot, grants>>

-----------------------------------------------------------------------------
(* toolgate_verify_approval *)

\* Signatures exist over challenges the gate has issued; the other slots of a
\* frame hold bytes that sign nothing.
WitnessInputs ==
  {[i \in Slots |-> IF i \in S THEN c ELSE NoChallenge] :
     S \in SignedSets,
     c \in {NoChallenge} \cup {issued[j].challenge : j \in DOMAIN issued}}

ApprovalInputs ==
  [magic : {"SOVQ"}, version : {SOVP_VERSION}, sequence_id : Seqs,
   signer_bitmap : Bitmaps, quorum_count : Counts, witnesses : WitnessInputs]
    \cup
  [magic : {"SOVQ", "none"}, version : Versions, sequence_id : Seqs,
   signer_bitmap : Bitmaps, quorum_count : Counts,
   witnesses : {[i \in Slots |-> NoChallenge]}]

RefuseApproval(a) ==
  /\ ApprovalStatus(g_state, a) # "OK"
  /\ UNCHANGED vars

QuorumGrant(a) ==
  [boot |-> boot, seq |-> g_state.active_challenge_seq,
   tool |-> g_state.active_challenge.prop.tool_id, via |-> "quorum",
   challenge |-> g_state.active_challenge, bitmap |-> a.signer_bitmap,
   signed |-> {i \in Slots : a.witnesses[i] = g_state.active_challenge}]

AcceptApproval(a) ==
  /\ ApprovalStatus(g_state, a) = "OK"
  /\ g_state' = CloseChallenge(g_state)
  /\ grants' = Append(grants, QuorumGrant(a))
  /\ UNCHANGED <<boot, issued>>

-----------------------------------------------------------------------------
\* post_init: the component starts again and toolgate_init zeroes its state.
Restart ==
  /\ boot < MaxBoots
  /\ boot' = boot + 1
  /\ g_state' = ZeroedGateState
  /\ UNCHANGED <<issued, grants>>

Next ==
  \/ \E p \in Proposals :
       RefuseProposal(p) \/ SettleProposal(p) \/ HoldProposal(p)
  \/ \E a \in ApprovalInputs : RefuseApproval(a) \/ AcceptApproval(a)
  \/ Restart

Spec == Init /\ [][Next]_vars

-----------------------------------------------------------------------------
(* Properties *)

\* The gate's fields and the histories keep their types.
TypeOK ==
  /\ g_state \in GateState
  /\ boot \in 1 .. MaxBoots
  /\ issued \in Seq(Issue)
  /\ grants \in Seq(GrantRecord)

\* A request - a sequence number of one boot - is let through at most once,
\* whether the policy lets it through on the spot or a quorum does later:
\* neither a resubmitted frame nor a repeated approval runs a tool twice.
GrantedOnce ==
  \A i, j \in DOMAIN grants :
    /\ grants[i].boot = grants[j].boot
    /\ grants[i].seq = grants[j].seq
    => i = j

\* Quorum strictness (VERIFICATION.md, section 5): a tool that needs a quorum
\* is let through only when every required signer is claimed in the bitmap and
\* at least that many slots really sign the challenge of this very request.
QuorumStrictness ==
  \A i \in DOMAIN grants :
    LET g == grants[i]
        row == Policy[g.tool]
    IN row.decision = "QUORUM" =>
         /\ g.via = "quorum"
         /\ row.required_mask \subseteq g.bitmap
         /\ MockCrypto \/ Cardinality(g.signed) >= Cardinality(row.required_mask)
         /\ g.challenge.prop.sequence_id = g.seq
         /\ g.challenge.prop.tool_id = g.tool

\* A quorum releases the newest challenge only: once another QUORUM proposal
\* has displaced a challenge, or the gate has restarted, no approval of the
\* older one is accepted any more.
ReleaseIsNewest ==
  [][Len(grants') > Len(grants) /\ grants'[Len(grants')].via = "quorum" =>
       /\ issued # <<>>
       /\ issued[Len(issued)] =
            [boot |-> boot, challenge |-> grants'[Len(grants')].challenge]]_vars

\* An approval is spent by its first use, even after a restart has reset the
\* sequence numbers: no challenge is released twice.  The mock build hands out
\* one challenge for ever and is exempt.
ChallengeSpentOnce ==
  \A i, j \in DOMAIN grants :
    /\ ~MockCrypto
    /\ grants[i].via = "quorum" /\ grants[j].via = "quorum"
    /\ grants[i].challenge = grants[j].challenge
    => i = j

-----------------------------------------------------------------------------
(* Why the properties hold: the inductive invariant. *)

\* Every request let through in this boot is at or below the watermark.
GrantsBelowWatermark ==
  \A i \in DOMAIN grants :
    /\ grants[i].boot <= boot
    /\ grants[i].boot = boot => grants[i].seq <= g_state.last_seen_sequence_id

\* The active challenge is the last one issued, it is about the proposal whose
\* number and mask are stored beside it, and that number is spent but not yet
\* let through.
ActiveChallengeIsLast ==
  g_state.has_active_challenge =>
    LET c == g_state.active_challenge
    IN /\ issued # <<>>
       /\ issued[Len(issued)] = [boot |-> boot, challenge |-> c]
       /\ c.prop.sequence_id = g_state.active_challenge_seq
       /\ c.prop.tool_id \in DOMAIN Policy
       /\ Policy[c.prop.tool_id].decision = "QUORUM"
       /\ g_state.active_required_mask = Policy[c.prop.tool_id].required_mask
       /\ g_state.active_challenge_seq <= g_state.last_seen_sequence_id
       /\ \A i \in DOMAIN grants :
            grants[i].boot = boot => grants[i].seq # g_state.active_challenge_seq
       /\ MockCrypto \/ \A i \in DOMAIN grants :
            grants[i].via = "quorum" => grants[i].challenge # c

\* A challenge is released only after it was issued, and no nonce is issued
\* twice.
GrantedChallengeWasIssued ==
  \A i \in DOMAIN grants :
    grants[i].via = "quorum" =>
      \E j \in DOMAIN issued : issued[j].challenge = grants[i].challenge

GatePolicyTools ==
  \A i \in DOMAIN grants : grants[i].tool \in DOMAIN Policy

\* The invariant of ToolGateProofs, checked here on the small instance.
IndInv ==
  /\ TypeOK
  /\ GrantsBelowWatermark
  /\ ActiveChallengeIsLast
  /\ GrantedChallengeWasIssued
  /\ GatePolicyTools
  /\ GrantedOnce
  /\ QuorumStrictness
  /\ ChallengeSpentOnce

-----------------------------------------------------------------------------
(* The gate implements the abstract promise. *)

HeldRequest ==
  IF g_state.has_active_challenge
    THEN {[boot |-> boot, seq |-> g_state.active_challenge_seq,
           tool |-> g_state.active_challenge.prop.tool_id]}
    ELSE {}

GrantedRequests ==
  {[boot |-> grants[i].boot, seq |-> grants[i].seq, tool |-> grants[i].tool] :
     i \in DOMAIN grants}

NeedsNoQuorum(t) == t \in DOMAIN Policy /\ Policy[t].decision = "ALLOW"
NeedsQuorum(t) == t \in DOMAIN Policy /\ Policy[t].decision = "QUORUM"

Promise == INSTANCE AdmissionGate
             WITH Boots <- 1 .. MaxBoots, Tools <- ToolIds,
                  Direct <- NeedsNoQuorum, Held <- NeedsQuorum,
                  watermark <- g_state.last_seen_sequence_id,
                  held <- HeldRequest, granted <- GrantedRequests

\* toolgate.c keeps the promise of AdmissionGate: each call grants, drops, holds or
\* releases one request, or changes nothing.
PromiseKept == Promise!Spec
=============================================================================
