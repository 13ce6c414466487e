--------------------------- MODULE ToolGateProofs ---------------------------
(***************************************************************************)
(* Proofs about ToolGate, for every policy table, every range of sequence  *)
(* numbers, every set of presented frames and any number of restarts.      *)
(*                                                                         *)
(* IndInv (ToolGate) is inductive; the properties are its conjuncts.  The  *)
(* two facts it adds: what was granted in this boot lies at or below the   *)
(* watermark, and the active challenge is the last one issued, names a     *)
(* spent number, and has not been granted.                                 *)
(***************************************************************************)
EXTENDS ToolGate, FiniteSetTheorems, TLAPS

-----------------------------------------------------------------------------
(* The functions of toolgate.c *)

\* An accepted proposal is above the watermark and has a policy row.
LEMMA AcceptedProposal ==
  ASSUME NEW p \in Proposals, ProposalStatus(g_state, p) = "OK", TypeOK
  PROVE  /\ p \in ProposalFrame
         /\ p.sequence_id > g_state.last_seen_sequence_id
         /\ p.tool_id \in DOMAIN Policy
         /\ p.tool_id \in ToolIds
         /\ Policy[p.tool_id] \in PolicyRow
         /\ p.sequence_id \in Seqs
<1>1. p \in ProposalFrame
  BY InputAssumption
<1>2. p.sequence_id \in Seqs /\ p.tool_id \in ToolIds
  BY <1>1 DEF ProposalFrame
<1>3. g_state.last_seen_sequence_id \in Seqs
  BY DEF TypeOK, GateState
<1>4. HeaderStatus(g_state, p) = "OK" /\ BodyStatus(p) = "OK"
  BY DEF ProposalStatus
<1>5. ~(p.sequence_id <= g_state.last_seen_sequence_id)
  BY <1>4 DEF HeaderStatus
<1>6. p.tool_id \in DOMAIN Policy
  BY <1>4 DEF BodyStatus
<1>7. Policy[p.tool_id] \in PolicyRow
  BY <1>6, PolicyAssumption
<1>8. p.sequence_id > g_state.last_seen_sequence_id
  BY <1>2, <1>3, <1>5, MaxSeqAssumption DEF Seqs
<1> QED
  BY <1>1, <1>2, <1>6, <1>7, <1>8

\* A presented approval frame carries a bitmap and a count of the right width.
LEMMA ApprovalInputType ==
  ASSUME NEW a \in ApprovalInputs
  PROVE  a.signer_bitmap \in SUBSET SignerBits /\ a.quorum_count \in 0 .. 255
BY InputAssumption DEF ApprovalInputs

\* An accepted approval answers the active challenge: the required signers are
\* claimed, the count is the size of the claim, and every slot it covers signs.
LEMMA AcceptedApproval ==
  ASSUME NEW a \in ApprovalInputs, ApprovalStatus(g_state, a) = "OK"
  PROVE  /\ g_state.has_active_challenge
         /\ Cardinality(a.signer_bitmap) = a.quorum_count
         /\ g_state.active_required_mask \subseteq a.signer_bitmap
         /\ MockCrypto \/ \A i \in CountedSlots(a) :
                            a.witnesses[i] = g_state.active_challenge
<1>1. /\ g_state.has_active_challenge
      /\ Cardinality(a.signer_bitmap) = a.quorum_count
      /\ g_state.active_required_mask \subseteq a.signer_bitmap
  BY DEF ApprovalStatus
<1>2. \A i \in CountedSlots(a) :
        SignatureVerifies(a.witnesses[i], g_state.active_challenge)
  BY DEF ApprovalStatus
<1> QED
  BY <1>1, <1>2 DEF SignatureVerifies

\* The slots an approval of n claimed signers covers are enough for any mask
\* of slots among them.
LEMMA CoveredSlots ==
  ASSUME NEW a \in ApprovalInputs, NEW mask \in SUBSET Slots,
         mask \subseteq a.signer_bitmap,
         Cardinality(a.signer_bitmap) = a.quorum_count,
         NEW S \in SUBSET Slots, CountedSlots(a) \subseteq S
  PROVE  Cardinality(S) >= Cardinality(mask)
<1> DEFINE n == a.quorum_count
<1>1. n \in Nat /\ a.signer_bitmap \subseteq SignerBits
  BY ApprovalInputType
<1>2. IsFiniteSet(SignerBits) /\ IsFiniteSet(Slots) /\ Cardinality(Slots) = 4
  <2>1. 0 \in Int /\ 3 \in Int /\ 7 \in Int
    OBVIOUS
  <2>2. /\ IsFiniteSet(0 .. 7) /\ IsFiniteSet(0 .. 3)
        /\ Cardinality(0 .. 3) = IF 0 > 3 THEN 0 ELSE 3 - 0 + 1
    BY <2>1, FS_Interval, Zenon
  <2>3. SignerBits = 0 .. 7 /\ Slots = 0 .. 3
    BY DEF SignerBits, Slots, MAX_QUORUM_SIGNERS
  <2> QED
    BY <2>2, <2>3
<1>3. /\ IsFiniteSet(a.signer_bitmap) /\ IsFiniteSet(S) /\ IsFiniteSet(mask)
      /\ Cardinality(S) \in Nat /\ Cardinality(mask) \in Nat
  BY <1>1, <1>2, FS_Subset, FS_CardinalityType
<1>4. Cardinality(mask) <= n /\ Cardinality(mask) <= 4
  BY <1>2, <1>3, FS_Subset
<1>5. CASE n >= 4
  <2>1. CountedSlots(a) = Slots
    BY <1>1, <1>5 DEF CountedSlots, Slots, MAX_QUORUM_SIGNERS
  <2> QED
    BY <2>1, <1>2, <1>3, <1>4
<1>6. CASE n < 4
  <2>1. CountedSlots(a) = 0 .. n - 1
    BY <1>1, <1>6 DEF CountedSlots, Slots, MAX_QUORUM_SIGNERS
  <2>2. Cardinality(0 .. n - 1) = n
    <3>1. 0 \in Int /\ n - 1 \in Int
      BY <1>1
    <3>2. Cardinality(0 .. n - 1) = IF 0 > n - 1 THEN 0 ELSE n - 1 - 0 + 1
      BY <3>1, FS_Interval, Zenon
    <3> QED
      BY <3>2, <1>1
  <2>3. Cardinality(0 .. n - 1) <= Cardinality(S)
    <3>1. 0 .. n - 1 \in SUBSET S
      BY <2>1
    <3> QED
      BY <3>1, <1>3, FS_Subset, Zenon
  <2> QED
    BY <2>2, <2>3, <1>1, <1>3, <1>4
<1> QED
  BY <1>1, <1>5, <1>6

-----------------------------------------------------------------------------
(* The histories *)

\* What an element of an extended history is.
LEMMA Extended ==
  ASSUME NEW S, NEW s \in Seq(S), NEW e \in S
  PROVE  /\ Append(s, e) \in Seq(S)
         /\ Append(s, e) # <<>>
         /\ Len(Append(s, e)) = Len(s) + 1
         /\ Append(s, e)[Len(s) + 1] = e
         /\ Len(s) + 1 \notin DOMAIN s
         /\ DOMAIN Append(s, e) = DOMAIN s \cup {Len(s) + 1}
         /\ \A i \in DOMAIN s : Append(s, e)[i] = s[i]
OBVIOUS

\* The last element of a history is one of its elements.
LEMMA LastElement ==
  ASSUME NEW S, NEW s \in Seq(S), s # <<>>
  PROVE  Len(s) \in DOMAIN s /\ s[Len(s)] \in S
OBVIOUS

\* The numbers in a grant are integers.
LEMMA GrantType ==
  ASSUME TypeOK, NEW i \in DOMAIN grants
  PROVE  /\ grants[i] \in GrantRecord
         /\ grants[i].boot \in Int /\ grants[i].seq \in Int
<1>1. grants[i] \in GrantRecord
  BY DEF TypeOK
<1>2. grants[i].boot \in 1 .. MaxBoots /\ grants[i].seq \in Seqs
  BY <1>1 DEF GrantRecord
<1> QED
  BY <1>1, <1>2, BootAssumption, MaxSeqAssumption DEF Seqs

-----------------------------------------------------------------------------
(* IndInv is inductive *)

\* The zeroed gate, before any call.
LEMMA InitIndInv == Init => IndInv
<1> SUFFICES ASSUME Init PROVE IndInv
  OBVIOUS
<1>1. TypeOK
  <2>1. g_state \in GateState
    BY MaxSeqAssumption DEF Init, ZeroedGateState, GateState, Seqs
  <2>2. boot \in 1 .. MaxBoots
    BY BootAssumption DEF Init
  <2> QED
    BY <2>1, <2>2 DEF Init, TypeOK
<1>2. DOMAIN grants = {}
  BY DEF Init
<1>3. ~g_state.has_active_challenge
  BY DEF Init, ZeroedGateState
<1> QED
  BY <1>1, <1>2, <1>3
     DEF IndInv, GrantsBelowWatermark, ActiveChallengeIsLast,
         GrantedChallengeWasIssued, GatePolicyTools, GrantedOnce,
         QuorumStrictness, ChallengeSpentOnce

\* A proposal the policy settles: the number it spends is above every granted
\* one, so the grant it may add is new.
LEMMA SettleIndInv ==
  ASSUME IndInv, NEW p \in Proposals, SettleProposal(p)
  PROVE  IndInv'
<1> DEFINE g == PolicyGrant(p)
<1>1. /\ p.sequence_id > g_state.last_seen_sequence_id
      /\ p.tool_id \in DOMAIN Policy /\ p.tool_id \in ToolIds
      /\ Policy[p.tool_id].decision # "QUORUM"
      /\ p.sequence_id \in Seqs
  BY AcceptedProposal DEF IndInv, SettleProposal
<1>2. /\ g_state' = [g_state EXCEPT !.last_seen_sequence_id = p.sequence_id]
      /\ UNCHANGED <<boot, issued>>
  BY <1>1 DEF SettleProposal, Commit
<1>3. /\ g_state \in GateState /\ boot \in 1 .. MaxBoots
      /\ issued \in Seq(Issue) /\ grants \in Seq(GrantRecord)
  BY DEF IndInv, TypeOK
<1>4. g \in GrantRecord
  BY <1>1, <1>3 DEF PolicyGrant, GrantRecord, Via
<1>5. /\ g_state' \in GateState
      /\ g_state'.last_seen_sequence_id = p.sequence_id
      /\ g_state'.has_active_challenge = g_state.has_active_challenge
      /\ g_state'.active_challenge_seq = g_state.active_challenge_seq
      /\ g_state'.active_required_mask = g_state.active_required_mask
      /\ g_state'.active_challenge = g_state.active_challenge
  BY <1>1, <1>2, <1>3 DEF GateState
<1>6. g_state.last_seen_sequence_id \in Int /\ p.sequence_id \in Int
  BY <1>1, <1>3, MaxSeqAssumption DEF GateState, Seqs
<1>7. /\ g.boot = boot /\ g.seq = p.sequence_id /\ g.tool = p.tool_id
      /\ g.via = "policy" /\ g.challenge = NoChallenge
  BY DEF PolicyGrant
<1>8. grants' = grants \/ grants' = Append(grants, g)
  BY DEF SettleProposal
<1>9. CASE grants' = grants
  <2>1. TypeOK'
    BY <1>2, <1>3, <1>5, <1>9 DEF TypeOK
  <2>2. GrantsBelowWatermark'
    <3> SUFFICES ASSUME NEW i \in DOMAIN grants
                 PROVE  /\ grants[i].boot <= boot
                        /\ grants[i].boot = boot => grants[i].seq <= p.sequence_id
      BY <1>2, <1>5, <1>9 DEF GrantsBelowWatermark
    <3>1. grants[i].seq \in Int
      BY GrantType DEF IndInv
    <3> QED
      BY <3>1, <1>1, <1>6 DEF IndInv, GrantsBelowWatermark
  <2>3. ActiveChallengeIsLast'
    <3>1. g_state.active_challenge_seq <= g_state.last_seen_sequence_id
            => g_state.active_challenge_seq <= p.sequence_id
      BY <1>1, <1>3, <1>6, MaxSeqAssumption DEF GateState, Seqs
    <3> QED
      BY <3>1, <1>2, <1>5, <1>9 DEF IndInv, ActiveChallengeIsLast
  <2> QED
    BY <2>1, <2>2, <2>3, <1>2, <1>9
       DEF IndInv, GrantedChallengeWasIssued, GatePolicyTools, GrantedOnce,
           QuorumStrictness, ChallengeSpentOnce
<1>10. CASE grants' = Append(grants, g)
  <2>1. /\ grants' \in Seq(GrantRecord)
        /\ grants'[Len(grants) + 1] = g
        /\ DOMAIN grants' = DOMAIN grants \cup {Len(grants) + 1}
        /\ \A i \in DOMAIN grants : grants'[i] = grants[i]
    BY <1>3, <1>4, <1>10, Extended
  <2>2. TypeOK'
    BY <1>2, <1>3, <1>5, <2>1 DEF TypeOK
  <2>3. \A i \in DOMAIN grants : grants[i].boot = boot
                                   => grants[i].seq < p.sequence_id
    <3> SUFFICES ASSUME NEW i \in DOMAIN grants, grants[i].boot = boot
                 PROVE  grants[i].seq < p.sequence_id
      OBVIOUS
    <3>1. grants[i].seq \in Int
      BY GrantType DEF IndInv
    <3> QED
      BY <3>1, <1>1, <1>6 DEF IndInv, GrantsBelowWatermark
  <2>4. GrantsBelowWatermark'
    <3> SUFFICES ASSUME NEW i \in DOMAIN grants'
                 PROVE  /\ grants'[i].boot <= boot
                        /\ grants'[i].boot = boot
                             => grants'[i].seq <= p.sequence_id
      BY <1>2, <1>5 DEF GrantsBelowWatermark
    <3>1. CASE i \in DOMAIN grants
      <4>1. grants[i].seq \in Int
        BY <3>1, GrantType DEF IndInv
      <4> QED
        BY <3>1, <4>1, <2>1, <2>3, <1>6 DEF IndInv, GrantsBelowWatermark
    <3>2. CASE i = Len(grants) + 1
      BY <3>2, <2>1, <1>3, <1>6, <1>7
    <3> QED
      BY <3>1, <3>2, <2>1
  <2>5. ActiveChallengeIsLast'
    <3>1. g_state.has_active_challenge =>
            /\ g_state.active_challenge_seq <= p.sequence_id
            /\ g_state.active_challenge_seq # p.sequence_id
      BY <1>1, <1>3, <1>6, MaxSeqAssumption
         DEF GateState, Seqs, IndInv, ActiveChallengeIsLast
    <3> QED
      BY <3>1, <2>1, <1>2, <1>5, <1>7 DEF IndInv, ActiveChallengeIsLast
  <2> QED
    BY <2>1, <2>2, <2>3, <2>4, <2>5, <1>1, <1>2, <1>7, <1>6
       DEF IndInv, GrantedChallengeWasIssued, GatePolicyTools, GrantedOnce,
           QuorumStrictness, ChallengeSpentOnce
<1> QED
  BY <1>8, <1>9, <1>10

\* A proposal that waits for a quorum: its number is spent but not granted, and
\* its challenge is new because its nonce is.
LEMMA HoldIndInv ==
  ASSUME IndInv, NEW p \in Proposals, HoldProposal(p)
  PROVE  IndInv'
<1>1. /\ p \in ProposalFrame
      /\ p.sequence_id > g_state.last_seen_sequence_id
      /\ p.tool_id \in DOMAIN Policy
      /\ Policy[p.tool_id] \in PolicyRow
      /\ Policy[p.tool_id].decision = "QUORUM"
      /\ p.sequence_id \in Seqs
  BY AcceptedProposal DEF IndInv, HoldProposal
<1>2. PICK n \in FreshNonces :
        /\ g_state' = Commit(g_state, p, n)
        /\ issued' = Append(issued, [boot |-> boot,
                                     challenge |-> [prop |-> p, nonce |-> n]])
  BY DEF HoldProposal
<1> DEFINE c == [prop |-> p, nonce |-> n]
           e == [boot |-> boot, challenge |-> c]
<1>3. boot' = boot /\ grants' = grants
  BY DEF HoldProposal
<1>4. /\ g_state \in GateState /\ boot \in 1 .. MaxBoots
      /\ issued \in Seq(Issue) /\ grants \in Seq(GrantRecord)
  BY DEF IndInv, TypeOK
<1>5. n \in Nonces
  BY DEF FreshNonces
<1>6. c \in Challenge /\ e \in Issue
  BY <1>1, <1>4, <1>5 DEF Challenge, Issue
<1>7. /\ g_state'.last_seen_sequence_id = p.sequence_id
      /\ g_state'.active_challenge_seq = p.sequence_id
      /\ g_state'.active_required_mask = Policy[p.tool_id].required_mask
      /\ g_state'.active_challenge = c
      /\ g_state' \in GateState
  BY <1>1, <1>2, <1>6 DEF Commit, GateState, PolicyRow
<1>8. /\ issued' \in Seq(Issue)
      /\ issued' # <<>>
      /\ issued'[Len(issued')] = e
      /\ DOMAIN issued \subseteq DOMAIN issued'
      /\ \A i \in DOMAIN issued : issued'[i] = issued[i]
  BY <1>2, <1>4, <1>6, Extended
<1>9. g_state.last_seen_sequence_id \in Int /\ p.sequence_id \in Int
  BY <1>1, <1>4, MaxSeqAssumption DEF GateState, Seqs
<1>10. \A i \in DOMAIN grants :
         /\ grants[i].boot <= boot
         /\ grants[i].boot = boot => grants[i].seq < p.sequence_id
  <2> SUFFICES ASSUME NEW i \in DOMAIN grants
               PROVE  /\ grants[i].boot <= boot
                      /\ grants[i].boot = boot => grants[i].seq < p.sequence_id
    OBVIOUS
  <2>1. grants[i].seq \in Int
    BY GrantType DEF IndInv
  <2> QED
    BY <2>1, <1>1, <1>9 DEF IndInv, GrantsBelowWatermark
<1>11. TypeOK'
  BY <1>3, <1>4, <1>7, <1>8 DEF TypeOK
<1>12. GrantsBelowWatermark'
  <2> SUFFICES ASSUME NEW i \in DOMAIN grants, grants[i].boot = boot
               PROVE  grants[i].seq <= p.sequence_id
    BY <1>3, <1>7, <1>10 DEF GrantsBelowWatermark
  <2>1. grants[i].seq \in Int
    BY GrantType DEF IndInv
  <2> QED
    BY <2>1, <1>9, <1>10
<1>13. ActiveChallengeIsLast'
  <2>1. MockCrypto \/ \A i \in DOMAIN grants :
                        grants[i].via = "quorum" => grants[i].challenge # c
    <3> SUFFICES ASSUME ~MockCrypto, NEW i \in DOMAIN grants,
                        grants[i].via = "quorum", grants[i].challenge = c
                 PROVE  FALSE
      OBVIOUS
    <3>1. PICK j \in DOMAIN issued : issued[j].challenge = c
      BY DEF IndInv, GrantedChallengeWasIssued
    <3>2. issued[j].challenge.nonce = n
      BY <3>1
    <3> QED
      BY <3>2 DEF FreshNonces
  <2>2. \A i \in DOMAIN grants : grants[i].boot = boot
                                   => grants[i].seq # p.sequence_id
    <3> SUFFICES ASSUME NEW i \in DOMAIN grants, grants[i].boot = boot
                 PROVE  grants[i].seq # p.sequence_id
      OBVIOUS
    <3>1. grants[i].seq \in Int
      BY GrantType DEF IndInv
    <3> QED
      BY <3>1, <1>9, <1>10
  <2> QED
    BY <2>1, <2>2, <1>1, <1>3, <1>7, <1>8, <1>9 DEF ActiveChallengeIsLast
<1>14. GrantedChallengeWasIssued'
  BY <1>3, <1>8 DEF IndInv, GrantedChallengeWasIssued
<1> QED
  BY <1>3, <1>11, <1>12, <1>13, <1>14
     DEF IndInv, GatePolicyTools, GrantedOnce, QuorumStrictness,
         ChallengeSpentOnce

\* A satisfied quorum: the grant is for the active challenge, whose number was
\* not granted before, and the challenge closes.
LEMMA AcceptIndInv ==
  ASSUME IndInv, NEW a \in ApprovalInputs, AcceptApproval(a)
  PROVE  IndInv'
<1> DEFINE g == QuorumGrant(a)
           c == g_state.active_challenge
<1>1. /\ g_state.has_active_challenge
      /\ Cardinality(a.signer_bitmap) = a.quorum_count
      /\ g_state.active_required_mask \subseteq a.signer_bitmap
      /\ MockCrypto \/ \A i \in CountedSlots(a) : a.witnesses[i] = c
  BY AcceptedApproval DEF AcceptApproval
<1>2. /\ g_state' = [g_state EXCEPT !.has_active_challenge = FALSE]
      /\ grants' = Append(grants, g)
      /\ boot' = boot /\ issued' = issued
  BY DEF AcceptApproval, CloseChallenge
<1>3. /\ g_state \in GateState /\ boot \in 1 .. MaxBoots
      /\ issued \in Seq(Issue) /\ grants \in Seq(GrantRecord)
  BY DEF IndInv, TypeOK
<1>4. /\ issued # <<>>
      /\ issued[Len(issued)] = [boot |-> boot, challenge |-> c]
      /\ c.prop.sequence_id = g_state.active_challenge_seq
      /\ c.prop.tool_id \in DOMAIN Policy
      /\ Policy[c.prop.tool_id].decision = "QUORUM"
      /\ g_state.active_required_mask = Policy[c.prop.tool_id].required_mask
      /\ g_state.active_challenge_seq <= g_state.last_seen_sequence_id
      /\ \A i \in DOMAIN grants :
           grants[i].boot = boot => grants[i].seq # g_state.active_challenge_seq
      /\ MockCrypto \/ \A i \in DOMAIN grants :
           grants[i].via = "quorum" => grants[i].challenge # c
  BY <1>1 DEF IndInv, ActiveChallengeIsLast
<1>5. /\ Len(issued) \in DOMAIN issued
      /\ issued[Len(issued)] \in Issue
  BY <1>3, <1>4, LastElement
<1>6. c \in Challenge
  BY <1>4, <1>5 DEF Issue
<1>7. g \in GrantRecord
  BY <1>3, <1>4, <1>6, ApprovalInputType, PolicyAssumption
     DEF QuorumGrant, GrantRecord, Via, GateState
<1>8. /\ g.boot = boot /\ g.seq = g_state.active_challenge_seq
      /\ g.tool = c.prop.tool_id /\ g.via = "quorum" /\ g.challenge = c
      /\ g.bitmap = a.signer_bitmap
      /\ g.signed = {i \in Slots : a.witnesses[i] = c}
  BY DEF QuorumGrant
<1>9. /\ grants' \in Seq(GrantRecord)
      /\ grants'[Len(grants) + 1] = g
      /\ DOMAIN grants' = DOMAIN grants \cup {Len(grants) + 1}
      /\ \A i \in DOMAIN grants : grants'[i] = grants[i]
  BY <1>2, <1>3, <1>7, Extended
<1>10. /\ g_state' \in GateState
       /\ g_state'.has_active_challenge = FALSE
       /\ g_state'.last_seen_sequence_id = g_state.last_seen_sequence_id
  BY <1>2, <1>3 DEF GateState
<1>11. TypeOK'
  BY <1>2, <1>3, <1>9, <1>10 DEF TypeOK
<1>12. GrantsBelowWatermark'
  BY <1>2, <1>3, <1>4, <1>8, <1>9, <1>10 DEF IndInv, GrantsBelowWatermark
<1>13. ActiveChallengeIsLast'
  BY <1>10 DEF ActiveChallengeIsLast
<1>14. GrantedChallengeWasIssued'
  BY <1>2, <1>4, <1>5, <1>8, <1>9 DEF IndInv, GrantedChallengeWasIssued
<1>15. GatePolicyTools'
  BY <1>4, <1>8, <1>9 DEF IndInv, GatePolicyTools
<1>16. GrantedOnce'
  BY <1>4, <1>8, <1>9 DEF IndInv, GrantedOnce
<1>17. QuorumStrictness'
  <2>1. MockCrypto \/ Cardinality(g.signed)
                        >= Cardinality(Policy[g.tool].required_mask)
    <3> SUFFICES ASSUME ~MockCrypto
                 PROVE  Cardinality(g.signed)
                          >= Cardinality(Policy[g.tool].required_mask)
      OBVIOUS
    <3>1. CountedSlots(a) \subseteq g.signed /\ g.signed \subseteq Slots
      BY <1>1, <1>8 DEF CountedSlots
    <3>2. Policy[g.tool].required_mask \subseteq Slots
      BY <1>4, <1>8, PolicyAssumption
    <3>3. Policy[g.tool].required_mask \subseteq a.signer_bitmap
      BY <1>1, <1>4, <1>8
    <3> QED
      BY <3>1, <3>2, <3>3, <1>1, CoveredSlots
  <2>2. Policy[g.tool].required_mask \subseteq g.bitmap
    BY <1>1, <1>4, <1>8
  <2> SUFFICES ASSUME NEW i \in DOMAIN grants',
                      Policy[grants'[i].tool].decision = "QUORUM"
               PROVE  LET h == grants'[i] IN
                        /\ h.via = "quorum"
                        /\ Policy[h.tool].required_mask \subseteq h.bitmap
                        /\ MockCrypto \/ Cardinality(h.signed)
                             >= Cardinality(Policy[h.tool].required_mask)
                        /\ h.challenge.prop.sequence_id = h.seq
                        /\ h.challenge.prop.tool_id = h.tool
    BY DEF QuorumStrictness
  <2>3. CASE i \in DOMAIN grants
    BY <2>3, <1>9 DEF IndInv, QuorumStrictness
  <2>4. CASE i = Len(grants) + 1
    <3>1. grants'[i] = g
      BY <2>4, <1>9
    <3> HIDE DEF g
    <3> QED
      BY <3>1, <2>1, <2>2, <1>4, <1>8
  <2> QED
    BY <2>3, <2>4, <1>9
<1>18. ChallengeSpentOnce'
  BY <1>4, <1>8, <1>9 DEF IndInv, ChallengeSpentOnce
<1> QED
  BY <1>11, <1>12, <1>13, <1>14, <1>15, <1>16, <1>17, <1>18 DEF IndInv

\* A restart opens a boot in which nothing is granted yet.
LEMMA RestartIndInv ==
  ASSUME IndInv, Restart
  PROVE  IndInv'
<1>1. /\ boot' = boot + 1 /\ boot < MaxBoots
      /\ g_state' = ZeroedGateState
      /\ issued' = issued /\ grants' = grants
  BY DEF Restart
<1>2. boot \in 1 .. MaxBoots
  BY DEF IndInv, TypeOK
<1>3. TypeOK'
  <2>1. g_state' \in GateState
    BY <1>1, MaxSeqAssumption DEF ZeroedGateState, GateState, Seqs
  <2> QED
    BY <2>1, <1>1, <1>2, BootAssumption DEF IndInv, TypeOK
<1>4. GrantsBelowWatermark'
  <2> SUFFICES ASSUME NEW i \in DOMAIN grants
               PROVE  grants[i].boot <= boot + 1 /\ grants[i].boot # boot + 1
    BY <1>1 DEF GrantsBelowWatermark
  <2>1. grants[i].boot \in Int /\ grants[i].boot <= boot
    BY GrantType DEF IndInv, GrantsBelowWatermark
  <2> QED
    BY <2>1, <1>2
<1>5. ActiveChallengeIsLast'
  BY <1>1 DEF ActiveChallengeIsLast, ZeroedGateState
<1> QED
  BY <1>1, <1>3, <1>4, <1>5
     DEF IndInv, GrantedChallengeWasIssued, GatePolicyTools, GrantedOnce,
         QuorumStrictness, ChallengeSpentOnce

\* Every call and every restart keeps the invariant.
LEMMA StepIndInv == IndInv /\ [Next]_vars => IndInv'
<1> SUFFICES ASSUME IndInv, [Next]_vars PROVE IndInv'
  OBVIOUS
<1>1. ASSUME NEW p \in Proposals, RefuseProposal(p) PROVE UNCHANGED vars
  BY <1>1 DEF RefuseProposal
<1>2. ASSUME NEW a \in ApprovalInputs, RefuseApproval(a) PROVE UNCHANGED vars
  BY <1>2 DEF RefuseApproval
<1>3. CASE UNCHANGED vars
  BY <1>3 DEF vars, IndInv, TypeOK, GrantsBelowWatermark, ActiveChallengeIsLast,
              GrantedChallengeWasIssued, GatePolicyTools, GrantedOnce,
              QuorumStrictness, ChallengeSpentOnce
<1> QED
  BY <1>1, <1>2, <1>3, SettleIndInv, HoldIndInv, AcceptIndInv, RestartIndInv
     DEF Next

-----------------------------------------------------------------------------
(* The theorems *)

\* The invariant the properties rest on holds in every state of the gate.
THEOREM Invariance == Spec => []IndInv
<1>1. Init => IndInv
  BY InitIndInv
<1>2. IndInv /\ [Next]_vars => IndInv'
  BY StepIndInv
<1> QED
  BY <1>1, <1>2, PTL DEF Spec

\* The gate state keeps the shape of gate_state_t, and the histories theirs.
THEOREM TypeCorrect == Spec => []TypeOK
<1>1. IndInv => TypeOK
  BY DEF IndInv
<1> QED
  BY <1>1, Invariance, PTL

\* toolgate.c lets no request through twice, whatever is presented to it and
\* whenever it restarts.
THEOREM NeverGrantedTwice == Spec => []GrantedOnce
<1>1. IndInv => GrantedOnce
  BY DEF IndInv
<1> QED
  BY <1>1, Invariance, PTL

\* A quorum tool is let through by a quorum over its own challenge only, for
\* every policy whose masks name witness slots.
THEOREM QuorumIsStrict == Spec => []QuorumStrictness
<1>1. IndInv => QuorumStrictness
  BY DEF IndInv
<1> QED
  BY <1>1, Invariance, PTL

\* No approval is worth two releases, a restart between them included.
THEOREM NeverSpentTwice == Spec => []ChallengeSpentOnce
<1>1. IndInv => ChallengeSpentOnce
  BY DEF IndInv
<1> QED
  BY <1>1, Invariance, PTL

\* Only the newest challenge of the running boot is ever released.
THEOREM NewestReleased == Spec => ReleaseIsNewest
<1> DEFINE Newest ==
      Len(grants') > Len(grants) /\ grants'[Len(grants')].via = "quorum" =>
        /\ issued # <<>>
        /\ issued[Len(issued)] =
             [boot |-> boot, challenge |-> grants'[Len(grants')].challenge]
<1>1. IndInv /\ [Next]_vars => [Newest]_vars
  <2> SUFFICES ASSUME IndInv, Next,
                      Len(grants') > Len(grants),
                      grants'[Len(grants')].via = "quorum"
               PROVE  /\ issued # <<>>
                      /\ issued[Len(issued)] =
                           [boot |-> boot,
                            challenge |-> grants'[Len(grants')].challenge]
    OBVIOUS
  <2>1. grants \in Seq(GrantRecord) /\ grants' \in Seq(GrantRecord)
    <3>1. IndInv'
      BY StepIndInv
    <3> QED
      BY <3>1 DEF IndInv, TypeOK
  <2>2. grants' # grants
    BY <2>1
  <2>3. ASSUME NEW p \in Proposals, SettleProposal(p) PROVE FALSE
    <3>1. grants' = Append(grants, PolicyGrant(p))
      BY <2>2, <2>3 DEF SettleProposal
    <3>2. grants'[Len(grants')] = PolicyGrant(p)
      BY <2>1, <3>1
    <3> QED
      BY <3>2 DEF PolicyGrant
  <2>4. ASSUME NEW a \in ApprovalInputs, AcceptApproval(a)
        PROVE  /\ issued # <<>>
               /\ issued[Len(issued)] =
                    [boot |-> boot,
                     challenge |-> grants'[Len(grants')].challenge]
    <3>1. grants' = Append(grants, QuorumGrant(a))
      BY <2>4 DEF AcceptApproval
    <3>2. grants'[Len(grants')] = QuorumGrant(a)
      BY <2>1, <3>1
    <3>3. grants'[Len(grants')].challenge = g_state.active_challenge
      BY <3>2 DEF QuorumGrant
    <3>4. g_state.has_active_challenge
      BY <2>4, AcceptedApproval DEF AcceptApproval
    <3> QED
      BY <3>3, <3>4 DEF IndInv, ActiveChallengeIsLast
  <2> QED
    BY <2>2, <2>3, <2>4
       DEF Next, RefuseProposal, RefuseApproval, HoldProposal, Restart, vars
<1>2. Spec => [][Newest]_vars
  BY <1>1, Invariance, PTL DEF Spec
<1> QED
  BY <1>2 DEF ReleaseIsNewest

-----------------------------------------------------------------------------
(* The gate implements AdmissionGate *)

\* What one more grant adds to the set of granted requests.
LEMMA GrantedGrows ==
  ASSUME NEW g \in GrantRecord, grants \in Seq(GrantRecord),
         grants' = Append(grants, g)
  PROVE  GrantedRequests' = GrantedRequests \cup
           {[boot |-> g.boot, seq |-> g.seq, tool |-> g.tool]}
<1>1. /\ grants'[Len(grants) + 1] = g
      /\ DOMAIN grants' = DOMAIN grants \cup {Len(grants) + 1}
      /\ \A i \in DOMAIN grants : grants'[i] = grants[i]
  BY Extended
<1> QED
  BY <1>1 DEF GrantedRequests

\* Every step of the gate is a step of the abstract gate, or none.
LEMMA StepKeepsPromise ==
  IndInv /\ [Next]_vars => [Promise!Next]_(Promise!vars)
<1> SUFFICES ASSUME IndInv, [Next]_vars
             PROVE  [Promise!Next]_(Promise!vars)
  OBVIOUS
<1>1. /\ g_state \in GateState /\ boot \in 1 .. MaxBoots
      /\ issued \in Seq(Issue) /\ grants \in Seq(GrantRecord)
  BY DEF IndInv, TypeOK
<1>2. CASE UNCHANGED vars
  BY <1>2 DEF vars, Promise!vars, HeldRequest, GrantedRequests
<1>3. ASSUME NEW p \in Proposals, SettleProposal(p)
      PROVE  Promise!Next
  <2> DEFINE r == [boot |-> boot, seq |-> p.sequence_id, tool |-> p.tool_id]
  <2>1. /\ p.sequence_id > g_state.last_seen_sequence_id
        /\ p.tool_id \in DOMAIN Policy /\ p.tool_id \in ToolIds
        /\ Policy[p.tool_id] \in PolicyRow
        /\ Policy[p.tool_id].decision # "QUORUM"
        /\ p.sequence_id \in Seqs
    BY <1>3, AcceptedProposal DEF IndInv, SettleProposal
  <2>2. r \in Promise!Request
    BY <1>1, <2>1 DEF Promise!Request
  <2>3. /\ g_state' = [g_state EXCEPT !.last_seen_sequence_id = p.sequence_id]
        /\ boot' = boot
    BY <1>3, <2>1 DEF SettleProposal, Commit
  <2>4. /\ g_state'.last_seen_sequence_id = p.sequence_id
        /\ HeldRequest' = HeldRequest
    BY <1>1, <2>3 DEF GateState, HeldRequest
  <2>5. Promise!Fresh(r)
    BY <2>1 DEF Promise!Fresh
  <2>6. CASE Policy[p.tool_id].decision = "ALLOW"
    <3>1. grants' = Append(grants, PolicyGrant(p))
      BY <1>3, <2>6 DEF SettleProposal
    <3>2. PolicyGrant(p) \in GrantRecord
      BY <1>1, <2>1 DEF PolicyGrant, GrantRecord, Via
    <3>3. GrantedRequests' = GrantedRequests \cup {r}
      BY <1>1, <3>1, <3>2, GrantedGrows DEF PolicyGrant
    <3>4. NeedsNoQuorum(p.tool_id)
      BY <2>1, <2>6 DEF NeedsNoQuorum
    <3>5. Promise!Grant(r)
      BY <2>3, <2>4, <2>5, <3>3, <3>4 DEF Promise!Grant
    <3> QED
      BY <2>2, <3>5 DEF Promise!Next
  <2>7. CASE Policy[p.tool_id].decision # "ALLOW"
    <3>1. GrantedRequests' = GrantedRequests
      BY <1>3, <2>7 DEF SettleProposal, GrantedRequests
    <3>2. ~NeedsNoQuorum(p.tool_id) /\ ~NeedsQuorum(p.tool_id)
      BY <2>1, <2>7 DEF NeedsNoQuorum, NeedsQuorum
    <3>3. Promise!Drop(r)
      BY <2>3, <2>4, <2>5, <3>1, <3>2 DEF Promise!Drop
    <3> QED
      BY <2>2, <3>3 DEF Promise!Next
  <2> QED
    BY <2>6, <2>7
<1>4. ASSUME NEW p \in Proposals, HoldProposal(p)
      PROVE  Promise!Next
  <2> DEFINE r == [boot |-> boot, seq |-> p.sequence_id, tool |-> p.tool_id]
  <2>1. /\ p.sequence_id > g_state.last_seen_sequence_id
        /\ p.tool_id \in DOMAIN Policy /\ p.tool_id \in ToolIds
        /\ Policy[p.tool_id].decision = "QUORUM"
        /\ p.sequence_id \in Seqs
    BY <1>4, AcceptedProposal DEF IndInv, HoldProposal
  <2>2. r \in Promise!Request
    BY <1>1, <2>1 DEF Promise!Request
  <2>3. /\ g_state'.last_seen_sequence_id = p.sequence_id
        /\ g_state'.has_active_challenge = TRUE
        /\ g_state'.active_challenge_seq = p.sequence_id
        /\ g_state'.active_challenge.prop = p
        /\ boot' = boot /\ grants' = grants
    BY <1>4, <2>1 DEF HoldProposal, Commit
  <2>4. HeldRequest' = {r} /\ GrantedRequests' = GrantedRequests
    BY <2>3 DEF HeldRequest, GrantedRequests
  <2>5. Promise!Fresh(r) /\ NeedsQuorum(p.tool_id)
    BY <2>1 DEF Promise!Fresh, NeedsQuorum
  <2>6. Promise!Hold(r)
    BY <2>3, <2>4, <2>5 DEF Promise!Hold
  <2> QED
    BY <2>2, <2>6 DEF Promise!Next
<1>5. ASSUME NEW a \in ApprovalInputs, AcceptApproval(a)
      PROVE  Promise!Next
  <2>1. g_state.has_active_challenge
    BY <1>5, AcceptedApproval DEF AcceptApproval
  <2>2. /\ grants' = Append(grants, QuorumGrant(a))
        /\ g_state' = [g_state EXCEPT !.has_active_challenge = FALSE]
        /\ boot' = boot
    BY <1>5 DEF AcceptApproval, CloseChallenge
  <2>3. QuorumGrant(a) \in GrantRecord
    <3>1. IndInv'
      BY StepIndInv
    <3>2. grants' \in Seq(GrantRecord) /\ grants'[Len(grants')] = QuorumGrant(a)
      BY <1>1, <2>2, <3>1 DEF IndInv, TypeOK
    <3>3. grants' # <<>>
      BY <1>1, <2>2
    <3> QED
      BY <3>2, <3>3, LastElement
  <2>4. GrantedRequests' = GrantedRequests \cup HeldRequest
    BY <1>1, <2>1, <2>2, <2>3, GrantedGrows DEF QuorumGrant, HeldRequest
  <2>5. /\ HeldRequest # {} /\ HeldRequest' = {}
        /\ g_state'.last_seen_sequence_id = g_state.last_seen_sequence_id
    BY <1>1, <2>1, <2>2 DEF HeldRequest, GateState
  <2> QED
    BY <2>2, <2>4, <2>5 DEF Promise!Next, Promise!Release
<1>6. CASE Restart
  <2>1. /\ boot + 1 \in 1 .. MaxBoots
        /\ g_state'.last_seen_sequence_id = 0
        /\ HeldRequest' = {} /\ GrantedRequests' = GrantedRequests
    BY <1>1, <1>6, BootAssumption
       DEF Restart, ZeroedGateState, HeldRequest, GrantedRequests
  <2> QED
    BY <1>6, <2>1 DEF Restart, Promise!Next, Promise!Restart
<1> QED
  BY <1>2, <1>3, <1>4, <1>5, <1>6 DEF Next, RefuseProposal, RefuseApproval

\* Every behaviour of toolgate.c is one of the abstract gate's: numbers are
\* decided once, in rising order; one request at most is held; and only a held
\* request is released.
THEOREM PromiseIsKept == Spec => PromiseKept
<1>1. Init => Promise!Init
  BY DEF Init, ZeroedGateState, Promise!Init, HeldRequest, GrantedRequests
<1>2. IndInv /\ [Next]_vars => [Promise!Next]_(Promise!vars)
  BY StepKeepsPromise
<1> QED
  BY <1>1, <1>2, Invariance, PTL DEF Spec, PromiseKept, Promise!Spec
=============================================================================
