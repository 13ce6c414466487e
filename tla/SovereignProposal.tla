------------------------- MODULE SovereignProposal -------------------------
(***************************************************************************)
(* The wire contract of include/sovereign_proposal.h: the frames a guest   *)
(* and the gate exchange through the 4 KB dataport, the status codes and   *)
(* decisions, and the static policy table.                                 *)
(*                                                                         *)
(* Data is kept only as far as the code tells it apart.  A signer bitmap   *)
(* is the set of its bit positions, so popcount is Cardinality and a mask  *)
(* test is set inclusion.  The 992-byte argument buffer is its content     *)
(* class (payload) together with its extent, one past the last non-zero    *)
(* byte: the padding behind arg_len is clean iff extent <= arg_len.        *)
(***************************************************************************)
EXTENDS Integers, FiniteSets

CONSTANTS MaxSeq,       \* largest sequence_id; 2^64 - 1 in the code
          Payloads,     \* argument contents that the model distinguishes
          Nonces,       \* values gate_get_random_nonce can return
          NoChallenge   \* a zeroed challenge buffer, or bytes that sign nothing

ASSUME MaxSeqAssumption == MaxSeq \in Nat

Seqs == 0 .. MaxSeq

SOVP_MAX_ARGS == 992
SOVP_VERSION == 1
MAX_QUORUM_SIGNERS == 4

Magics == {"SOVP", "SOVV", "SOVQ", "SOVX", "none"}
Versions == {SOVP_VERSION, 2}
Decisions == {"DENY", "ALLOW", "QUORUM"}
Statuses == {"OK", "ERR_MAGIC", "ERR_VERSION", "ERR_ARGS_LEN", "ERR_CANONICAL",
             "ERR_SEQUENCE", "ERR_UNKNOWN_TOOL", "PENDING_APPROVAL",
             "ERR_STALE", "ERR_QUORUM_COUNT", "ERR_SIG_FAIL"}

\* The tools with a policy row, and every tool_id a frame may carry.
PolicyTools == {"READ_FILE", "HTTP_GET", "WRITE_FILE", "SEND_MESSAGE"}
ToolIds == PolicyTools \cup {"UNKNOWN"}

SignerBits == 0 .. 7
QUORUM_MASK_TRIAD_DEFAULT == {0, 1, 2}

PolicyRow == [decision : Decisions, required_mask : SUBSET SignerBits,
              min_arg_len : Nat, max_arg_len : Nat]

SOVP_POLICY ==
  [t \in PolicyTools |->
     [decision      |-> IF t \in {"READ_FILE", "HTTP_GET"} THEN "ALLOW"
                                                           ELSE "QUORUM",
      required_mask |-> IF t \in {"READ_FILE", "HTTP_GET"}
                          THEN {} ELSE QUORUM_MASK_TRIAD_DEFAULT,
      min_arg_len   |-> IF t \in {"READ_FILE", "HTTP_GET"} THEN 1 ELSE 2,
      max_arg_len   |-> CASE t = "READ_FILE" -> 256
                          [] t = "HTTP_GET"  -> 512
                          [] OTHER           -> SOVP_MAX_ARGS]]

(***************************************************************************)
(* Frames.  The reserved fields and session_id are read by no code but the *)
(* hash, where the payload already stands for them.                        *)
(***************************************************************************)
ArgLens == 0 .. 65535
Extents == 0 .. SOVP_MAX_ARGS
QuorumCounts == 0 .. 255

ProposalFrame ==
  [magic : Magics, version : Versions, tool_id : ToolIds, sequence_id : Seqs,
   arg_len : ArgLens, extent : Extents, payload : Payloads]

\* SHA-512 over domain separator, frame and nonce: injective on its input.
Challenge == [prop : ProposalFrame, nonce : Nonces]

\* The witness slots of an approval.  A slot is what its signature signs.
Slots == 0 .. MAX_QUORUM_SIGNERS - 1
Witnesses == [Slots -> Challenge \cup {NoChallenge}]

ApprovalFrame ==
  [magic : Magics, version : Versions, sequence_id : Seqs,
   signer_bitmap : SUBSET SignerBits, quorum_count : QuorumCounts,
   witnesses : Witnesses]
=============================================================================
