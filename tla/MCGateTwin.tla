----------------------------- MODULE MCGateTwin -----------------------------
(***************************************************************************)
(* Three numbers, every tool at the boundaries of its row, every status of *)
(* toolgate.c, and approvals of the triad, of fewer and of more signers.   *)
(***************************************************************************)
EXTENDS GateTwin

CONSTANTS nonce, text

MCNonces == {nonce}
MCPayloads == {text}

Frame(tool, seq, len) ==
  [magic |-> "SOVP", version |-> SOVP_VERSION, tool_id |-> tool,
   sequence_id |-> seq, arg_len |-> len, extent |-> len, payload |-> text]

MCProposals ==
  {Frame(t, s, 2) : t \in PolicyTools, s \in Seqs}
    \cup {Frame("READ_FILE", 2, 257), Frame("HTTP_GET", 2, 512),
          Frame("WRITE_FILE", 2, 1), Frame("SEND_MESSAGE", 3, 992),
          Frame("UNKNOWN", 2, 2),
          [Frame("READ_FILE", 2, 2) EXCEPT !.magic = "none"],
          [Frame("READ_FILE", 2, 2) EXCEPT !.version = 2],
          [Frame("READ_FILE", 2, 2) EXCEPT !.extent = 3],
          [Frame("WRITE_FILE", 2, 2) EXCEPT !.arg_len = 993]}

MCApprovals ==
  {[magic |-> "SOVQ", version |-> SOVP_VERSION, sequence_id |-> s,
    signer_bitmap |-> b, quorum_count |-> c,
    witnesses |-> [i \in Slots |-> NoChallenge]] :
     s \in Seqs, b \in {{0, 1}, {0, 1, 2}, {1, 2, 3}, 0 .. 4}, c \in {2, 3, 5}}
=============================================================================
