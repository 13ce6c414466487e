----------------------------- MODULE MCToolGate -----------------------------
(***************************************************************************)
(* A small instance of ToolGate: two sequence numbers, two starts, three   *)
(* nonces, and for every check of the two handlers a frame that fails it   *)
(* at its boundary.                                                        *)
(***************************************************************************)
EXTENDS ToolGate, TLC

CONSTANTS n1, n2, n3, text

MCNonces == {n1, n2, n3}
NonceSymmetry == Permutations(MCNonces)
MCPayloads == {text}

\* A frame that passes every check on the wire format.
Frame(tool, seq, len) ==
  [magic |-> "SOVP", version |-> SOVP_VERSION, tool_id |-> tool,
   sequence_id |-> seq, arg_len |-> len, extent |-> 1, payload |-> text]

Good ==
  {Frame("READ_FILE", s, 256) : s \in Seqs}
    \cup {Frame("WRITE_FILE", s, 992) : s \in Seqs}
    \cup {Frame("HTTP_GET", 2, 512), Frame("SEND_MESSAGE", MaxSeq, 2)}

Bad ==
  {[Frame("READ_FILE", 2, 1) EXCEPT !.magic = "SOVQ"],
   [Frame("READ_FILE", 2, 1) EXCEPT !.version = 2],
   [Frame("READ_FILE", 2, 1) EXCEPT !.extent = 2],
   [Frame("READ_FILE", 2, 0) EXCEPT !.extent = 0],
   Frame("READ_FILE", 2, 257), Frame("HTTP_GET", 2, 513),
   Frame("WRITE_FILE", 2, 1), Frame("WRITE_FILE", 2, 993),
   Frame("UNKNOWN", 2, 1)}

MCProposals == Good \cup Bad

\* Two of the triad; the triad; three others; and bitmaps of more signers than
\* there are witness slots.
MCBitmaps == {{0, 1}, {0, 1, 2}, {1, 2, 3}, 0 .. 3, 0 .. 4}
MCCounts == {2, 3, 5}
MCSignedSets == {{0, 1}, {0, 1, 2}, Slots}
=============================================================================
