------------------------- MODULE MCToolGateSystem -------------------------
(***************************************************************************)
(* Small instances of ToolGateSystem.  Main is the script at the end of    *)
(* guest_sovr_agent.py.  Any lets a caller of execute_agent_loop pick its  *)
(* three calls freely: a read, a write, a call with too few arguments, two *)
(* tools that the executor does not know, in any order of numbers.         *)
(***************************************************************************)
EXTENDS ToolGateSystem

CONSTANTS blank, path, text, nonce

MCPayloads == {blank, path, text}
MCNonces == {nonce}

Read(seq) == [tool_id |-> "READ_FILE", sequence_id |-> seq, arg_len |-> 16,
              payload |-> path]
Write(seq) == [tool_id |-> "WRITE_FILE", sequence_id |-> seq, arg_len |-> 36,
               payload |-> text]
Short(seq) == [Write(seq) EXCEPT !.arg_len = 1]
Get(seq) == [Read(seq) EXCEPT !.tool_id = "HTTP_GET"]
Send(seq) == [Write(seq) EXCEPT !.tool_id = "SEND_MESSAGE"]

Main == <<{Read(1)}, {Write(2)}>>
AnyCall ==
  {Read(s) : s \in 1 .. 2} \cup {Write(s) : s \in 1 .. 3}
    \cup {Short(3), Get(2), Send(2)}
Any == <<AnyCall, AnyCall, AnyCall>>
=============================================================================
