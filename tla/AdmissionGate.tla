--------------------------- MODULE AdmissionGate ---------------------------
(***************************************************************************)
(* What the admission gate promises, without frames, statuses or hashes.   *)
(*                                                                         *)
(* A request is a tool call under a sequence number of one boot.  Within a *)
(* boot a number is decided at most once: the watermark only rises past    *)
(* the request being decided.  A request is granted at once, dropped, or   *)
(* held for a quorum; at most one request is held, a newer one displaces   *)
(* it, and a held request that is granted is held no longer.               *)
(***************************************************************************)
EXTENDS Integers

CONSTANTS Boots, Seqs, Tools,
          Direct(_),    \* the tool needs no quorum
          Held(_)       \* the tool waits for a quorum

Request == [boot : Boots, seq : Seqs, tool : Tools]

VARIABLES boot, watermark, held, granted

vars == <<boot, watermark, held, granted>>

\* Requests, the watermark and the boot stay in their sets.
TypeOK ==
  /\ boot \in Boots
  /\ watermark \in Seqs
  /\ held \subseteq Request
  /\ granted \subseteq Request

Init ==
  /\ boot = 1
  /\ watermark = 0
  /\ held = {}
  /\ granted = {}

\* A number above the watermark, decided now.
Fresh(r) == r.boot = boot /\ r.seq > watermark

Grant(r) ==
  /\ Fresh(r) /\ Direct(r.tool)
  /\ watermark' = r.seq
  /\ granted' = granted \cup {r}
  /\ UNCHANGED <<boot, held>>

Drop(r) ==
  /\ Fresh(r) /\ ~Direct(r.tool) /\ ~Held(r.tool)
  /\ watermark' = r.seq
  /\ UNCHANGED <<boot, held, granted>>

Hold(r) ==
  /\ Fresh(r) /\ Held(r.tool)
  /\ watermark' = r.seq
  /\ held' = {r}
  /\ UNCHANGED <<boot, granted>>

\* The quorum for the held request is complete.
Release ==
  /\ held # {}
  /\ granted' = granted \cup held
  /\ held' = {}
  /\ UNCHANGED <<boot, watermark>>

Restart ==
  /\ boot + 1 \in Boots
  /\ boot' = boot + 1
  /\ watermark' = 0
  /\ held' = {}
  /\ UNCHANGED granted

Next ==
  \/ \E r \in Request : Grant(r) \/ Drop(r) \/ Hold(r)
  \/ Release
  \/ Restart

Spec == Init /\ [][Next]_vars
=============================================================================
