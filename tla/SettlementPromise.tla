------------------------- MODULE SettlementPromise -------------------------
(***************************************************************************)
(* What the relayer promises to those who hand it state transitions: a line*)
(* is refused or accepted once; an accepted line is settled at most once,  *)
(* or dropped for good.  It does not promise to settle every line, nor to  *)
(* settle them in the order in which they came.                            *)
(***************************************************************************)
EXTENDS Sequences

CONSTANT Lines

VARIABLES fate,    \* what has become of each line
          ledger   \* the lines settled, in order
vars == <<fate, ledger>>

Fates == {"new", "refused", "accepted", "settled", "dropped"}

Init == fate = [l \in Lines |-> "new"] /\ ledger = <<>>

Refuse(l) ==
  /\ fate[l] = "new"
  /\ fate' = [fate EXCEPT ![l] = "refused"]
  /\ UNCHANGED ledger

Accept(l) ==
  /\ fate[l] = "new"
  /\ fate' = [fate EXCEPT ![l] = "accepted"]
  /\ UNCHANGED ledger

Settle(l) ==
  /\ fate[l] = "accepted"
  /\ fate' = [fate EXCEPT ![l] = "settled"]
  /\ ledger' = Append(ledger, l)

\* Several lines at once, when the process that holds them dies.
Drop(S) ==
  /\ \A l \in S : fate[l] = "accepted"
  /\ fate' = [l \in Lines |-> IF l \in S THEN "dropped" ELSE fate[l]]
  /\ UNCHANGED ledger

Next ==
  \/ \E l \in Lines : Refuse(l) \/ Accept(l) \/ Settle(l)
  \/ \E S \in SUBSET Lines : Drop(S)

Spec == Init /\ [][Next]_vars
=============================================================================
