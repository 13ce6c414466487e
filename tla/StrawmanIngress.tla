--------------------------- MODULE StrawmanIngress ---------------------------
(***************************************************************************)
(* The ingress loop of src/boot/strawman_ingress.c: the kernel polls the   *)
(* shared ring of include/ipc_contract.h and admits the vectors that a     *)
(* client stages in it.                                                    *)
(*                                                                         *)
(* The loop reads the ring in several steps while the client may write:    *)
(* head and tail, the slot, the badge, and head once more as the incoming  *)
(* sequence number.  A vector is its number and what is wrong with it; the *)
(* arithmetic that tells is in AdmissionMath.                              *)
(*                                                                         *)
(* The client is not part of the repository.  The loop compares head with  *)
(* a counter that it never reduces, so head counts the vectors staged, and *)
(* vector n lies in slot (n - 1) % Capacity.                               *)
(***************************************************************************)
EXTENDS Integers, Sequences

CONSTANTS Capacity,     \* SOVR_RING_VECTOR_CAPACITY, 50 in the code
          Depth,        \* vectors the client keeps in flight
          MaxStaged     \* vectors staged (bound)

ASSUME CapacityAssumption == Capacity \in Nat \ {0}
ASSUME DepthAssumption == Depth \in 1 .. Capacity
ASSUME StagedAssumption == MaxStaged \in Nat

VARIABLES head, tail, slots, buffer_flags, client_state,   \* the ring
          pc, expected_seq, candidate, client_badge,       \* the loop
          staging, staged,                                 \* the client
          admitted                                         \* history

ring == <<head, tail, slots, buffer_flags, client_state>>
loop == <<pc, expected_seq, candidate, client_badge>>
client == <<staging, staged>>
vars == <<ring, loop, client, admitted>>

Faults == {"none", "phoneme", "shear"}
Vector == [number : 0 .. MaxStaged, fault : Faults]
NoVector == [number |-> 0, fault |-> "none"]
Badges == {"triad", "partial"}

Init ==
  /\ head = 0 /\ tail = 0
  /\ slots = [i \in 0 .. Capacity - 1 |-> NoVector]
  /\ buffer_flags = "active" /\ client_state \in Badges
  /\ pc = "poll" /\ expected_seq = 1
  /\ candidate = NoVector /\ client_badge = "partial"
  /\ staging = FALSE /\ staged = <<>>
  /\ admitted = <<>>

-----------------------------------------------------------------------------
(* strawman_ingress_entry *)

\* Mutant: the slot of head is read instead of the slot of tail.
CopySlotOfHead ==
  /\ pc = "copy"
  /\ LET v == slots[head % Capacity]
     IN /\ candidate' = v
        /\ IF v.fault = "phoneme"
             THEN buffer_flags' = "dead" /\ pc' = "poll"
             ELSE pc' = "badge" /\ UNCHANGED buffer_flags
  /\ UNCHANGED <<head, tail, slots, client_state, expected_seq, client_badge,
                 client, admitted>>

\* Mutant: tail is not reduced after the last slot.
DecideNeverWraps ==
  /\ pc = "decide"
  /\ pc' = "poll"
  /\ IF head = expected_seq /\ client_badge = "triad"
          /\ candidate.fault # "shear"
       THEN /\ tail' = tail + 1
            /\ expected_seq' = expected_seq + 1
            /\ admitted' = Append(admitted, candidate)
            /\ UNCHANGED buffer_flags
       ELSE /\ buffer_flags' = "dead"
            /\ UNCHANGED <<tail, expected_seq, admitted>>
  /\ UNCHANGED <<head, slots, client_state, candidate, client_badge, client>>

\* Mutant: the number is checked one too low.
DecideExpectsPrevious ==
  /\ pc = "decide"
  /\ pc' = "poll"
  /\ IF head = expected_seq - 1 /\ client_badge = "triad"
          /\ candidate.fault # "shear"
       THEN /\ tail' = (tail + 1) % Capacity
            /\ expected_seq' = expected_seq + 1
            /\ admitted' = Append(admitted, candidate)
            /\ UNCHANGED buffer_flags
       ELSE /\ buffer_flags' = "dead"
            /\ UNCHANGED <<tail, expected_seq, admitted>>
  /\ UNCHANGED <<head, slots, client_state, candidate, client_badge, client>>

\* Mutant: a refused vector is counted.
DecideCountsRefused ==
  /\ pc = "decide"
  /\ pc' = "poll"
  /\ expected_seq' = expected_seq + 1
  /\ IF head = expected_seq /\ client_badge = "triad"
          /\ candidate.fault # "shear"
       THEN /\ tail' = (tail + 1) % Capacity
            /\ admitted' = Append(admitted, candidate)
            /\ UNCHANGED buffer_flags
       ELSE /\ buffer_flags' = "dead"
            /\ UNCHANGED <<tail, admitted>>
  /\ UNCHANGED <<head, slots, client_state, candidate, client_badge, client>>

Poll ==
  /\ pc = "poll" /\ head # tail
  /\ pc' = "copy"
  /\ UNCHANGED <<ring, expected_seq, candidate, client_badge, client, admitted>>

\* The slot is copied, and a vector whose phoneme word is not one is trapped.
CopySlot ==
  /\ pc = "copy"
  /\ LET v == slots[tail % Capacity]
     IN /\ candidate' = v
        /\ IF v.fault = "phoneme"
             THEN buffer_flags' = "dead" /\ pc' = "poll"
             ELSE pc' = "badge" /\ UNCHANGED buffer_flags
  /\ UNCHANGED <<head, tail, slots, client_state, expected_seq, client_badge,
                 client, admitted>>

ReadBadge ==
  /\ pc = "badge"
  /\ client_badge' = client_state
  /\ pc' = "decide"
  /\ UNCHANGED <<ring, expected_seq, candidate, client, admitted>>

\* strawman_admit_proposal, with the head of this moment as incoming_seq.
Admissible ==
  /\ head = expected_seq
  /\ client_badge = "triad"
  /\ candidate.fault # "shear"

Decide ==
  /\ pc = "decide"
  /\ pc' = "poll"
  /\ IF Admissible
       THEN /\ tail' = (tail + 1) % Capacity
            /\ expected_seq' = expected_seq + 1
            /\ admitted' = Append(admitted, candidate)
            /\ UNCHANGED buffer_flags
       ELSE /\ buffer_flags' = "dead"
            /\ UNCHANGED <<tail, expected_seq, admitted>>
  /\ UNCHANGED <<head, slots, client_state, candidate, client_badge, client>>

LoopStep == Poll \/ CopySlot \/ ReadBadge \/ Decide

-----------------------------------------------------------------------------
(* The client *)

\* The client sees tail, which is reduced, and keeps at most Depth in flight.
InFlight == (head - tail) % Capacity

StageVector(fault) ==
  /\ ~staging /\ Len(staged) < MaxStaged
  /\ InFlight < Depth
  /\ LET v == [number |-> head + 1, fault |-> fault]
     IN /\ slots' = [slots EXCEPT ![head % Capacity] = v]
        /\ staged' = Append(staged, v)
  /\ staging' = TRUE
  /\ UNCHANGED <<head, tail, buffer_flags, client_state, loop, admitted>>

PublishHead ==
  /\ staging
  /\ head' = head + 1
  /\ staging' = FALSE
  /\ UNCHANGED <<tail, slots, buffer_flags, client_state, loop, staged,
                 admitted>>

\* The badge of the client is completed.
CompleteBadge ==
  /\ client_state = "partial"
  /\ client_state' = "triad"
  /\ UNCHANGED <<head, tail, slots, buffer_flags, loop, client, admitted>>

ClientStep == (\E f \in Faults : StageVector(f)) \/ PublishHead \/ CompleteBadge

Next == LoopStep \/ ClientStep

\* The loop spins for ever.
Spec == Init /\ [][Next]_vars /\ WF_vars(LoopStep)

-----------------------------------------------------------------------------
(* Properties *)

\* Indices, counters and vectors stay in range; head stays within what is staged.
TypeOK ==
  /\ head \in 0 .. MaxStaged /\ tail \in 0 .. Capacity - 1
  /\ slots \in [0 .. Capacity - 1 -> Vector]
  /\ buffer_flags \in {"active", "dead"}
  /\ client_state \in Badges /\ client_badge \in Badges
  /\ pc \in {"poll", "copy", "badge", "decide"}
  /\ expected_seq \in 1 .. MaxStaged + 1
  /\ candidate \in Vector
  /\ staging \in BOOLEAN
  /\ staged \in Seq(Vector) /\ admitted \in Seq(Vector)

\* strawman_ingress.c:28-56: until the client has staged more vectors than the ring
\* has slots, what is admitted is what was staged, in that order, nothing passed over
\* and nothing twice - although the slot is copied before head is read again as the
\* incoming number, and the client may have moved both in between.
AdmittedIsStaged ==
  Len(staged) <= Capacity =>
    /\ Len(admitted) <= Len(staged)
    /\ \A i \in DOMAIN admitted : admitted[i] = staged[i]

\* strawman_ingress.c:55-56 and e8_math.h:72: tail, which wraps, and the counter,
\* which does not, stay in step on every lap, and no more is admitted than the
\* client has published.
TailTracksSequence ==
  /\ tail = (expected_seq - 1) % Capacity
  /\ expected_seq - 1 = Len(admitted)
  /\ expected_seq - 1 <= head

\* What the vector before the loop, its badge or its client does against the rules.
Violation ==
  \/ candidate'.fault # "none"
  \/ client_badge = "partial"
  \/ head > expected_seq

\* strawman_ingress.c:39, :58: as long as a slot of the ring has not been used, the
\* step that marks it dead has a faulty vector or less than the full badge before it,
\* or a client that published another vector before this one was admitted.
TrapOnlyOnViolation ==
  [][buffer_flags' # buffer_flags => Violation \/ Len(staged) >= Capacity]_vars

\* strawman_ingress.c:27-56: when the turn of a good vector has come and the client has
\* published it under the full badge, the loop does admit under its number, whether or
\* not the ring was marked dead before, and on the second lap as on the first - unless
\* the client publishes another meanwhile.  That it admits the vector itself is
\* AdmittedIsStaged, of the first lap.
GoodIsAdmitted ==
  \A n \in 1 .. MaxStaged :
    (/\ head = n /\ expected_seq = n
     /\ client_state = "triad" /\ staged[n].fault = "none")
      ~> (Len(admitted) >= n \/ head > n)

-----------------------------------------------------------------------------
(* A claim that does not hold *)

\* "Trap on violation" (strawman_ingress.c:58), on every lap of the ring.
TrapOnEveryLap == [][buffer_flags' # buffer_flags => Violation]_vars
=============================================================================
