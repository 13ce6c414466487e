------------------------ MODULE StrawmanIngressProofs ------------------------
(***************************************************************************)
(* Proofs about the ingress loop, for every capacity, depth and number of  *)
(* vectors: the two counters of the loop never disagree, however often the *)
(* ring goes around; and on the first lap, however many vectors the client *)
(* keeps in flight, what is admitted is what was staged, in order.         *)
(***************************************************************************)
EXTENDS StrawmanIngress, TLAPS

-----------------------------------------------------------------------------
(* Remainders *)

\* Quotient and remainder of a division by k.
LEMMA DivisionSplits ==
  ASSUME NEW n \in Nat, NEW k \in Nat \ {0}
  PROVE  /\ n \div k \in Nat
         /\ n % k \in 0 .. k - 1
         /\ n = k * (n \div k) + (n % k)
  BY SMTT(30)

\* A number below k is its own remainder: tail on the first lap.
LEMMA RemainderOfSmall ==
  ASSUME NEW n \in Nat, NEW k \in Nat \ {0}, n < k
  PROVE  n % k = n
  BY SMTT(30)

\* A multiple of k smaller than k is zero.
LEMMA SmallMultiple ==
  ASSUME NEW k \in Nat \ {0}, NEW d \in Int, NEW r \in Int,
         -k < r, r < k, k * d = r
  PROVE  d = 0
<1>1. CASE d >= 1
  <2>1. k * d >= k
    BY <1>1, Z3T(20)
  <2> QED
    BY <2>1
<1>2. CASE d <= -1
  <2>1. k * d <= -k
    BY <1>2, Z3T(20)
  <2> QED
    BY <2>1
<1> QED
  BY <1>1, <1>2

\* A number has one remainder.
LEMMA RemainderUnique ==
  ASSUME NEW k \in Nat \ {0}, NEW q \in Nat, NEW r \in 0 .. k - 1,
         NEW p \in Nat, NEW s \in 0 .. k - 1, k * q + r = k * p + s
  PROVE  r = s
<1>1. k * (q - p) = s - r
  BY SMTT(20)
<1>2. q - p = 0
  BY <1>1, SmallMultiple
<1>3. k * (q - p) = 0
  BY <1>2, SMTT(20)
<1> QED
  BY <1>1, <1>3

\* A multiple and a small rest leave the rest.
LEMMA RemainderOfSum ==
  ASSUME NEW k \in Nat \ {0}, NEW q \in Nat, NEW r \in 0 .. k - 1
  PROVE  (k * q + r) % k = r
<1>1. k * q + r \in Nat
  BY SMTT(20)
<1>2. PICK p \in Nat, s \in 0 .. k - 1 :
         k * q + r = k * p + s /\ s = (k * q + r) % k
  BY <1>1, DivisionSplits
<1> QED
  BY <1>2, RemainderUnique

\* Reducing after every step or once at the end is the same: what the loop does
\* to tail is what it does to expected_seq.
LEMMA RemainderOfNext ==
  ASSUME NEW n \in Nat, NEW k \in Nat \ {0}
  PROVE  ((n % k) + 1) % k = (n + 1) % k
<1>1. PICK q \in Nat, r \in 0 .. k - 1 : n = k * q + r /\ r = n % k
  BY DivisionSplits
<1>2. CASE r + 1 < k
  <2>1. (k * q + (r + 1)) % k = r + 1
    BY <1>2, RemainderOfSum
  <2>2. n + 1 = k * q + (r + 1)
    BY <1>1, SMTT(20)
  <2>3. (r + 1) % k = r + 1
    BY <1>2, SMTT(20)
  <2> QED
    BY <2>1, <2>2, <2>3, <1>1
<1>3. CASE r + 1 = k
  <2>1. (k * (q + 1) + 0) % k = 0
    BY RemainderOfSum
  <2>2. n + 1 = k * (q + 1) + 0
    <3> DEFINE a == k * q
    <3>1. a \in Int /\ k * (q + 1) = a + k
      BY SMTT(20)
    <3>2. n = a + r
      BY <1>1
    <3> QED
      BY <3>1, <3>2, <1>3
  <2>3. k % k = 0
    BY SMTT(20)
  <2> QED
    BY <2>1, <2>2, <2>3, <1>1, <1>3
<1> QED
  BY <1>2, <1>3, <1>1

-----------------------------------------------------------------------------
(* Types *)

\* TypeOK on its own is not inductive: what bounds the counters is how many
\* vectors were staged.
Counters ==
  /\ expected_seq - 1 = Len(admitted)
  /\ expected_seq - 1 <= head
  /\ tail = (expected_seq - 1) % Capacity
  /\ Len(staged) = IF staging THEN head + 1 ELSE head
  /\ Len(staged) <= MaxStaged

\* What the loop holds of the vector it is looking at, on the first lap.
FirstLap ==
  /\ \A i \in 1 .. Len(staged) : slots[i - 1] = staged[i]
  /\ pc # "poll" => head >= expected_seq \/ head = Capacity
  /\ pc \in {"badge", "decide"} /\ head >= expected_seq =>
       candidate = staged[expected_seq]

\* The part of the invariant that holds on every lap.
IndInv == TypeOK /\ Counters

\* What is admitted is what was staged; and all of the invariant on the first lap.
InOrder ==
  Len(admitted) <= Len(staged) /\ \A i \in DOMAIN admitted : admitted[i] = staged[i]
LapInv == IndInv /\ FirstLap /\ InOrder

\* The empty slot and a staged vector are vectors.
LEMMA VectorTypes ==
  /\ NoVector \in Vector
  /\ \A n \in 0 .. MaxStaged, f \in Faults : [number |-> n, fault |-> f] \in Vector
  BY StagedAssumption DEF NoVector, Vector, Faults

\* What the elements of an extended sequence are.
LEMMA Appended ==
  ASSUME NEW S, NEW s \in Seq(S), NEW e \in S
  PROVE  /\ Append(s, e) \in Seq(S)
         /\ Len(Append(s, e)) = Len(s) + 1
         /\ \A i \in 1 .. Len(s) : Append(s, e)[i] = s[i]
         /\ Append(s, e)[Len(s) + 1] = e
  OBVIOUS

\* A reduced tail is an index of the ring.
LEMMA TailInRange ==
  ASSUME NEW n \in Nat PROVE n % Capacity \in 0 .. Capacity - 1
  BY CapacityAssumption, DivisionSplits

\* Both invariants hold before the first step.
LEMMA Initially == Init => LapInv
<1> SUFFICES ASSUME Init PROVE LapInv
  OBVIOUS
<1>1. 0 % Capacity = 0
  BY CapacityAssumption, RemainderOfSmall
<1>2. TypeOK
  BY CapacityAssumption, StagedAssumption, VectorTypes DEF Init, TypeOK, Badges
<1> QED
  BY <1>1, <1>2, StagedAssumption
     DEF Init, LapInv, IndInv, Counters, FirstLap, InOrder

\* The counters and the types are kept by every step, on every lap.
LEMMA CountersKept == IndInv /\ [Next]_vars => IndInv'
<1> SUFFICES ASSUME IndInv, [Next]_vars PROVE IndInv'
  OBVIOUS
<1> USE CapacityAssumption, StagedAssumption DEF IndInv, TypeOK, Counters
<1>1. CASE Poll
  BY <1>1 DEF Poll, ring, client
<1>2. CASE CopySlot
  <2>1. slots[tail % Capacity] \in Vector
    <3>1. tail \in Nat
      OBVIOUS
    <3>2. tail % Capacity \in 0 .. Capacity - 1
      BY <3>1, TailInRange
    <3> QED
      BY <3>2
  <2> QED
    BY <1>2, <2>1 DEF CopySlot, client
<1>3. CASE ReadBadge
  BY <1>3 DEF ReadBadge, ring, client
<1>4. CASE Decide
  <2>1. CASE Admissible
    <3>1. tail' = expected_seq % Capacity
      <4>1. expected_seq - 1 \in Nat /\ (expected_seq - 1) + 1 = expected_seq
        OBVIOUS
      <4>2. (((expected_seq - 1) % Capacity) + 1) % Capacity
              = expected_seq % Capacity
        BY <4>1, RemainderOfNext
      <4> QED
        BY <1>4, <2>1, <4>2 DEF Decide
    <3>2. tail' \in 0 .. Capacity - 1
      <4>1. expected_seq \in Nat
        OBVIOUS
      <4> QED
        BY <3>1, <4>1, TailInRange
    <3>3. expected_seq' = expected_seq + 1 /\ expected_seq' - 1 = expected_seq
      BY <1>4, <2>1 DEF Decide
    <3>4. expected_seq' - 1 <= head' /\ expected_seq' \in 1 .. MaxStaged + 1
      BY <1>4, <2>1, <3>3 DEF Decide, Admissible
    <3>5. admitted' \in Seq(Vector) /\ Len(admitted') = Len(admitted) + 1
      <4>1. admitted' = Append(admitted, candidate)
        BY <1>4, <2>1 DEF Decide
      <4>2. admitted \in Seq(Vector) /\ candidate \in Vector
        OBVIOUS
      <4> QED
        BY <4>1, <4>2, Appended
    <3>6. TypeOK'
      BY <1>4, <2>1, <3>2, <3>4, <3>5 DEF Decide, client
    <3>7. Counters'
      BY <1>4, <2>1, <3>1, <3>3, <3>4, <3>5 DEF Decide, client
    <3> QED
      BY <3>6, <3>7
  <2> QED
    BY <1>4, <2>1 DEF Decide, client
<1>5. ASSUME NEW f \in Faults, StageVector(f) PROVE IndInv'
  <2>1. [number |-> head + 1, fault |-> f] \in Vector
    BY <1>5, VectorTypes DEF StageVector
  <2>2. staged' \in Seq(Vector) /\ Len(staged') = Len(staged) + 1
    BY <1>5, <2>1 DEF StageVector
  <2>3. slots' \in [0 .. Capacity - 1 -> Vector]
    BY <1>5, <2>1 DEF StageVector
  <2>4. TypeOK'
    BY <1>5, <2>2, <2>3 DEF StageVector, loop
  <2>5. Counters'
    BY <1>5, <2>2 DEF StageVector, loop
  <2> QED
    BY <2>4, <2>5
<1>6. CASE PublishHead
  <2>1. head' = head + 1 /\ head' \in 0 .. MaxStaged /\ staging' \in BOOLEAN
    <3>1. head' = head + 1 /\ staging' = FALSE /\ staging
      BY <1>6 DEF PublishHead
    <3>2. head \in Nat /\ head + 1 <= MaxStaged
      BY <3>1
    <3>3. staging' \in BOOLEAN
      BY <3>1, Zenon
    <3> QED
      BY <3>1, <3>2, <3>3
  <2>2. TypeOK'
    BY <1>6, <2>1 DEF PublishHead, loop
  <2>3. Counters'
    BY <1>6, <2>1 DEF PublishHead, loop
  <2> QED
    BY <2>2, <2>3
<1>7. CASE CompleteBadge
  BY <1>7 DEF CompleteBadge, loop, client, Badges
<1>8. CASE UNCHANGED vars
  BY <1>8 DEF vars, ring, loop, client
<1> QED
  BY <1>1, <1>2, <1>3, <1>4, <1>5, <1>6, <1>7, <1>8
     DEF Next, LoopStep, ClientStep

\* The counters of strawman_ingress.c:24-56 and head stay related, on every lap.
THEOREM IngressInvariance == Spec => []IndInv
<1>1. Init => IndInv
  BY Initially DEF LapInv
<1> QED
  BY <1>1, CountersKept, PTL DEF Spec

\* Every variable keeps its type, for every capacity and number of vectors.
THEOREM IngressTypes == Spec => []TypeOK
<1>1. IndInv => TypeOK
  BY DEF IndInv
<1> QED
  BY <1>1, IngressInvariance, PTL

\* strawman_ingress.c:55-56: tail and expected_seq agree on every lap of the
\* ring, and the loop never admits more than was published.
THEOREM TailNeverDrifts == Spec => []TailTracksSequence
<1>1. IndInv => TailTracksSequence
  BY DEF IndInv, Counters, TailTracksSequence
<1> QED
  BY <1>1, IngressInvariance, PTL

-----------------------------------------------------------------------------
(* The first lap *)

\* On the first lap the vector after the last admitted one lies in slot tail.
LEMMA LapTail ==
  ASSUME IndInv, Len(staged) <= Capacity, head >= expected_seq
  PROVE  tail % Capacity = expected_seq - 1 /\ tail = expected_seq - 1
<1>1. expected_seq - 1 \in Nat /\ expected_seq - 1 < Capacity
  BY CapacityAssumption, StagedAssumption DEF IndInv, TypeOK, Counters
<1>2. (expected_seq - 1) % Capacity = expected_seq - 1
  BY <1>1, CapacityAssumption, RemainderOfSmall
<1> QED
  BY <1>2 DEF IndInv, Counters

\* The client stages one vector more, or none.
LEMMA StagedGrows ==
  ASSUME IndInv, [Next]_vars
  PROVE  Len(staged) <= Len(staged') /\ Len(staged) \in Nat
<1>1. staged \in Seq(Vector)
  BY DEF IndInv, TypeOK
<1>2. ASSUME NEW f \in Faults, StageVector(f) PROVE Len(staged) <= Len(staged')
  BY <1>1, <1>2 DEF StageVector
<1>3. CASE UNCHANGED staged
  BY <1>1, <1>3
<1> QED
  BY <1>1, <1>2, <1>3 DEF Next, LoopStep, ClientStep, Poll, CopySlot, ReadBadge, Decide,
     PublishHead, CompleteBadge, vars, client

\* A step keeps what the loop holds of its vector.
LEMMA LapKept ==
  ASSUME Len(staged') <= Capacity, LapInv, IndInv', [Next]_vars
  PROVE  LapInv'
<1> USE CapacityAssumption, StagedAssumption
<1>c. Len(staged) <= Capacity
  <2>1. IndInv' => Len(staged') \in Nat
    BY DEF IndInv, TypeOK
  <2> QED
    BY <2>1, StagedGrows DEF LapInv
<1>0. /\ head \in Nat /\ head <= MaxStaged /\ expected_seq \in Nat
      /\ expected_seq - 1 <= head /\ Len(admitted) = expected_seq - 1
      /\ (staging => Len(staged) = head + 1) /\ (~staging => Len(staged) = head)
      /\ Len(staged) \in Nat /\ Len(staged) <= MaxStaged
      /\ staged \in Seq(Vector) /\ admitted \in Seq(Vector)
      /\ Len(admitted) <= Len(staged)
  <2>1. /\ head \in Nat /\ head <= MaxStaged /\ expected_seq \in Nat
        /\ staged \in Seq(Vector) /\ admitted \in Seq(Vector)
    BY DEF LapInv, IndInv, TypeOK
  <2>2. /\ expected_seq - 1 <= head /\ Len(admitted) = expected_seq - 1
        /\ Len(staged) <= MaxStaged
    BY <2>1 DEF LapInv, IndInv, Counters
  <2>3. /\ (staging => Len(staged) = head + 1)
        /\ (~staging => Len(staged) = head)
    BY DEF LapInv, IndInv, Counters
  <2>4. Len(staged) \in Nat /\ Len(staged) >= head
    BY <2>1, <2>3
  <2> QED
    BY <2>1, <2>2, <2>3, <2>4
<1>1. CASE Poll
  <2>1. CASE head >= expected_seq
    BY <1>1, <2>1 DEF Poll, LapInv, FirstLap, InOrder, ring, client
  <2>2. CASE head = expected_seq - 1
    <3>1. head = Capacity
      <4>1. CASE head < Capacity
        <5>1. head % Capacity = head
          BY <4>1, <1>0, RemainderOfSmall
        <5>2. tail = head
          BY <5>1, <2>2 DEF LapInv, IndInv, Counters
        <5> QED
          BY <5>2, <1>1 DEF Poll
      <4> QED
        BY <4>1, <1>0, <1>c
    <3> QED
      BY <1>1, <3>1 DEF Poll, LapInv, FirstLap, InOrder, ring, client
  <2> QED
    BY <2>1, <2>2, <1>0
<1>2. CASE CopySlot
  <2>1. ASSUME head >= expected_seq PROVE candidate' = staged[expected_seq]
    <3>1. candidate' = slots[expected_seq - 1]
      BY <1>2, <1>c, <2>1, LapTail DEF CopySlot, LapInv
    <3>2. expected_seq \in 1 .. Len(staged)
      BY <1>0, <2>1 DEF LapInv, IndInv, TypeOK
    <3> QED
      BY <3>1, <3>2 DEF LapInv, FirstLap
  <2> QED
    BY <1>2, <2>1 DEF CopySlot, LapInv, FirstLap, InOrder, client
<1>3. CASE ReadBadge
  <2>1. pc = "badge" /\ pc' = "decide" /\ UNCHANGED <<ring, expected_seq, candidate, client, admitted>>
    BY <1>3 DEF ReadBadge
  <2> QED
    BY <2>1 DEF LapInv, FirstLap, InOrder, ring, client
<1>4. CASE Decide
  <2>1. CASE Admissible
    <3>1. candidate = staged[expected_seq] /\ head = expected_seq
      BY <1>4, <2>1, <1>0 DEF Decide, Admissible, LapInv, FirstLap
    <3>2. admitted' = Append(admitted, candidate) /\ candidate \in Vector
      BY <1>4, <2>1 DEF Decide, LapInv, IndInv, TypeOK
    <3>3. /\ Len(admitted') = expected_seq
          /\ \A i \in 1 .. expected_seq - 1 : admitted'[i] = admitted[i]
          /\ admitted'[expected_seq] = staged[expected_seq]
      BY <3>1, <3>2, <1>0, Appended
    <3>4. staged' = staged /\ slots' = slots /\ pc' = "poll"
      BY <1>4 DEF Decide, client
    <3>5. InOrder'
      <4>1. Len(admitted') <= Len(staged')
        BY <3>1, <3>3, <3>4, <1>0
      <4>2. ASSUME NEW i \in 1 .. expected_seq PROVE admitted'[i] = staged[i]
        BY <3>3, <1>0 DEF LapInv, InOrder
      <4>3. DOMAIN admitted' = 1 .. expected_seq
        BY <3>3 DEF IndInv, TypeOK
      <4> QED
        BY <4>1, <4>2, <4>3, <3>4 DEF InOrder
    <3>6. FirstLap'
      BY <3>4 DEF LapInv, FirstLap
    <3> QED
      BY <3>5, <3>6 DEF LapInv
  <2>2. CASE ~Admissible
    BY <1>4, <2>2 DEF Decide, LapInv, FirstLap, InOrder, client
  <2> QED
    BY <2>1, <2>2
<1>5. ASSUME NEW f \in Faults, StageVector(f) PROVE LapInv'
  <2> DEFINE v == [number |-> head + 1, fault |-> f]
  <2>1. ~staging /\ Len(staged) = head /\ head < MaxStaged /\ head < Capacity
    <3>1. ~staging /\ Len(staged) = head /\ head < MaxStaged
      BY <1>5, <1>0 DEF StageVector
    <3>2. Len(staged') = Len(staged) + 1
      BY <1>5, <1>0 DEF StageVector
    <3> QED
      BY <3>1, <3>2, <1>0
  <2>2. head % Capacity = head /\ head \in 0 .. Capacity - 1
    BY <2>1, <1>0, RemainderOfSmall
  <2>3. v \in Vector
    BY <2>1, <1>0, VectorTypes
  <2>4. /\ slots' = [slots EXCEPT ![head] = v]
        /\ staged' = Append(staged, v)
        /\ UNCHANGED <<head, loop, admitted>>
    BY <1>5, <2>2 DEF StageVector
  <2> HIDE DEF v
  <2>5. /\ Len(staged') = head + 1 /\ staged'[head + 1] = v
        /\ \A i \in 1 .. head : staged'[i] = staged[i]
    <3>1. staged \in Seq(Vector)
      BY <1>0
    <3>2. /\ Len(Append(staged, v)) = Len(staged) + 1
          /\ Append(staged, v)[Len(staged) + 1] = v
          /\ \A i \in 1 .. Len(staged) : Append(staged, v)[i] = staged[i]
      BY <2>3, <3>1, Appended
    <3> QED
      BY <2>1, <2>4, <3>2
  <2>6. slots'[head] = v /\ \A i \in 1 .. head : slots'[i - 1] = slots[i - 1]
    BY <2>2, <2>4, <1>0 DEF LapInv, IndInv, TypeOK
  <2>7. ASSUME NEW i \in 1 .. Len(staged') PROVE slots'[i - 1] = staged'[i]
    <3>1. CASE i = head + 1
      BY <3>1, <2>5, <2>6, <1>0
    <3>2. CASE i \in 1 .. head
      BY <3>2, <2>1, <2>5, <2>6 DEF LapInv, FirstLap
    <3> QED
      BY <3>1, <3>2, <2>5, <1>0
  <2>8. FirstLap'
    <3>1. ASSUME head >= expected_seq
          PROVE  staged'[expected_seq] = staged[expected_seq]
      BY <3>1, <2>5, <1>0 DEF LapInv, IndInv, TypeOK
    <3> QED
      BY <3>1, <2>4, <2>7 DEF LapInv, FirstLap, loop
  <2>9. InOrder'
    <3>1. DOMAIN admitted = 1 .. expected_seq - 1
      BY <1>0
    <3> QED
      BY <3>1, <2>1, <2>4, <2>5, <1>0 DEF LapInv, InOrder
  <2> QED
    BY <2>8, <2>9 DEF LapInv
<1>6. CASE PublishHead
  <2>1. head' = head + 1 /\ UNCHANGED <<slots, loop, staged, admitted>> /\ staging
    BY <1>6 DEF PublishHead
  <2>2. head < Capacity
    BY <2>1, <1>0, <1>c
  <2> QED
    BY <2>1, <2>2, <1>0 DEF LapInv, FirstLap, InOrder, loop
<1>7. CASE CompleteBadge
  BY <1>7 DEF CompleteBadge, LapInv, FirstLap, InOrder, loop, client
<1>8. CASE UNCHANGED vars
  BY <1>8 DEF vars, ring, loop, client, LapInv, FirstLap, InOrder
<1> QED
  BY <1>1, <1>2, <1>3, <1>4, <1>5, <1>6, <1>7, <1>8
     DEF Next, LoopStep, ClientStep

\* On the first lap the invariant of the lap holds.
LapOnly == Len(staged) <= Capacity => LapInv

LEMMA LapInvariance == Spec => [](IndInv /\ LapOnly)
<1>1. Init => IndInv /\ LapOnly
  BY Initially DEF LapInv, LapOnly
<1>2. IndInv /\ LapOnly /\ [Next]_vars => IndInv' /\ LapOnly'
  <2> SUFFICES ASSUME IndInv, LapOnly, [Next]_vars, Len(staged') <= Capacity
               PROVE  LapInv'
    BY CountersKept DEF LapOnly
  <2>1. IndInv'
    BY CountersKept
  <2>2. Len(staged) <= Capacity
    BY <2>1, StagedGrows, CapacityAssumption DEF IndInv, TypeOK
  <2> QED
    BY <2>1, <2>2, LapKept DEF LapOnly
<1> QED
  BY <1>1, <1>2, PTL DEF Spec

\* strawman_ingress.c:28-56: until the ring has gone around once, what is
\* admitted is what was staged, in order, nothing lost and nothing twice,
\* however many vectors the client keeps in flight.
THEOREM FirstLapInOrder == Spec => []AdmittedIsStaged
<1>1. LapOnly => AdmittedIsStaged
  BY DEF LapOnly, LapInv, InOrder, AdmittedIsStaged
<1> QED
  BY <1>1, LapInvariance, PTL

\* strawman_ingress.c:39 and 58: as long as one slot stays unused, the ring is
\* marked dead only for a fault, a badge or a client that ran ahead.  With the
\* last slot used it no longer is.
THEOREM FirstLapTrapsForAReason == Spec => TrapOnlyOnViolation
<1> DEFINE Reason == Violation \/ Len(staged) >= Capacity
<1>1. IndInv /\ LapOnly /\ [Next]_vars => [buffer_flags' # buffer_flags => Reason]_vars
  <2> SUFFICES ASSUME IndInv, LapOnly, Next, buffer_flags' # buffer_flags,
                      ~(Len(staged) >= Capacity)
               PROVE  Violation
    OBVIOUS
  <2>0. LapInv /\ Len(staged) < Capacity /\ head <= Len(staged)
    <3>1. Len(staged) \in Nat /\ head \in Nat
      BY DEF IndInv, TypeOK
    <3> QED
      BY <3>1, CapacityAssumption DEF IndInv, Counters, LapOnly
  <2>1. CASE CopySlot
    BY <2>1 DEF CopySlot, Violation
  <2>2. CASE Decide
    <3>1. ~Admissible /\ candidate' = candidate /\ pc = "decide"
      BY <2>2 DEF Decide
    <3>2. head \in Nat /\ expected_seq \in Nat /\ head < Capacity
      BY <2>0, StagedAssumption, CapacityAssumption DEF IndInv, TypeOK
    <3>3. head >= expected_seq
      BY <2>0, <3>1, <3>2, CapacityAssumption DEF LapInv, FirstLap
    <3>4. client_badge \in Badges
      BY DEF IndInv, TypeOK
    <3> QED
      BY <3>1, <3>2, <3>3, <3>4 DEF Admissible, Badges, Violation
  <2>3. ~Poll /\ ~ReadBadge /\ ~PublishHead /\ ~CompleteBadge
          /\ ~(\E f \in Faults : StageVector(f))
    BY DEF Poll, ReadBadge, PublishHead, CompleteBadge, StageVector, ring
  <2> QED
    BY <2>1, <2>2, <2>3 DEF Next, LoopStep, ClientStep
<1> QED
  BY <1>1, LapInvariance, PTL DEF Spec, TrapOnlyOnViolation
=============================================================================
