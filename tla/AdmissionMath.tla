---------------------------- MODULE AdmissionMath ----------------------------
(***************************************************************************)
(* The arithmetic of the ingress filter: strawman_admit_proposal with the  *)
(* shear metric of include/sovr_e8_math.h, in integers of a given width,   *)
(* and the phoneme register of include/sovr_phoneme_engine.h; and the core *)
(* loop of src/sovereign_core.c with the phase of src/phase_slider.h.      *)
(*                                                                         *)
(* The width, the bound and the dimension are parameters; the code has 64  *)
(* bits, 150000 and 8.  A signed overflow is undefined in C: the           *)
(* multiplication of the machine wraps around, and what the compiler has   *)
(* made of the sign of a square is a choice.  A phoneme word is the set of *)
(* the positions of its one bits, at its true width of 32.                 *)
(***************************************************************************)
EXTENDS Integers

CONSTANTS Width,          \* bits of the integers, an even number
          Bound,          \* MAX_SHEAR_BOUND_FIXED
          Dim,            \* E8_DIM
          Roots,          \* arguments isqrt64 is called with
          Coordinates,    \* values of the coordinates of a candidate
          Priors,         \* the prior vectors
          Badges,         \* values of client_state
          Descriptors,    \* phoneme descriptors
          CycleCap,       \* 0xFFFFFF
          Runtimes        \* arguments of execute_sovereign_runtime

ASSUME WidthAssumption == Width \in Nat /\ Width >= 2 /\ Width % 2 = 0
ASSUME LimitAssumption == Bound \in Nat /\ Dim \in Nat /\ CycleCap \in Nat

VARIABLES call, done, result
vars == <<call, done, result>>

\* The word in which only bit k is set.
Pow2[k \in Nat] == IF k = 0 THEN 1 ELSE 2 * Pow2[k - 1]

Modulus == Pow2[Width]
Word == 0 .. Modulus - 1
Signed(x) == ((x + Modulus \div 2) % Modulus) - Modulus \div 2

-----------------------------------------------------------------------------
(* isqrt64 *)

\* Mutant: the remainder has to exceed the root by two.
RootRoundTooStrict(s) ==
  LET root == 2 * s.root
      rem == (4 * s.rem + s.n \div (Modulus \div 4)) % Modulus
  IN [rem  |-> IF root + 1 < rem THEN rem - (root + 1) ELSE rem,
      root |-> IF root + 1 < rem THEN root + 2 ELSE root,
      n    |-> (4 * s.n) % Modulus]

\* One round of the restoring method.
RootRound(s) ==
  LET root == 2 * s.root
      rem == (4 * s.rem + s.n \div (Modulus \div 4)) % Modulus
  IN [rem  |-> IF root < rem THEN rem - (root + 1) ELSE rem,
      root |-> IF root < rem THEN root + 2 ELSE root,
      n    |-> (4 * s.n) % Modulus]

RootRounds(n) ==
  LET round[i \in 0 .. Width \div 2] ==
        IF i = 0 THEN [rem |-> 0, root |-> 0, n |-> n] ELSE RootRound(round[i - 1])
  IN round

RestoredRoot(n) == RootRounds(n)[Width \div 2].root \div 2

isqrt64(val) == IF val <= 0 THEN 0 ELSE RestoredRoot(val)

-----------------------------------------------------------------------------
(* evaluate_shear_invariant and strawman_admit_proposal *)

Square(x) == Signed(Signed(x) * Signed(x))

Sums(prior, candidate) ==
  LET sum[i \in 0 .. Dim] ==
        IF i = 0 THEN 0 ELSE Signed(sum[i - 1] + Square(candidate[i] - prior[i]))
  IN sum

SumOfSquares(prior, candidate) == Sums(prior, candidate)[Dim]

\* A sum of squares is negative only after an overflow.  A build that reasons
\* from squares being positive has dropped the test of isqrt64 for it.
Metrics(prior, candidate) ==
  LET sum_sq == SumOfSquares(prior, candidate)
  IN {isqrt64(sum_sq)}
       \union {RestoredRoot(s % Modulus) : s \in {sum_sq} \intersect -Modulus .. -1}

\* Mutant: one bit of the triad is enough.
HasTriadAnyBit(badge) == badge % 8 # 0

HasTriad(badge) == badge % 8 = 7

\* The codes a call may return; there are several only after an overflow.
AdmitProposal(badge, expected_seq, incoming_seq, prior, candidate) ==
  CASE incoming_seq # expected_seq                           -> {-1}
    [] incoming_seq = expected_seq /\ ~HasTriad(badge)       -> {-2}
    [] OTHER -> {IF m <= Bound THEN 0 ELSE -3 : m \in Metrics(prior, candidate)}

-----------------------------------------------------------------------------
(* The phoneme register *)

\* Mutant: the coda is shifted into the tone.
ShiftCodaHigh == [onset |-> 26, nucleus |-> 23, nasal |-> 22, long |-> 21,
                  tone |-> 19, coda |-> 14, prefix |-> 10, provenance |-> 0]

Shift == [onset |-> 26, nucleus |-> 23, nasal |-> 22, long |-> 21,
          tone |-> 19, coda |-> 13, prefix |-> 10, provenance |-> 0]
MaskBits == [onset |-> 6, nucleus |-> 3, nasal |-> 1, long |-> 1,
             tone |-> 2, coda |-> 6, prefix |-> 3, provenance |-> 10]

Fields == DOMAIN MaskBits

Pack(desc) ==
  UNION {{Shift[f] + b : b \in {c \in 0 .. MaskBits[f] - 1 :
                                  (desc[f] \div Pow2[c]) % 2 = 1}} : f \in Fields}

\* The numbers that the bits of a word from a position on make, bit by bit.
Values(word, low, bits) ==
  LET value[i \in 0 .. bits] ==
        IF i = 0 THEN 0
        ELSE value[i - 1] + (IF low + i - 1 \in word THEN Pow2[i - 1] ELSE 0)
  IN value

Unpack(word) ==
  [f \in Fields |-> Values(word, Shift[f], MaskBits[f])[MaskBits[f]]]

ValidWord(word) ==
  LET d == Unpack(word)
  IN d.onset <= 51 /\ d.nucleus <= 7 /\ d.tone <= 3 /\ (d.coda <= 31 \/ d.coda = 63)

-----------------------------------------------------------------------------
(* execute_sovereign_runtime *)

slide_forward(sv) ==
  [sv EXCEPT !.phase = (@ + sv.phase_step) % Modulus, !.seq_id = (@ + 1) % Modulus]

\* run_sovereign_suite: the phase rolls over, by a step that fits the width, and
\* the ring starts a page.  Its third test is about constants and always passes.
SuiteStep == Pow2[Width \div 2]
RollsOver ==
  slide_forward([phase |-> Modulus - 1, phase_step |-> SuiteStep, seq_id |-> 0])
    = [phase |-> SuiteStep - 1, phase_step |-> SuiteStep, seq_id |-> 1]

SuitePasses(aligned) == RollsOver /\ aligned

\* Mutant: the loop is left before the work of the last cycle.
CycleBreaksFirst(s, tick_stride, cycle) ==
  [sv             |-> IF cycle = CycleCap THEN s.sv ELSE slide_forward(s.sv),
   last_sync_tick |-> IF cycle = CycleCap THEN s.last_sync_tick
                      ELSE (s.last_sync_tick + tick_stride) % Modulus,
   status         |-> s.status,
   running        |-> cycle # CycleCap]

\* The body of the loop: the break comes last.
Cycle(s, tick_stride, cycle) ==
  [sv             |-> slide_forward(s.sv),
   last_sync_tick |-> (s.last_sync_tick + tick_stride) % Modulus,
   status         |-> s.status,
   running        |-> cycle # CycleCap]

Entry(r) ==
  [sv             |-> r.sv,
   last_sync_tick |-> r.last_sync_tick,
   status         |-> IF SuitePasses(r.aligned) THEN "OPERATIONAL" ELSE "DEADFA17",
   running        |-> SuitePasses(r.aligned)]

Cycles(r) ==
  LET loop[c \in 0 .. r.runtime_cycles] ==
        IF c = 0 THEN Entry(r)
        ELSE IF loop[c - 1].running THEN Cycle(loop[c - 1], r.tick_stride, c - 1)
                                    ELSE loop[c - 1]
  IN loop

ExecuteRuntime(r) == Cycles(r)[r.runtime_cycles]

-----------------------------------------------------------------------------
(* One call *)

RuntimeArgs ==
  [sv : [phase : Word, phase_step : Word, seq_id : Word],
   last_sync_tick : Word, tick_stride : Word, runtime_cycles : Nat, aligned : BOOLEAN]

\* What the types of the arguments promise; a field of a descriptor may hold more
\* than its bits of the register.
ASSUME ArgumentAssumption ==
  /\ Roots \subseteq -(Modulus \div 2) .. Modulus \div 2 - 1
  /\ Coordinates \subseteq Int /\ Priors \subseteq [1 .. Dim -> Int]
  /\ Badges \subseteq Nat
  /\ Descriptors \subseteq [Fields -> Nat]
  /\ Runtimes \subseteq RuntimeArgs

Calls ==
  [name : {"isqrt"}, val : Roots]
    \union [name : {"admit"}, badge : Badges, incoming_seq : 1 .. 3,
            prior : Priors, candidate : [1 .. Dim -> Coordinates]]
    \union [name : {"phoneme"}, desc : Descriptors]
    \union [name : {"runtime"}, args : Runtimes]

Init == call \in Calls /\ done = FALSE /\ result = 0

Isqrt ==
  /\ ~done /\ call.name = "isqrt"
  /\ result' = isqrt64(call.val)
  /\ done' = TRUE
  /\ UNCHANGED call

Admit ==
  /\ ~done /\ call.name = "admit"
  /\ result' \in AdmitProposal(call.badge, 2, call.incoming_seq, call.prior,
                               call.candidate)
  /\ done' = TRUE
  /\ UNCHANGED call

Phoneme ==
  /\ ~done /\ call.name = "phoneme"
  /\ result' = [back |-> Unpack(Pack(call.desc)),
                valid |-> ValidWord(Pack(call.desc))]
  /\ done' = TRUE
  /\ UNCHANGED call

Runtime ==
  /\ ~done /\ call.name = "runtime"
  /\ result' = ExecuteRuntime(call.args)
  /\ done' = TRUE
  /\ UNCHANGED call

Next == Isqrt \/ Admit \/ Phoneme \/ Runtime
Spec == Init /\ [][Next]_vars

-----------------------------------------------------------------------------
(* Properties *)

Returned(name) == done /\ call.name = name

\* The square of the distance, over the integers.
Distances(prior, candidate) ==
  LET sum[i \in 0 .. Dim] ==
        IF i = 0 THEN 0 ELSE sum[i - 1] + (candidate[i] - prior[i]) * (candidate[i] - prior[i])
  IN sum

Distance2(prior, candidate) == Distances(prior, candidate)[Dim]

\* The distance in whole units is within the bound.
WithinBound(prior, candidate) == Distance2(prior, candidate) < (Bound + 1) * (Bound + 1)

\* sovr_e8_math.h:13-29: the restoring method returns the root rounded down, for
\* every positive number of the width.
IsqrtIsFloorRoot ==
  Returned("isqrt") =>
    IF call.val <= 0 THEN result = 0
    ELSE result * result <= call.val /\ call.val < (result + 1) * (result + 1)

\* The badge has all three bits of the triad.
Capable(badge) == \E k \in 0 .. badge : badge = 8 * k + 7

\* sovr_e8_math.h:65-86: the code of a refusal names the first rule broken, in the
\* order of the code; where the sum of the squares fits the width, a vector is
\* admitted exactly when it is the expected one, of a client with all three badge
\* bits, within the bound.
AdmitIsExact ==
  Returned("admit") =>
    LET expected == call.incoming_seq = 2
    IN /\ result = -1 <=> ~expected
       /\ result = -2 <=> expected /\ ~Capable(call.badge)
       /\ Distance2(call.prior, call.candidate) < Modulus \div 2 =>
            (result = 0 <=> /\ expected /\ Capable(call.badge)
                            /\ WithinBound(call.prior, call.candidate))

\* sovr_e8_math.h:41: "Returns true if invariant holds (<= 0.1500), false on
\* shear breach": what is admitted is within the bound.
AdmitMeansWithinBound ==
  Returned("admit") /\ result = 0 => WithinBound(call.prior, call.candidate)

\* What the register has room for.
Kept(desc) == [f \in Fields |-> desc[f] % Pow2[MaskBits[f]]]

\* sovr_phoneme_engine.h:80-102 and strawman_ingress.c:9-17: every field comes
\* back with the bits the register has for it and none of another field, however
\* much the descriptor held; the gatekeeper judges a word by the onset and the
\* coda that come back.
PhonemeSurvives ==
  Returned("phoneme") =>
    LET kept == Kept(call.desc)
    IN /\ result.back = kept
       /\ result.valid <=> kept.onset <= 51 /\ kept.coda \in (0 .. 31) \union {63}

\* sovereign_core.c:9-27: phase, counter and tick advance together across every
\* wrap, for the cycles asked for but CycleCap + 1 of them at most; a suite that
\* fails stops the core before it has touched them.
RuntimeInLockstep ==
  Returned("runtime") =>
    LET a == call.args
        wanted == IF a.runtime_cycles > CycleCap THEN CycleCap + 1 ELSE a.runtime_cycles
        n == IF result.status = "OPERATIONAL" THEN wanted ELSE 0
    IN /\ result.status = IF a.aligned THEN "OPERATIONAL" ELSE "DEADFA17"
       /\ result.sv.seq_id = (a.sv.seq_id + n) % Modulus
       /\ result.sv.phase = (a.sv.phase + n * a.sv.phase_step) % Modulus
       /\ result.last_sync_tick = (a.last_sync_tick + n * a.tick_stride) % Modulus
=============================================================================
