# A formal model of the Sovereign tool gate

TLA+ modules, TLC configurations and TLAPS proofs kept beside the code of this
repository.  Paths below are relative to the repository root; the row of a
definition in `PROJECT.json` ("map") names the lines it stands for.

Contents: 1. The system. 2. Plan. 3. The modules and the code. 4. The runs.
5. Fairness. 6. What is proved. 7. What the code does otherwise than it says.
8. Abstractions. 9. What is not modelled.

## 1. The system

An agent in a Linux guest asks for tool calls.  A gate, an seL4 component above
the guest, decides each call from a static policy: some tools it lets through,
some it holds until a quorum of signers approves.  An executor runs what the
gate lets through.  Beside that path the repository has a kernel loop that
admits vectors from a shared ring, a relayer daemon for state transitions, a
notarizer with an approval format of its own, and scripts.

### Components, their state and their operations

| Component | Sources | State | Operations |
|---|---|---|---|
| Wire contract and policy table | `include/sovereign_proposal.h` | none; the layout of the 4 KB dataport: proposal, approval, verdict, result | - |
| Tool gate | `src/toolgate.c`, `src/toolgate_mock.c` | `g_state`: watermark `last_seen_sequence_id`, at most one active challenge with its number and mask | `toolgate_init`, `toolgate_handle_proposal`, `toolgate_verify_approval` |
| Gate component and assembly | `src/toolgate_component.c`, `camkes/ToolGateSystem.camkes` | the dataport, two notifications without a count, priorities | `post_init`, `proposal_ready_handle` |
| Tool executor | `src/toolexecutor.c` | none | `toolexec_dispatch` |
| Guest agent and UIO transport | `guest_sovr_agent.py`, `guest_uio_transport.py` | the phase of a call; the interrupt count of the UIO file | `execute_agent_loop`, `write_proposal`, `write_approval`, `ring_doorbell`, `wait_for_verdict` |
| Mock transport gate | `guest_uio_transport.py` | `last_seq`, `active_seq`, `active_mask` | `ring_doorbell` when there is no device |
| Strawman ingress and ring | `src/boot/strawman_ingress.c`, `include/ipc_contract.h` | `head`, `tail`, 50 slots, `buffer_flags`, the loop's `expected_seq` | the polling loop |
| E8 shear filter, phoneme engine | `include/sovr_e8_math.h`, `include/sovr_phoneme_engine.h` | none | `isqrt64`, `evaluate_shear_invariant`, `strawman_admit_proposal`, pack, unpack |
| Sovereign core | `src/sovereign_core.c`, `src/phase_slider.h` | phase, counter, tick | `execute_sovereign_runtime` |
| Relayer daemon | `ZkRelayerDaemon.ts`, `emit_to_relayer` of the transport | a FIFO, a witness file, the account's nonce | emit, read, prove, settle |
| Service control | `service_control.sh`, `poll_relayer_faucet.sh` | a pid file | start, stop, restart, status |
| Notarizer and dataport reader | `notarizer_signer.py`, `gate_dataport_reader.c`, `test_handshake_harness.py` | key files, the approval file | make pairs, sign, verify |
| Smoke runners, ingress pipeline, boot code, audit engine, build | see `PROJECT.json` | none shared | straight-line programs |

### How they interact

    agent --write frame--> dataport <--read/write-- gate --RPC--> executor
      |                                              ^
      +--doorbell (notify_prop)----------------------+
      <--interrupt (notify_verdict)------------------+

    client --slot, then head--> ring --polled by--> strawman ingress
    transport --line--> FIFO --> relayer --spawn--> prover, --RPC--> chain
    service_control --launch, kill, pid file--> relayer
    signer --key files, block--> dataport reader

Agent and gate share one page of memory.  The gate is told of a frame by a
notification and tells of a verdict by another; neither holds a count.  The
doorbell means "approval" when the approval region holds the magic `SOVQ`, and
"proposal" otherwise: the guest's `write_proposal` is what clears it.

### What is hard

* *Reading shared memory twice.*  The gate verifies a frame and then marshals
  the dataport, not its copy, into the executor's call
  (`toolgate_component.c:48`, `:75`).
* *Stale regions.*  Nobody but `write_proposal` clears the approval magic;
  nobody clears verdict and result.
* *Crash and restart.*  The agent may die anywhere and is started again with the
  same sequence numbers; the gate may restart and forget its watermark.
* *Timeouts.*  `wait_for_verdict` gives up after two seconds; the interrupt then
  belongs to the next call.
* *One challenge at a time.*  A newer proposal displaces the challenge on which
  signers are working.
* *Handlers nobody awaits.*  The relayer's line handlers overlap at every await
  and share one witness file and one account.
* *A FIFO without a holder.*  Bytes in it are gone when the last process closes
  it; the daemon closes and opens it again around every writer.
* *Pid files and key files.*  Check and write are two steps of a script without
  a lock; the pid is that of `npx`, not of the daemon; a pair of keys is two files.
* *Numbers at a boundary.*  Quorum counts against four witness slots; a ring
  index that wraps beside a sequence number that does not; squares in 64 bits.

`PROJECT.json` ("hazards") lists each of these at its line with the properties
that cover it, or the reason why none does.

### What makes each component correct

* Gate: a number of one boot is let through at most once; a quorum tool only by
  a complete quorum over its own, newest challenge; a challenge at most once
  even across restarts; a refused frame changes nothing.
* Gate, agent and executor together: with one agent on the page what is executed is what
  was authorised, and the assembly keeps the promise of the gate; the agent reads its own
  outcome; no wakeup is lost; every run ends.  Whatever runs in the guest, a call admitted
  by the policy is dispatched as it was checked, and quorums are not dispatched more often
  than they were asked for.
* Mock gate: its status and decision are those of the gate after any history.
* Ring: what is admitted is what was staged, in order; the ring is marked dead
  for a reason; a good vector in its turn is admitted.
* Arithmetic: the integer root is the root; the filter admits exactly the
  vectors within the bound; the phoneme register loses nothing; phase, counter
  and tick of the core advance in lockstep for the cycles asked for.
* Relayer and service control: one daemon, unless two scripts ran at one time, one was
  killed between two steps that belong together, or `npx` died alone; the prover that runs
  for a line finds the witness of that line; a line is settled at most once and never after
  its writer was told of a failure or the daemon gave it up; a writer comes back
  and a line is read while a daemon lives.
* Notarizer and reader: a confirmed block is signed by all three over its own
  challenge; pairs match unless a run was interrupted or had company; what a run
  writes undisturbed is confirmed.

## 2. Plan

Done, in this order:

1. `SovereignProposal`, `ToolGateOps`, `AdmissionGate`, `ToolGate`: the gate, its
   abstract promise, and the refinement.
2. `ToolGateProofs`.
3. `ToolGateSystem`: the composition of gate, dataport, agent and executor.
4. `StrawmanIngress`, `StrawmanIngressProofs`, `AdmissionMath`.
5. `GateTwin`, `GateTwinProofs`: the emulation against the gate.
6. `SettlementPromise`, `Relayer`, `RelayerProofs`: emitters, daemons, chain and
   service control in one module, since a second daemon is what breaks the first.
7. `Notary`, `NotaryProofs`: signer, key files and reader.
8. The sovereign core with its phase, in `AdmissionMath`.
9. `ToolGateSystemProofs`, `ToolGateOutcomeProofs`.
10. `AdmissionMathProofs`: the arithmetic for every even width.
11. The assembly against `AdmissionGate`: `PromiseKept` in `ToolGateSystem` and its
    proof.
12. `TwoAgents`, and the most general guest (`OpenSpec`) with what is still true of it.

Left:

13. An abstract queue for the ingress loop, which `StrawmanIngress` implements on its
    first lap.
14. A gate restart under a running agent, if the assembly ever gets a supervisor:
    today the gate restarts only with the whole board.

## 3. The modules and the code

| Module | Models |
|---|---|
| `SovereignProposal` | frames, statuses, decisions, `SOVP_POLICY` |
| `ToolGateOps` | each check and assignment of `toolgate.c` as an operator over the record `g_state` |
| `ToolGate` | `toolgate.c` as a state machine: any order of proposals, approvals and restarts; one call is one step |
| `AdmissionGate` | the abstract promise: grant, drop, hold, release, restart |
| `ToolGateSystem` | gate component, executor and agent, one step per access to the dataport |
| `TwoAgents` | the same with the program of the agent running twice on one page |
| `GateTwin` | the gate and its emulation in Python, side by side on the same frames |
| `StrawmanIngress` | the polling loop over the ring in four steps, and a client |
| `AdmissionMath` | `isqrt64`, shear metric, admission codes, phoneme register and core loop as functions of their arguments |
| `SettlementPromise` | the abstract promise of the relayer: refuse, accept, settle, drop |
| `Relayer` | `emit_to_relayer`, the FIFO, the daemons' streams and handlers, the chain, the script with its pid file |
| `Notary` | signer runs over the key files and the approval file, one system call per step, and the reader |
| `ToolGateProofs`, `ToolGateSystemProofs`, `ToolGateOutcomeProofs`, `StrawmanIngressProofs`, `GateTwinProofs`, `RelayerProofs`, `NotaryProofs`, `AdmissionMathProofs` | theorems |
| `MC*` | small instances |

*Gate.*  `HeaderStatus`, `BodyStatus` and `ApprovalStatus` are the chains of early
returns in their order; `Commit` and `CloseChallenge` are the assignments after
them.  `ToolGate` adds two histories: `issued`, the challenges handed out, and
`grants`, the calls let through.  `MockCrypto` chooses between the build with real
signatures and the build linked with `toolgate_mock.c`, which accepts any.

*System.*  `gpc` is the place in `proposal_ready_handle`: wait, verify, header,
body, publish, dispatch, executing, fill, emit.  `apc` is the place in
`execute_agent_loop` with the functions of the transport it calls.  A frame is
written in two steps and read in two, so the other side may come between.
`RunAgain` is the death of the agent process at any place, or its end, and a new
start; the page, the gate and a pending doorbell survive it.  `TimeOut` is enabled
whenever the agent waits and no interrupt is there: how long the gate takes is
not a number in the model.  `Spec` has one agent at a time on the page.  `TwoAgents`
instantiates the module a second time for a second process and shares page, doorbell and
gate between the two.  `OpenSpec` puts any program in the place of the agent: `AnyProgram`
writes what it likes into the page and rings.

`PriorityIsolation` is the assembly's priorities: gate and executor above the
VMM, on one core, so the guest runs only while the gate waits for a doorbell and
none is pending.  With `FALSE` the guest may run between any two steps, as on two
cores or with an executor that blocks.  Both are checked; which properties need
the priorities is the point of having two runs.

*Twin.*  A step writes and rings one frame on both sides.  Each side answers before
the guest goes on.  The assumptions say what is compared: the two tables hold the
same rows (`TableAssumption`, which TLC evaluates), the gate is the mock-crypto
build (`BuildAssumption`: the emulation looks at no signature), and the frames are
those that the guest's functions pack (`FrameAssumption`: an approval has magic and
version right).  Status and decision are compared; the results are not, and they
differ (section 7).

*Ingress.*  The ring client is not in the repository.  The model's client
writes a slot and then `head`, which counts the vectors: the loop compares `head`
with a counter it never reduces, so nothing else can work beyond the first
vector.  A vector is its number and its fault.  The client may keep up to `Depth`
vectors in flight, may complete its badge at any time, and may overrun the loop.

*Arithmetic.*  Calls with their results; a run is all arguments of the instance.
Width, bound and dimension are constants.  `RootRounds` is the loop of `isqrt64` as a
function of the rounds left, `Sums` the accumulation of the squares, `Values` what is
left of a word after each field `execute_phoneme_decoder` takes off it.  A signed
overflow is undefined in C; `Metrics` gives the outcomes that compilations of the file
produce.
`execute_sovereign_runtime` is a function of its arguments: the suite, then the
loop with its break after the work of a cycle.

*Relayer.*  `writer[l]` is the place in `emit_to_relayer` of the call for line `l`;
`reader[p]` the stream of daemon `p`; `job[l]` the line's way through
`processStateTransition`, cut at its awaits.  `spawnSync` stops the whole process, so
`LoopIsFree` guards every continuation.  What the kernel does with the FIFO is
external and modelled from how both sides use it: an open waits for the other side,
a write shorter than PIPE_BUF is one step, and `Leave` drops the bytes when nobody
holds the FIFO.  Between the end of a stream and its close lies a moment in which a
writer still finds a reader.  The chain is external: it accepts a transaction whose
nonce is the number of those accepted before, and its answer may be lost.  `npx` is
the process whose pid the script records and the daemon its child: `kill -9` of the
one leaves the other, and so does a death of `npx` alone (`NpxEnds`); after a daemon has
died its `npx` is there for a while yet, and `start` finds it running.  `ScriptDies` is a
script killed between two steps.  `disturbed` is a history: two scripts ran at one time,
`npx` died before its daemon, or a script died at a place where what it left undone
matters; a `KillAll` with no other script at work clears it.  What the prover prints is
not looked at by the code, and journal and proof are constants: the model has neither.
`cast` picks, once per behaviour, the lines, callers and commands that take part and the
processes that may die, so that one run covers three small scenarios.

*Notary.*  Opening a file for writing empties it and writing fills it, as two steps;
two runs may be side by side, a run may be killed at any place, and a file may be
lost between.  A pair is named by the run that made it.  A signature is its pair, its
index and its challenge.  `quiet` and `mixed` are histories: a run that was alone,
and runs that were interrupted or side by side.

## 4. The runs

| # | Run | Checks | Bounds |
|---|---|---|---|
| 1 | `gate` | gate alone: `GrantedOnce`, `QuorumStrictness`, `ChallengeSpentOnce`, `ReleaseIsNewest`, `IndInv`, refinement `PromiseKept` | 2 numbers, 2 starts, 3 nonces, a frame on each side of every check |
| 2 | `system` | one agent at a time, with the priorities: `DispatchMatchesAuthorisation`, `DispatchedOnce`, `OutcomeIsOwn`, `VerdictIsThere`, refinement `PromiseKept`, `RunEnds` | 3 calls freely picked, among them one with too few arguments and two tools the executor does not know; 3 numbers, 2 runs of the agent |
| 3 | `two_agents` | violation, see section 7 | the script of the agent, twice side by side |
| 4 | `system_races` | without the priorities: `AnswerIsComing`, `QuorumDispatchesCovered`, `DoorbellAnswered` | the script of the agent, run twice |
| 5 | `ring` | `TailTracksSequence`, `GoodIsAdmitted` on every lap; `AdmittedIsStaged`, `TrapOnlyOnViolation` on the first | 4 slots, 9 vectors (`tail` wraps twice), up to 3 in flight |
| 6 | `ring_wrap` | `TrapOnEveryLap`, a violation, see section 7 | 2 slots, 3 vectors, 1 in flight |
| 7 | `math` | `IsqrtIsFloorRoot`, `AdmitIsExact`, `PhonemeSurvives`, `RuntimeInLockstep` | 12-bit integers, all arguments of the root; dimension 2, coordinates up to the one whose square wraps to 0; descriptors within and beyond their fields at the true 32 bits; a cap of 3 cycles |
| 8 | `shear_overflow` | violation, see section 7 | five coordinates up to the square root of the modulus, one of them where the square wraps to a negative number |
| 9 | `twin` | `StatusesAgree`, `EmulationTracksGate` | 3 numbers, every status of `toolgate.c` but a wrong approval header and a bad signature |
| 10 | `relayer` | `OneDaemon`, `WitnessIsOwn`, refinement `PromiseKept`, `EmitReturns`, `LineLeavesFifo` | 2 daemons that may die; 2 lines with one caller of the script, 1 line with two callers, or 1 line with one caller where `npx` and the script may die too |
| 11 | `relayed_lost` | violation, see section 7 | 2 lines, no crash |
| 12 | `notary` | `TriadSigned`, `PairsMatch`, `QuietRunConfirms` | 2 runs of the signer, 1 lost file, 2 challenges, blocks left by others that are wrong in one place each |

Each passing run also checks the module's `TypeOK`, except `system_races` and
`math`.  `IndInv` of run 1 and the three invariants of run 9 are the invariants
the proofs use.

Why the bounds are enough:

* *Gate.*  A property about two grants needs two numbers; displacing a challenge
  needs two; a challenge that outlives a restart needs two starts; three nonces let
  a third challenge follow a displaced and a released one.  Bitmaps reach five
  signers, one more than there are slots.  The proofs remove the bounds.
* *System.*  A region that is stale for the next call needs two calls, for a call
  after a refused one three; an agent that dies needs two runs.  More runs repeat
  the same: everything a dead run leaves behind is in the page and in the gate.
* *Ring.*  A second vector behind a refused one, and a third published while the
  second is copied; nine vectors in four slots take `tail` over its wrap twice.  The
  first lap is proved for every capacity, `TailTracksSequence` for every lap.
* *Arithmetic.*  The root treats two bits per round alike at every width, and all
  arguments of twelve bits pass through it.  `AdmissionMathProofs` removes the bound:
  64 is one of the widths it is about.
* *Relayer.*  Two lines overlap in every phase of their handlers; two launches give
  a daemon after a crash, or one too many; more than two daemons add nothing a pair
  does not show.  The three casts are apart to
  keep the liveness checks short; `RelayerProofs` removes the bounds for the safety
  properties, and has all deaths, callers and lines in one behaviour.
* *Notary.*  A second run finds what the first left, or works beside it; `NotaryProofs`
  removes the bounds.
* *Two agents.*  Two calls of which one needs a quorum are the script; a violation needs
  no more.
* *Twin.*  A released, a displaced and an open challenge beside an allowed call need
  three numbers.  The proof removes the bound.

`CHECK_DEADLOCK FALSE` stands where the program ends: the agent's script
(`MCSystem*`, `MCTwoAgents`), one call (`MCMath*`), the vectors of a client or the ring
once it is dead, which the loop polls for ever (`MCRing*`), and the lines and launches of
an instance (`MCRelayer*`).

## 5. Fairness

* `FairSpec` of `ToolGateSystem`: `WF(GateStep)` and `WF(AgentStep)`.  The kernel runs a
  ready thread of the highest priority: a gate that can go on does, and a guest
  that can go on does once the gate waits.  The executor answers every call
  (`toolexec_dispatch` has no loop), which is part of `GateStep`.  Nothing is assumed
  of `RunAgain`: nobody has to start the program again.
* `Spec` of `StrawmanIngress`: `WF(LoopStep)`.  The loop is the only thread of its boot
  image and spins.  Nothing is assumed of the client.
* `FairSpec` of `Relayer`: `WF` of each call of `emit_to_relayer` once it has opened the
  FIFO (`EmitGoesOn`), of each daemon's stream and prover start (`Reads`), and of each
  handler up to the sent transaction (`Handles`): processes are scheduled, the prover
  ends, requests are answered or time out.  Nothing is assumed of a block (`Confirm`),
  of the callers, of the scripts between their steps, or of the deaths of daemon, `npx` and
  script.
* The other modules state safety only.

## 6. What is proved

For every value of the constants, with the assumptions named in the modules.

**Gate** (`ToolGateProofs`).  Assumed: the policy table has well-formed rows whose
masks lie within the four witness slots (`PolicyAssumption`; the shipped mask is
bits 0 to 2), the inputs are frames (`InputAssumption`), SHA-512 is injective and a
signature over a challenge is that challenge (by the shape of `Challenge` and
`WitnessInputs`), and the nonces of the real build do not repeat (`FreshNonces`).

The properties are not inductive.  `GrantedOnce` needs that what was granted in
this boot lies at or below the watermark (`GrantsBelowWatermark`), and that the
active challenge names a spent number not yet granted; `QuorumStrictness` needs
that the challenge, the number and the mask stored beside each other belong to one
proposal; `ChallengeSpentOnce` needs that the active challenge is not among the
granted ones, which across restarts follows from fresh nonces only.  These are the
parts of `ActiveChallengeIsLast` and `GrantedChallengeWasIssued`; their conjunction
`IndInv` is inductive (`Invariance`).  From it:

* `TypeCorrect`, `NeverGrantedTwice`, `QuorumIsStrict`, `NeverSpentTwice`;
* `NewestReleased`, the action property `ReleaseIsNewest`;
* `PromiseIsKept`: `ToolGate` implements `AdmissionGate`.  The mapping sends the
  active challenge to `held`, the watermark to itself and the history to
  `granted`; a refused frame is a stutter, `SettleProposal` is `Grant` or `Drop`,
  `HoldProposal` is `Hold`, `AcceptApproval` is `Release`.

`QuorumIsStrict` rests on the lemma `CoveredSlots`: a count equal to the popcount
of a bitmap that contains the mask visits at least as many slots as the mask has
signers, also when the bitmap has more bits than there are slots.

**Ingress** (`StrawmanIngressProofs`).  `IngressTypes` and `TailNeverDrifts` hold on
every lap.  `FirstLapInOrder` and `FirstLapTrapsForAReason` are about the first lap, and
the properties say so: as long as the client has staged no more vectors than there are
slots for the first, fewer for the second.  The theorems assume nothing of the client or
of the bound.  The condition is where the code stops being right (run 6).  The
invariant adds that on that lap the slot of every vector staged still holds it, and that
what the loop has copied is the vector after the last one admitted.

**Twin** (`GateTwinProofs`).  `EmulationTracksGate` is a simulation relation: related
states give the same status to the same frame (`SameProposalStatus`,
`SameApprovalStatus`) and the steps end in related states.  `SameAnswers` and
`EmulationIsSimulation` follow.

`TwinTypes` states the types of both sides.

**System** (`ToolGateSystemProofs`).  For every policy table, script of calls, number
of starts of the agent, mock or real crypto.  The invariant `SystemInv` has two
halves.

*Without the priorities*: `NoLostWakeup` is nearly inductive.
`QuorumDispatchesAreCovered` counts: the quorum dispatches made, the one decided and
not yet made, and the challenge that may still become one are together at most the
challenges issued (`CoverInv`); publishing cannot turn a policy decision into a quorum
one, because a refused frame leaves a verdict that denies.

*With the priorities* (`PriorityIsolation` is an assumption of the theorem): the guest
stands at its select while the gate has something to do (`GuestWaits`), so between the
gate's two readings of the dataport nobody writes.  `VerdictThereWhenGuestRuns` is the
first use.  For `OneAgentRunsItsOwn` the invariant must say which frame lies in the
dataport: an approval is there only beside the proposal whose challenge is pending,
because the agent writes one only for the proposal whose verdict asked for it and
clears it before the next (`ApprovalInv`), and what the gate has decided is about
the proposal that is there (`FrameInv`).  So this theorem, the next two and
`OutcomesAreOwn` are about this agent, any number of times but one at a time; they are
not about another program in the guest, and run 3 shows that two agents suffice to lose
the part about the quorum.  `NumbersAreDispatchedOnce` adds that what was
dispatched lies at or below the watermark, and that neither the pending challenge nor
the decided frame has a number that was dispatched (`OnceInv`).  The priorities are
needed: with the guest running in between, all three fail within the
script of the agent.

*With any guest*: `AnyGuestIsBounded` is about `OpenSpec`, in which the guest's program is
any at all.  What is left then, with the priorities: a call dispatched by the policy is the
one that was checked, since nobody writes between the two readings (`PolicyFrameInv`), and
the dispatches for quorums are no more than the challenges issued (`CoverInv`).  Which
call is dispatched for a quorum is not among this: the gate reads it from the page.

`AssemblyKeepsPromise`: under the same assumption the assembly implements
`AdmissionGate`, as `ToolGate` does alone.  `granted` is what was given to the executor and
what is let through and about to go (`Going`), `held` the challenge that is pending; a request is
a number with its tool and arguments.  `CommitProposal` is `Grant`, `Drop` or `Hold`,
`AcceptApproval` is `Release`, all other steps are stutters.  Two steps
need the invariant: the commit, since the number was checked one access earlier
(`OnceInv`), and the call of the executor, since the frame is read once more
(`FrameInv`).  With the guest running in between, TLC finds a request that nobody
granted within the script of the agent.

`OutcomesAreOwn` (`ToolGateOutcomeProofs`): the verdict an agent reads is about its call,
and a result it reads is what the executor answers to that call.  The theorem assumes,
beside the priorities, what the agent itself relies on: the mock build (its signatures are
simulated) and masks within the triad whose bitmap it packs (`MasksWithinTriad`, true of
the shipped table).  Without them the approval is denied, the agent reads the result all the same, and the result may
be that of an earlier call.  The invariant (`OwnInv`) says for each place of agent and
gate what lies in the four regions: the proposal is the agent's call once it is written,
the approval it packs is for the pending challenge, and while the agent reads, the verdict
is about its proposal and, if it allows, so is the result (`Told`).

**Relayer** (`RelayerProofs`).  For any lines, pids, callers and casts, with crashes.

* `RelayerTypes`: in particular no handler ends outside its `try`.
* `OneDaemonAtATime`: as long as it is undisturbed, a live daemon is the child of the
  `npx` in the pid file and that `npx` lives, except while the one script at work is about
  to record it, or is between `kill` and `pkill`; nobody lives when a script launches
  (`ControlInv`).  A `pkill` with no other script at work leaves nobody alive, so what
  follows it is undisturbed again, whatever was before.  The exceptions are real: with each
  of them TLC finds two daemons.
* `ProverFindsOwnWitness`: the witness in the file is that of the one line being proved.
  It follows from the first and from `spawnSync` stopping the process.  Nothing is said of
  the proof that is sent: it is a constant (section 7).
* `RelayerKeepsPromise`: `Relayer` implements `SettlementPromise`.  A line is in one
  place: in its writer's hand, in the FIFO, in one daemon's chunk, or in one handler
  that has not sent yet; a line that is in the chain is in no place from which it
  could be sent again.  Each step maps to one step of the promise or to a stutter.

**Notary** (`NotaryProofs`).  `ConfirmedIsSigned` needs that, as long as every
signature looked at has counted, each is by its own index over the block's challenge;
`PairsStayMatched` that an unmixed run holds the only half-written pair, at its own index; `QuietRunIsConfirmed` that in an
undisturbed run the signatures made so far are by the keys on disk, and stay so for the
reader after it.  `NotaryTypes` and `NotaryInvariance` go with them.

**Arithmetic** (`AdmissionMathProofs`).  Assumed: the width is any even number
(`WidthAssumption`; 64 in the code, and the loop of `isqrt64` takes two bits a round), the
other limits are numbers (`LimitAssumption`), and the arguments are of the types of the C
parameters (`ArgumentAssumption`).

* `RootRoundsDown`: `isqrt64` is the integer square root of every positive argument and 0
  of the others.  The invariant of its loop (`RootInv`): after `i` rounds, `p` is the
  number made of the `2 * i` leading bits of the argument, `root` is twice the root `r`
  of `p`, and `rem` is what `r * r` leaves of `p`, at most `2 * r`; so the remainder
  never needs more bits than the word has.
* `AdmissionExact`: the filter names the first rule that a vector breaks, whatever
  overflows; and it admits exactly the vectors within the bound among those whose squared
  distance, taken over the integers, is below half the modulus.  The hypothesis is about
  the vector and no bound on the code: beyond it the code stops being right (run 8).
* `RegisterLosesNothing`: packing a descriptor and decoding the word gives each field
  reduced to the bits it has room for, and nothing of another field; the gatekeeper
  judges the word by these.  It follows from the fields being apart (`FieldsApart`).
* `CoreInLockstep`: phase, counter and tick have advanced by one and the same number of
  cycles, those asked for but `CycleCap + 1` at most, across every wrap; none after a
  suite that fails.  `CoreInv` says so before each cycle.  The suite's own roll-over is
  computed for every width (`RolloverHolds`).

The loops are recursive functions over the rounds.  The library's induction theorems take
an operator for parameter, which the provers cannot instantiate; the proofs use induction
over a *set* of numbers instead: the set of those for which a fact fails has no least
element (`NatSetInduction`, from the library's well-founded minimum).  That a function
equal to its recursive definition exists is `IteratesExist`, by the same induction.

**Only model-checked.**  The liveness properties `RunEnds`, `DoorbellAnswered`,
`GoodIsAdmitted`, `EmitReturns`, `LineLeavesFifo`: liveness under fairness, and
ENABLED with it, is out of the prover's reach.  Every invariant and every refinement
that a passing run checks is a theorem, under the assumptions named above.

## 7. What the code does otherwise than it says

Each is a run that TLC finds violated, with the trace as its evidence.

1. `ring_wrap`: `tail` is reduced modulo 50, `head` and `expected_seq` are not.  After
   fifty admissions the empty ring is taken for a full one and marked dead.  If the client
   publishes vector 51 after the loop has copied the old slot, vector 1 is admitted a
   second time, under that number.
2. `shear_overflow`: the square of a coordinate difference of 2^32 is 0 in 64 bits; the
   vector is admitted.
3. `two_agents`: the approval handler verifies the approval against its own challenge and
   then dispatches the tool and arguments that lie in the page at that moment, without
   holding them against the challenge (`toolgate_component.c:48-54`).  With two agents on
   the page the call of one is dispatched for the quorum of the other, with the priorities
   in force.
4. `relayed_lost`: a writer that opens the FIFO after the daemon's stream has ended and
   before it is closed writes, closes and reports "Successfully relayed"; the daemon
   closes unread, nobody holds the FIFO, and the line is gone.

Seen while modelling, without a run of their own:

* The agent started again on a running gate repeats its numbers, and its calls are
  denied as stale: `OutcomeIsOwn` holds, the announced outcome does not come.
* `HTTP_GET` is allowed and `SEND_MESSAGE` is held for a quorum, but the executor knows
  neither (`toolexecutor.c`); the agent prints that they were executed, and for the second
  the quorum is spent.  `OutcomeIsOwn` holds of them: the result it reads is the failure.
* The emulation in `guest_uio_transport.py` answers every allowed tool with the text of
  a read and every approved one with that of a write, and no call fails, although it
  calls itself bit-exact (lines 4-5).
* A signer killed between the two files of a pair leaves a pair that does not match;
  both files are there, so no later run repairs it (the exception in
  `QuietRunConfirms`).
* Two daemons on one FIFO come about without a crash of a daemon (the exceptions in
  `OneDaemon`): two overlapping starts; `npx` dying alone, or a script killed between lines
  17 and 19 or between 27 and 30 of `service_control.sh`, after which the daemon lives on,
  `kill -0` of line 9 does not find it, and the next `start` launches another.
* Journal and proof of every transition are constants, 32 bytes of zero and 64 of 0xff
  (`ZkRelayerDaemon.ts:47-49`), whatever the prover has read or printed; only its exit
  status is looked at.  No transaction carries anything made from its line but the new
  root.
* `root_init.sh:28` prints `SMOKE_TEST_PASS` also when the reader before it failed.

## 8. Abstractions

* A bitmap is the set of its bits; popcount is `Cardinality`.
* An argument buffer is its content class with the place of its last byte that is
  not zero; the scan of the padding is a comparison with `arg_len`.
* A hash is its input; a signature is what it signs.
* In `ToolGateSystem` each function of `toolgate.c` reads a region in one step
  (the header, then the arguments); the copy of the verdict is one step.  A verdict
  torn in the middle is not modelled.  The system runs use the mock-crypto build,
  since the signatures of `guest_sovr_agent.py` are simulated: the real build would
  deny every approval of this agent.
* `session_id`, the reserved fields and the required mask in a verdict are read by
  nobody and left out.
* In `Relayer` every line is emitted once and differs from the others; pids are not
  used again; the wait of `poll_relayer_faucet.sh` for a balance is left out, the script
  is one more caller.  A transaction is accepted in the step that sends it or never: one
  that the chain accepts after the daemon has given it up is not modelled.
* In `Notary` a file has no half contents: it is missing, empty, or written.
* In `AdmissionMath` the distance counts whole units of the root, as the code does.
  Coordinate 4 of a vector is both the phoneme word and part of the distance; the
  model of the loop keeps the two faults apart and leaves that a word with a
  syllable always breaches the bound to the list of hazards.
* The order in which the client's writes of slot and `head` become visible is the
  order of the program; the loop has no barrier of its own.

## 9. What is not modelled

`PROJECT.json` ("components") has every part with its reason.  The smoke runners,
the boot code and the build are straight-line text without a decision of the
program.  The ingress pipeline and the audit engine scan text and write reports; they
share no state with anything else, and the `admission-gate` program they call is not
in the repository.  The harnesses under `verify/` and `test_handshake_harness.py` are
callers of modelled functions, with inputs the runs include.  A checker has nothing
to explore there.
