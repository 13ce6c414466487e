------------------------------ MODULE Relayer ------------------------------
(***************************************************************************)
(* State transitions on their way to the chain: emit_to_relayer            *)
(* (guest_uio_transport.py) writes a line into a FIFO, the daemons of      *)
(* ZkRelayerDaemon.ts read lines, have them proved and settle them, and    *)
(* service_control.sh starts and stops daemons by a pid file.              *)
(*                                                                         *)
(* A line is shorter than PIPE_BUF, so a write is one step.  What the      *)
(* kernel does: an open of one side waits for the other side, and the      *)
(* bytes in the FIFO are gone when nobody has it open.  What Node does: the*)
(* lines of one chunk are handled one after the other, each until its first*)
(* await, and nothing else of the process runs meanwhile; after that the   *)
(* settlements go on in any order.  The chain is a node that accepts a     *)
(* transaction when its nonce is the number of those accepted before.      *)
(***************************************************************************)
EXTENDS Integers, Sequences

CONSTANTS Lines,      \* state transitions, each emitted once (bound)
          Pids,       \* processes, one per launch (bound)
          Callers,    \* those who run service_control.sh
          Casts,      \* one behaviour's lines, callers, commands, and which of
                      \* its processes may die by themselves (bound)
          NoLine

ASSUME PidAssumption == Pids \subseteq Nat \ {0}
ASSUME NoLineAssumption == NoLine \notin Lines
ASSUME CastAssumption ==
  Casts \subseteq [lines : SUBSET Lines, callers : SUBSET Callers,
                  commands : SUBSET {"start", "stop", "restart"},
                  mortal : SUBSET {"daemon", "npx", "script"}]

VARIABLES pipe, buffer, witness,      \* files: the FIFO, its bytes, the witness
          writer,                     \* the call of emit_to_relayer per line
          reader, chunk, job,         \* the daemons, and what they do per line
          chain,                      \* the transactions accepted, in order
          pidfile, npx, script,       \* service_control.sh
          disturbed,                  \* history: a second daemon may come of it
          cast

fifo == <<pipe, buffer>>
daemon == <<reader, chunk, job, witness>>
control == <<pidfile, npx, script, disturbed, cast>>
vars == <<fifo, writer, daemon, chain, control>>

\* The handler of a line ends with a hash it returns, with an error it logs, or
\* not at all.
Phases == {"none", "buffered", "queued", "proving", "balance", "nonce", "send",
           "wait", "returned", "logged", "lost"}
InFlight == {"queued", "proving", "balance", "nonce", "send", "wait"}
Jobs == [at : Phases, by : Pids \union {0}, nonce : Nat]
Scripts == [at : {"idle", "check", "launch", "record", "test", "kill", "rm",
                  "pkill"},
            again : BOOLEAN, pid : Pids \union {0}]

Idle(phase) == [at |-> phase, by |-> 0, nonce |-> 0]
AtRest == [at |-> "idle", again |-> FALSE, pid |-> 0]

Init ==
  /\ pipe = FALSE /\ buffer = <<>> /\ witness = NoLine
  /\ writer = [l \in Lines |-> "idle"]
  /\ reader = [p \in Pids |-> "unborn"]
  /\ chunk = [p \in Pids |-> <<>>]
  /\ job = [l \in Lines |-> Idle("none")]
  /\ chain = <<>>
  /\ pidfile = 0 /\ npx = {}
  /\ script = [c \in Callers |-> AtRest]
  /\ disturbed = FALSE
  /\ cast \in Casts

-----------------------------------------------------------------------------
(* The FIFO *)

\* Who has it open; an open that waits for the other side counts.
ReadersOf(rd) == {p \in Pids : rd[p] \in {"opening", "open", "ended"}}
WritersOf(wr) == {l \in Lines : wr[l] \in {"opening", "open", "written", "broken"}}
Readers == ReadersOf(reader)
Writers == WritersOf(writer)

Lose(j, S) ==
  [l \in Lines |-> IF l \in S THEN Idle("lost") ELSE j[l]]

Buffered == {l \in Lines : job[l].at = "buffered"}

\* Somebody closes, which leaves the readers rd and the writers wr: the bytes that
\* were not read stay, or go with the last of them.  S are lines that go anyway.
Leave(rd, wr, S) ==
  LET unheld == ReadersOf(rd) = {} /\ WritersOf(wr) = {}
  IN /\ reader' = rd /\ writer' = wr
     /\ buffer' = IF unheld THEN <<>> ELSE buffer
     /\ job' = Lose(job, IF unheld THEN S \union Buffered ELSE S)

-----------------------------------------------------------------------------
(* emit_to_relayer *)

\* Pipe not found.
EmitWithoutPipe(l) ==
  /\ writer[l] = "idle" /\ ~pipe
  /\ writer' = [writer EXCEPT ![l] = "failed"]
  /\ UNCHANGED <<fifo, daemon, chain, control>>

\* open(PIPE_PATH, "w") lets the readers through that wait for a writer.
OpenForWriting(l) ==
  /\ writer[l] = "idle" /\ pipe
  /\ writer' = [writer EXCEPT ![l] = IF Readers = {} THEN "opening" ELSE "open"]
  /\ reader' = [p \in Pids |-> IF reader[p] = "opening" THEN "open" ELSE reader[p]]
  /\ UNCHANGED <<fifo, chunk, job, witness, chain, control>>

\* The buffered line is written when the file is closed.
WriteLine(l) ==
  /\ writer[l] = "open" /\ Readers # {}
  /\ writer' = [writer EXCEPT ![l] = "written"]
  /\ buffer' = Append(buffer, l)
  /\ job' = [job EXCEPT ![l].at = "buffered"]
  /\ UNCHANGED <<pipe, reader, chunk, witness, chain, control>>

\* Broken pipe: no reader is left.
WriteFails(l) ==
  /\ writer[l] = "open" /\ Readers = {}
  /\ writer' = [writer EXCEPT ![l] = "broken"]
  /\ UNCHANGED <<fifo, daemon, chain, control>>

\* The file is closed: "Successfully relayed state transition to ZK daemon.", or
\* "Failed to write to FIFO".
CloseAndReport(l) ==
  /\ \/ writer[l] = "written" /\ Leave(reader, [writer EXCEPT ![l] = "relayed"], {})
     \/ writer[l] = "broken" /\ Leave(reader, [writer EXCEPT ![l] = "failed"], {})
  /\ UNCHANGED <<pipe, chunk, witness, chain, control>>

-----------------------------------------------------------------------------
(* processPipe *)

Live(p) == reader[p] \notin {"unborn", "dead"}
LoopIsFree(p) == Live(p) /\ chunk[p] = <<>>

\* Mutant: the FIFO is opened when the daemon starts and never again.
OpenForReadingOnce(p) ==
  /\ reader[p] = "starting"
  /\ reader' = [reader EXCEPT ![p] = IF Writers = {} THEN "opening" ELSE "open"]
  /\ writer' = [l \in Lines |-> IF writer[l] = "opening" THEN "open" ELSE writer[l]]
  /\ UNCHANGED <<fifo, chunk, job, witness, chain, control>>

\* createReadStream, at the start and 100 ms after each close.
OpenForReading(p) ==
  /\ reader[p] \in {"starting", "closed"} /\ LoopIsFree(p)
  /\ reader' = [reader EXCEPT ![p] = IF Writers = {} THEN "opening" ELSE "open"]
  /\ writer' = [l \in Lines |-> IF writer[l] = "opening" THEN "open" ELSE writer[l]]
  /\ UNCHANGED <<fifo, chunk, job, witness, chain, control>>

\* Mutant: an error of a handler leaves the stream paused.
ReadChunkUnlessFailed(p) ==
  /\ reader[p] = "open" /\ LoopIsFree(p) /\ buffer # <<>>
  /\ \A l \in Lines : job[l].at # "logged"
  /\ chunk' = [chunk EXCEPT ![p] = buffer]
  /\ buffer' = <<>>
  /\ job' = [l \in Lines |->
               IF l \in Buffered THEN [job[l] EXCEPT !.at = "queued", !.by = p]
                                 ELSE job[l]]
  /\ UNCHANGED <<pipe, writer, reader, witness, chain, control>>

\* One read returns all there is, and its lines become line events.
ReadChunk(p) ==
  /\ reader[p] = "open" /\ LoopIsFree(p) /\ buffer # <<>>
  /\ chunk' = [chunk EXCEPT ![p] = buffer]
  /\ buffer' = <<>>
  /\ job' = [l \in Lines |->
               IF l \in Buffered THEN [job[l] EXCEPT !.at = "queued", !.by = p]
                                 ELSE job[l]]
  /\ UNCHANGED <<pipe, writer, reader, witness, chain, control>>

\* The read returns nothing: the last writer has closed ...
ReadEnd(p) ==
  /\ reader[p] = "open" /\ LoopIsFree(p) /\ buffer = <<>> /\ Writers = {}
  /\ reader' = [reader EXCEPT ![p] = "ended"]
  /\ UNCHANGED <<fifo, writer, chunk, job, witness, chain, control>>

\* ... and a moment later the stream closes its descriptor.
CloseStream(p) ==
  /\ reader[p] = "ended" /\ LoopIsFree(p)
  /\ Leave([reader EXCEPT ![p] = "closed"], writer, {})
  /\ UNCHANGED <<pipe, chunk, witness, chain, control>>

-----------------------------------------------------------------------------
(* processStateTransition *)

At(l, phase) == job[l].at = phase
GoOn(l, phase) == job' = [job EXCEPT ![l].at = phase]
End(l, phase) == job' = [job EXCEPT ![l] = Idle(phase)]
Proving(p) == {l \in Lines : At(l, "proving") /\ job[l].by = p}

\* Mutant: the prover is spawned without waiting for it.
StartProverAsync(p) ==
  \E l \in Lines :
    /\ Live(p) /\ At(l, "queued") /\ job[l].by = p
    /\ witness' = l
    /\ GoOn(l, "proving")
    /\ UNCHANGED <<fifo, writer, reader, chunk, chain, control>>

\* The next line of the chunk: its witness is written, the prover spawned ...
StartProver(p) ==
  /\ Live(p) /\ chunk[p] # <<>> /\ Proving(p) = {}
  /\ witness' = Head(chunk[p])
  /\ GoOn(Head(chunk[p]), "proving")
  /\ UNCHANGED <<fifo, writer, reader, chunk, chain, control>>

\* Mutant: an error of the prover is caught nowhere.
ProverReturnsUncaught(l) ==
  /\ At(l, "proving")
  /\ GoOn(l, "balance") \/ GoOn(l, "rejected")
  /\ chunk' = [chunk EXCEPT ![job[l].by] = Tail(@)]
  /\ UNCHANGED <<fifo, writer, reader, witness, chain, control>>

\* ... and spawnSync returns or fails.  What the prover printed is not looked at:
\* journal and proof are constants.
ProverReturns(l) ==
  /\ At(l, "proving")
  /\ GoOn(l, "balance") \/ End(l, "logged")
  /\ chunk' = [chunk EXCEPT ![job[l].by] = Tail(@)]
  /\ UNCHANGED <<fifo, writer, reader, witness, chain, control>>

\* A continuation of the handler of l, once the event loop gets to it.
Continues(l, phase) == At(l, phase) /\ LoopIsFree(job[l].by)

\* getBalance: an error, an account that can pay, or an empty one, for which the
\* settlement is simulated.
GetBalance(l) ==
  /\ Continues(l, "balance")
  /\ End(l, "logged") \/ GoOn(l, "nonce") \/ End(l, "returned")
  /\ UNCHANGED <<fifo, writer, reader, chunk, witness, chain, control>>

\* settleEngineState asks for the nonce of the account ...
GetNonce(l) ==
  /\ Continues(l, "nonce")
  /\ \/ job' = [job EXCEPT ![l] = [@ EXCEPT !.at = "send", !.nonce = Len(chain)]]
     \/ End(l, "logged")
  /\ UNCHANGED <<fifo, writer, reader, chunk, witness, chain, control>>

\* Mutant: a transaction without an answer is sent again.
SendRetries(l) ==
  /\ Continues(l, "send")
  /\ \/ /\ job[l].nonce = Len(chain)
        /\ chain' = Append(chain, l)
        /\ \E phase \in {"wait", "nonce"} :
             job' = [job EXCEPT ![l] = [@ EXCEPT !.at = phase, !.nonce = 0]]
     \/ UNCHANGED chain /\ End(l, "logged")
  /\ UNCHANGED <<fifo, writer, reader, chunk, witness, control>>

\* ... and sends: accepted if the nonce is still right, though the answer may
\* be lost; or not accepted.
Send(l) ==
  /\ Continues(l, "send")
  /\ \/ /\ job[l].nonce = Len(chain)
        /\ chain' = Append(chain, l)
        /\ \/ job' = [job EXCEPT ![l] = [@ EXCEPT !.at = "wait", !.nonce = 0]]
           \/ End(l, "logged")
     \/ UNCHANGED chain /\ End(l, "logged")
  /\ UNCHANGED <<fifo, writer, reader, chunk, witness, control>>

\* tx.wait(1): in a block, or an error.
Confirm(l) ==
  /\ Continues(l, "wait")
  /\ \E phase \in {"returned", "logged"} : End(l, phase)
  /\ UNCHANGED <<fifo, writer, reader, chunk, witness, chain, control>>

-----------------------------------------------------------------------------
(* service_control.sh *)

\* The daemons of P are gone, with what they had open and in flight.
Die(P) ==
  /\ Leave([p \in Pids |-> IF p \in P /\ Live(p) THEN "dead" ELSE reader[p]], writer,
           {l \in Lines : job[l].at \in InFlight /\ job[l].by \in P})
  /\ chunk' = [p \in Pids |-> IF p \in P THEN <<>> ELSE chunk[p]]
  /\ UNCHANGED <<pipe, witness, chain>>

\* The daemon ends; npx, its parent, is still there.
Crash(p) ==
  /\ "daemon" \in cast.mortal /\ Live(p)
  /\ Die({p})
  /\ UNCHANGED control

\* npx ends after its daemon, or by itself, and then the daemon lives on.
NpxEnds(p) ==
  /\ p \in npx /\ (Live(p) => "npx" \in cast.mortal)
  /\ npx' = npx \ {p}
  /\ disturbed' = (disturbed \/ Live(p))
  /\ UNCHANGED <<fifo, writer, daemon, chain, pidfile, script, cast>>

ScriptGoes(c, from, to) ==
  /\ script[c].at = from
  /\ script' = [script EXCEPT ![c] = IF to = "idle" THEN AtRest
                                                   ELSE [@ EXCEPT !.at = to]]

AtWork(c) == script[c].at # "idle"

\* A script is killed.  What it has launched stays unrecorded, what it has not
\* yet killed stays alive.
ScriptDies(c) ==
  /\ "script" \in cast.mortal /\ AtWork(c)
  /\ script' = [script EXCEPT ![c] = AtRest]
  /\ disturbed' = \/ disturbed
                   \/ /\ script[c].at \in {"record", "rm", "pkill"}
                      /\ \E p \in Pids : Live(p)
  /\ UNCHANGED <<fifo, writer, daemon, chain, pidfile, npx, cast>>

Run(c, command) ==
  /\ ~AtWork(c)
  /\ script' = [script EXCEPT ![c] =
                  [@ EXCEPT !.at = IF command = "start" THEN "check" ELSE "test",
                            !.again = (command = "restart")]]
  /\ disturbed' = (disturbed \/ \E d \in Callers : AtWork(d))
  /\ UNCHANGED <<fifo, writer, daemon, chain, pidfile, npx, cast>>

\* kill -0 asks for the process in the pid file, which is npx.
CheckRunning(c) ==
  /\ \/ pidfile \in npx /\ ScriptGoes(c, "check", "idle")
     \/ pidfile \notin npx /\ ScriptGoes(c, "check", "launch")
  /\ UNCHANGED <<fifo, writer, daemon, chain, pidfile, npx, disturbed, cast>>

Launch(c) ==
  /\ script[c].at = "launch"
  /\ \E p \in Pids :
       /\ reader[p] = "unborn"
       /\ reader' = [reader EXCEPT ![p] = "starting"]
       /\ npx' = npx \union {p}
       /\ script' = [script EXCEPT ![c] = [@ EXCEPT !.at = "record", !.pid = p]]
  /\ pipe' = TRUE
  /\ UNCHANGED <<buffer, writer, chunk, job, witness, chain, pidfile, disturbed,
                 cast>>

RecordPid(c) ==
  /\ ScriptGoes(c, "record", "idle")
  /\ pidfile' = script[c].pid
  /\ UNCHANGED <<fifo, writer, daemon, chain, npx, disturbed, cast>>

TestPidFile(c) ==
  /\ ScriptGoes(c, "test", IF pidfile = 0 THEN "pkill" ELSE "kill")
  /\ UNCHANGED <<fifo, writer, daemon, chain, pidfile, npx, disturbed, cast>>

\* kill -9 of npx leaves the daemon, its child.  If the file has gone since it
\* was tested, cat fails and the script ends there.
KillRecorded(c) ==
  /\ ScriptGoes(c, "kill", IF pidfile = 0 THEN "idle" ELSE "rm")
  /\ npx' = npx \ {pidfile}
  /\ UNCHANGED <<fifo, writer, daemon, chain, pidfile, disturbed, cast>>

RemovePidFile(c) ==
  /\ ScriptGoes(c, "rm", "pkill")
  /\ pidfile' = 0
  /\ UNCHANGED <<fifo, writer, daemon, chain, npx, disturbed, cast>>

\* Mutant: stop trusts the kill of the recorded process.
KillAllForgotten(c) ==
  /\ ScriptGoes(c, "pkill", IF script[c].again THEN "check" ELSE "idle")
  /\ UNCHANGED <<fifo, writer, daemon, chain, pidfile, npx, disturbed, cast>>

\* pkill -f "ZkRelayerDaemon" finds npx and daemon by their command lines.  If no
\* other script is at work, that clears away whatever was disturbed.
KillAll(c) ==
  /\ ScriptGoes(c, "pkill", IF script[c].again THEN "check" ELSE "idle")
  /\ Die(Pids)
  /\ npx' = {}
  /\ disturbed' = (disturbed /\ \E d \in Callers \ {c} : AtWork(d))
  /\ UNCHANGED <<pidfile, cast>>

-----------------------------------------------------------------------------
Emit(l) == EmitWithoutPipe(l) \/ OpenForWriting(l)
EmitGoesOn(l) == WriteLine(l) \/ WriteFails(l) \/ CloseAndReport(l)

Reads(p) ==
  OpenForReading(p) \/ ReadChunk(p) \/ ReadEnd(p) \/ CloseStream(p) \/ StartProver(p)
Handles(l) == ProverReturns(l) \/ GetBalance(l) \/ GetNonce(l) \/ Send(l)

Controls(c) ==
  \/ \E command \in cast.commands : Run(c, command)
  \/ CheckRunning(c) \/ Launch(c) \/ RecordPid(c) \/ TestPidFile(c)
  \/ KillRecorded(c) \/ RemovePidFile(c) \/ KillAll(c) \/ ScriptDies(c)

Next ==
  \/ \E l \in cast.lines : Emit(l)
  \/ \E l \in Lines : EmitGoesOn(l) \/ Handles(l) \/ Confirm(l)
  \/ \E p \in Pids : Reads(p) \/ Crash(p) \/ NpxEnds(p)
  \/ \E c \in cast.callers : Controls(c)

Spec == Init /\ [][Next]_vars

\* Processes run; the prover ends, and every request is answered or times out.
\* Nothing is assumed of blocks, and nobody has to run a script.
FairSpec ==
  /\ Spec
  /\ \A l \in Lines : WF_vars(EmitGoesOn(l)) /\ WF_vars(Handles(l))
  /\ \A p \in Pids : WF_vars(Reads(p))

-----------------------------------------------------------------------------
(* Properties *)

\* Files, processes and jobs keep their types.
TypeOK ==
  /\ pipe \in BOOLEAN /\ buffer \in Seq(Lines) /\ witness \in Lines \union {NoLine}
  /\ writer \in [Lines -> {"idle", "opening", "open", "written", "broken",
                       "relayed", "failed"}]
  /\ reader \in [Pids -> {"unborn", "starting", "opening", "open", "ended",
                          "closed", "dead"}]
  /\ chunk \in [Pids -> Seq(Lines)]
  /\ job \in [Lines -> Jobs]
  /\ chain \in Seq(Lines)
  /\ pidfile \in Pids \union {0} /\ npx \subseteq Pids
  /\ script \in [Callers -> Scripts]
  /\ disturbed \in BOOLEAN /\ cast \in Casts

\* service_control.sh:8-32: there is one daemon at most, whenever daemons die and
\* whatever stop was able to kill by the pid file.  The exceptions are what kill -0
\* of line 9 does not see: two scripts that run at one time, an npx that dies while
\* its daemon lives, a script killed after it has launched and before it has
\* recorded the pid (17-19), or after it has killed npx and before it has killed
\* the daemon (27-30).  From each of these a stop that runs to its end alone
\* recovers.
OneDaemon ==
  ~disturbed => \A p, q \in Pids : Live(p) /\ Live(q) => p = q

\* ZkRelayerDaemon.ts:32-41: all lines share one witness file, and still the prover
\* that runs for a line finds the witness of that line for as long as it runs, with
\* the exceptions of OneDaemon.  (The proof sent to the chain is a constant.)
WitnessIsOwn ==
  ~disturbed => \A l \in Lines : At(l, "proving") => witness = l

\* The relayer implements its promise: a line is settled at most once, and never
\* after its writer was told of a failure or the daemon gave it up.
Fate(l) ==
  CASE \E n \in DOMAIN chain : chain[n] = l -> "settled"
    [] OTHER ->
       CASE At(l, "none")                      -> IF writer[l] \in {"broken", "failed"}
                                                    THEN "refused" ELSE "new"
         [] job[l].at \in {"returned", "logged", "lost"} -> "dropped"
         [] OTHER                              -> "accepted"
Promise ==
  INSTANCE SettlementPromise WITH fate <- [l \in Lines |-> Fate(l)], ledger <- chain
PromiseKept == Promise!Spec

\* emit_to_relayer waits in open() for a reader: with a daemon that lives, it
\* comes back.
EmitReturns ==
  \A l \in Lines :
    writer[l] = "opening" ~> \/ writer[l] \in {"relayed", "failed"}
                             \/ \A p \in Pids : ~Live(p)

\* A line in the FIFO does not stay there while a daemon lives, with the exceptions
\* of OneDaemon: of two daemons one may die with the line unread while the other
\* waits for a next writer.
LineLeavesFifo ==
  \A l \in Lines :
    At(l, "buffered") ~> \/ ~At(l, "buffered") \/ disturbed
                        \/ \A p \in Pids : ~Live(p)

-----------------------------------------------------------------------------
(* A claim that does not hold *)

\* guest_uio_transport.py:216, "Successfully relayed state transition to ZK
\* daemon.": a daemon has the line, or will read it from the FIFO.
RelayedReachesDaemon ==
  \A l \in Lines : writer[l] = "relayed" => job[l].at # "lost"
=============================================================================
