---------------------------- MODULE RelayerProofs ----------------------------
(***************************************************************************)
(* Proofs about Relayer, for any number of lines, daemons and callers of   *)
(* service_control.sh.                                                     *)
(***************************************************************************)
EXTENDS Relayer, TLAPS

ReaderPlaces == {"unborn", "starting", "opening", "open", "ended", "closed", "dead"}
WriterPlaces == {"idle", "opening", "open", "written", "broken", "relayed", "failed"}
Types ==
  /\ pipe \in BOOLEAN /\ buffer \in Seq(Lines) /\ witness \in Lines \union {NoLine}
  /\ writer \in [Lines -> WriterPlaces] /\ reader \in [Pids -> ReaderPlaces]
  /\ chunk \in [Pids -> Seq(Lines)] /\ job \in [Lines -> Jobs] /\ chain \in Seq(Lines)

-----------------------------------------------------------------------------
(* Types *)

LEMMA TypesOfAll == TypeOK => Types
BY DEF TypeOK, Types, ReaderPlaces, WriterPlaces

LEMMA IdleJob == \A phase \in Phases : Idle(phase) \in Jobs
BY DEF Idle, Jobs

LEMMA JobSet ==
  ASSUME Types, NEW l \in Lines, NEW x \in Jobs
  PROVE  [job EXCEPT ![l] = x] \in [Lines -> Jobs]
BY DEF Types

LEMMA JobMoves ==
  ASSUME Types, NEW l \in Lines, NEW phase \in Phases
  PROVE  /\ [job EXCEPT ![l].at = phase] \in [Lines -> Jobs]
         /\ [job EXCEPT ![l] = Idle(phase)] \in [Lines -> Jobs]
<1>1. [job[l] EXCEPT !.at = phase] \in Jobs
  BY DEF Types, Jobs
<1>2. Idle(phase) \in Jobs
  BY IdleJob
<1> QED
  BY <1>1, <1>2 DEF Types

LEMMA LeaveTypes ==
  ASSUME Types, NEW rd, NEW wr, NEW S, Leave(rd, wr, S)
  PROVE  buffer' \in Seq(Lines) /\ job' \in [Lines -> Jobs]
<1>1. "lost" \in Phases
  BY DEF Phases
<1>2. \A T : Lose(job, T) \in [Lines -> Jobs]
  BY <1>1, IdleJob DEF Types, Lose
<1> QED
  BY <1>2 DEF Leave, Types

LEMMA DieTypes ==
  ASSUME Types, NEW P, Die(P)
  PROVE  Types'
<1> DEFINE rd == [p \in Pids |-> IF p \in P /\ Live(p) THEN "dead" ELSE reader[p]]
<1>1. rd \in [Pids -> ReaderPlaces]
  BY DEF Types, ReaderPlaces
<1>2. reader' = rd /\ writer' = writer
  BY DEF Die, Leave
<1>3. buffer' \in Seq(Lines) /\ job' \in [Lines -> Jobs]
  BY LeaveTypes DEF Die
<1>4. <<>> \in Seq(Lines)
  OBVIOUS
<1>5. chunk' \in [Pids -> Seq(Lines)]
  BY <1>4 DEF Die, Types
<1> HIDE DEF rd
<1> QED
  BY <1>1, <1>2, <1>3, <1>5 DEF Die, Types

\* What is at the prover is the first line of its daemon's chunk.
ProverInv ==
  \A l \in Lines : At(l, "proving") =>
    /\ job[l].by \in Pids /\ chunk[job[l].by] # <<>> /\ Head(chunk[job[l].by]) = l

\* The actions of the daemons and of emit_to_relayer.
LEMMA FlowTypes ==
  ASSUME Types, ProverInv,
         \/ \E l \in Lines : Emit(l) \/ EmitGoesOn(l) \/ Handles(l) \/ Confirm(l)
         \/ \E p \in Pids : Reads(p)
  PROVE  Types'
<1>0. /\ pipe \in BOOLEAN /\ buffer \in Seq(Lines) /\ witness \in Lines \union {NoLine}
      /\ writer \in [Lines -> WriterPlaces] /\ reader \in [Pids -> ReaderPlaces]
      /\ chunk \in [Pids -> Seq(Lines)] /\ job \in [Lines -> Jobs] /\ chain \in Seq(Lines)
  BY DEF Types
<1>p. {"buffered", "queued", "proving", "balance", "nonce", "send", "wait", "returned",
       "logged", "lost"} \subseteq Phases
  BY DEF Phases
<1>w. \A l \in Lines : \A w \in WriterPlaces : [writer EXCEPT ![l] = w] \in [Lines -> WriterPlaces]
  BY <1>0
<1>r. \A p \in Pids : \A r \in ReaderPlaces : [reader EXCEPT ![p] = r] \in [Pids -> ReaderPlaces]
  BY <1>0
<1>1. ASSUME NEW l \in Lines, EmitWithoutPipe(l) PROVE Types'
  BY <1>0, <1>1 DEF EmitWithoutPipe, Types, WriterPlaces, fifo, daemon
<1>2. ASSUME NEW l \in Lines, OpenForWriting(l) PROVE Types'
  BY <1>0, <1>2 DEF OpenForWriting, Types, WriterPlaces, ReaderPlaces, fifo
<1>3. ASSUME NEW l \in Lines, WriteLine(l) PROVE Types'
  <2>1. job' \in [Lines -> Jobs]
    BY <1>3, <1>p, JobMoves DEF WriteLine
  <2>2. buffer' \in Seq(Lines)
    BY <1>0, <1>3 DEF WriteLine
  <2> QED
    BY <1>0, <1>3, <2>1, <2>2 DEF WriteLine, Types, WriterPlaces
<1>4. ASSUME NEW l \in Lines, WriteFails(l) PROVE Types'
  BY <1>0, <1>4 DEF WriteFails, Types, WriterPlaces, fifo, daemon
<1>5. ASSUME NEW l \in Lines, CloseAndReport(l) PROVE Types'
  <2>1. buffer' \in Seq(Lines) /\ job' \in [Lines -> Jobs]
    BY <1>5, LeaveTypes DEF CloseAndReport
  <2>2. reader' = reader /\ writer' \in [Lines -> WriterPlaces]
    BY <1>0, <1>5 DEF CloseAndReport, Leave, WriterPlaces
  <2> QED
    BY <1>0, <1>5, <2>1, <2>2 DEF CloseAndReport, Types
<1>6. ASSUME NEW p \in Pids, OpenForReading(p) PROVE Types'
  <2>1. reader' \in [Pids -> ReaderPlaces]
    BY <1>0, <1>6 DEF OpenForReading, ReaderPlaces
  <2>2. writer' \in [Lines -> WriterPlaces]
    BY <1>0, <1>6 DEF OpenForReading, WriterPlaces
  <2> QED
    BY <1>0, <1>6, <2>1, <2>2 DEF OpenForReading, Types, fifo
<1>7. ASSUME NEW p \in Pids, ReadChunk(p) PROVE Types'
  <2>1. \A l \in Lines : [job[l] EXCEPT !.at = "queued", !.by = p] \in Jobs
    BY <1>0, <1>p DEF Jobs
  <2>2. job' \in [Lines -> Jobs]
    BY <1>0, <1>7, <2>1 DEF ReadChunk
  <2>3. <<>> \in Seq(Lines)
    OBVIOUS
  <2>4. chunk' \in [Pids -> Seq(Lines)] /\ buffer' \in Seq(Lines)
    BY <1>0, <1>7, <2>3 DEF ReadChunk
  <2> QED
    BY <1>0, <1>7, <2>2, <2>4 DEF ReadChunk, Types
<1>8. ASSUME NEW p \in Pids, ReadEnd(p) PROVE Types'
  BY <1>0, <1>8 DEF ReadEnd, Types, ReaderPlaces, fifo
<1>9. ASSUME NEW p \in Pids, CloseStream(p) PROVE Types'
  <2>1. buffer' \in Seq(Lines) /\ job' \in [Lines -> Jobs]
    BY <1>9, LeaveTypes DEF CloseStream
  <2>2. writer' = writer /\ reader' \in [Pids -> ReaderPlaces]
    BY <1>0, <1>9 DEF CloseStream, Leave, ReaderPlaces
  <2> QED
    BY <1>0, <1>9, <2>1, <2>2 DEF CloseStream, Types
<1>10. ASSUME NEW p \in Pids, StartProver(p) PROVE Types'
  <2>1. Head(chunk[p]) \in Lines
    BY <1>0, <1>10 DEF StartProver
  <2>2. job' \in [Lines -> Jobs]
    BY <1>10, <1>p, <2>1, JobMoves DEF StartProver, GoOn
  <2> QED
    BY <1>0, <1>10, <2>1, <2>2 DEF StartProver, Types, fifo
<1>11. ASSUME NEW l \in Lines, ProverReturns(l) PROVE Types'
  <2>2. job' \in [Lines -> Jobs]
    <3>1. CASE End(l, "logged")
      BY <1>p, <3>1, JobMoves DEF End
    <3>2. CASE GoOn(l, "balance")
      BY <1>p, <3>2, JobMoves DEF GoOn
    <3> QED
      BY <1>11, <3>1, <3>2 DEF ProverReturns
  <2>3. Tail(chunk[job[l].by]) \in Seq(Lines)
    <3>1. job[l].by \in Pids /\ chunk[job[l].by] # <<>>
      BY <1>11 DEF ProverReturns, ProverInv
    <3> QED
      BY <1>0, <3>1
  <2>4. chunk' \in [Pids -> Seq(Lines)]
    BY <1>0, <1>11, <2>3 DEF ProverReturns
  <2> QED
    BY <1>0, <1>11, <2>2, <2>4 DEF ProverReturns, Types, fifo
<1>12. ASSUME NEW l \in Lines, GetBalance(l) PROVE Types'
  <2>1. PICK phase \in {"logged", "nonce", "returned"} : End(l, phase) \/ GoOn(l, phase)
    BY <1>12 DEF GetBalance
  <2>2. job' \in [Lines -> Jobs]
    <3>1. CASE End(l, phase)
      BY <1>p, <3>1, JobMoves DEF End
    <3>2. CASE GoOn(l, phase)
      BY <1>p, <3>2, JobMoves DEF GoOn
    <3> QED
      BY <2>1, <3>1, <3>2
  <2> QED
    BY <1>0, <1>12, <2>2 DEF GetBalance, Types, fifo
<1>13. ASSUME NEW l \in Lines, GetNonce(l) PROVE Types'
  <2>1. Len(chain) \in Nat
    BY <1>0
  <2>2. [job[l] EXCEPT !.at = "send", !.nonce = Len(chain)] \in Jobs
    BY <1>0, <1>p, <2>1 DEF Jobs
  <2>3. job' \in [Lines -> Jobs]
    <3>1. CASE End(l, "logged")
      BY <1>p, <3>1, JobMoves DEF End
    <3> QED
      BY <1>13, <2>2, <3>1, JobSet DEF GetNonce
  <2> QED
    BY <1>0, <1>13, <2>3 DEF GetNonce, Types, fifo
<1>14. ASSUME NEW l \in Lines, Send(l) PROVE Types'
  <2>1. [job[l] EXCEPT !.at = "wait", !.nonce = 0] \in Jobs
    BY <1>0, <1>p DEF Jobs
  <2>2. job' \in [Lines -> Jobs]
    <3>1. CASE End(l, "logged")
      BY <1>p, <3>1, JobMoves DEF End
    <3> QED
      BY <1>14, <2>1, <3>1, JobSet DEF Send
  <2>3. chain' \in Seq(Lines)
    <3>1. Append(chain, l) \in Seq(Lines)
      BY <1>0
    <3> QED
      BY <1>0, <1>14, <3>1 DEF Send
  <2> QED
    BY <1>0, <1>14, <2>2, <2>3 DEF Send, Types, fifo
<1>15. ASSUME NEW l \in Lines, Confirm(l) PROVE Types'
  <2>1. PICK phase \in {"returned", "logged"} : End(l, phase)
    BY <1>15 DEF Confirm
  <2>2. job' \in [Lines -> Jobs]
    BY <1>p, <2>1, JobMoves DEF End
  <2> QED
    BY <1>0, <1>15, <2>2 DEF Confirm, Types, fifo
<1> QED
  BY <1>1, <1>2, <1>3, <1>4, <1>5, <1>6, <1>7, <1>8, <1>9, <1>10, <1>11, <1>12,
     <1>13, <1>14, <1>15
  DEF Emit, EmitGoesOn, Handles, Reads

ControlTypes ==
  /\ pidfile \in Pids \union {0} /\ npx \subseteq Pids
  /\ script \in [Callers -> Scripts]
  /\ disturbed \in BOOLEAN /\ cast \in Casts

LEMMA ScriptTypes ==
  ASSUME ControlTypes, NEW c \in Callers, NEW from, NEW to,
         to \in {"idle", "check", "launch", "record", "test", "kill", "rm", "pkill"},
         ScriptGoes(c, from, to)
  PROVE  script' \in [Callers -> Scripts]
<1>1. [script[c] EXCEPT !.at = to] \in Scripts
  BY DEF ControlTypes, Scripts
<1>2. AtRest \in Scripts
  BY DEF AtRest, Scripts
<1> QED
  BY <1>1, <1>2 DEF ScriptGoes, ControlTypes

LEMMA ControlStepTypes ==
  ASSUME Types, ControlTypes, NEW c \in Callers, Controls(c)
  PROVE  Types' /\ ControlTypes'
<1> USE DEF ControlTypes
<1>1. ASSUME NEW command, Run(c, command) PROVE Types' /\ ControlTypes'
  <2>1. [script[c] EXCEPT !.at = IF command = "start" THEN "check" ELSE "test",
                          !.again = (command = "restart")] \in Scripts
    BY DEF Scripts
  <2>2. script' \in [Callers -> Scripts]
    BY <1>1, <2>1 DEF Run
  <2>3. disturbed' \in BOOLEAN
    BY <1>1 DEF Run
  <2> QED
    BY <1>1, <2>2, <2>3 DEF Run, Types, fifo, daemon
<1>2. CASE CheckRunning(c)
  <2>1. script' \in [Callers -> Scripts]
    BY <1>2, ScriptTypes DEF CheckRunning
  <2> QED
    BY <1>2, <2>1 DEF CheckRunning, Types, fifo, daemon
<1>3. CASE Launch(c)
  <2>1. PICK p \in Pids :
          /\ reader' = [reader EXCEPT ![p] = "starting"] /\ npx' = npx \union {p}
          /\ script' = [script EXCEPT ![c] = [@ EXCEPT !.at = "record", !.pid = p]]
    BY <1>3 DEF Launch
  <2>2. [script[c] EXCEPT !.at = "record", !.pid = p] \in Scripts
    BY DEF Scripts
  <2>3. script' \in [Callers -> Scripts]
    BY <2>1, <2>2
  <2>4. reader' \in [Pids -> ReaderPlaces]
    BY <2>1 DEF Types, ReaderPlaces
  <2> QED
    BY <1>3, <2>1, <2>3, <2>4 DEF Launch, Types
<1>4. CASE RecordPid(c)
  <2>1. script' \in [Callers -> Scripts]
    BY <1>4, ScriptTypes DEF RecordPid
  <2>2. pidfile' \in Pids \union {0}
    BY <1>4 DEF RecordPid, Scripts
  <2> QED
    BY <1>4, <2>1, <2>2 DEF RecordPid, Types, fifo, daemon
<1>5. CASE TestPidFile(c)
  <2>1. script' \in [Callers -> Scripts]
    BY <1>5, ScriptTypes DEF TestPidFile
  <2> QED
    BY <1>5, <2>1 DEF TestPidFile, Types, fifo, daemon
<1>6. CASE KillRecorded(c)
  <2>1. script' \in [Callers -> Scripts]
    BY <1>6, ScriptTypes DEF KillRecorded
  <2> QED
    BY <1>6, <2>1 DEF KillRecorded, Types, fifo, daemon
<1>7. CASE RemovePidFile(c)
  <2>1. script' \in [Callers -> Scripts]
    BY <1>7, ScriptTypes DEF RemovePidFile
  <2> QED
    BY <1>7, <2>1 DEF RemovePidFile, Types, fifo, daemon
<1>8. CASE KillAll(c)
  <2>1. script' \in [Callers -> Scripts]
    BY <1>8, ScriptTypes DEF KillAll
  <2>2. Types'
    BY <1>8, DieTypes DEF KillAll
  <2>3. disturbed' \in BOOLEAN
    BY <1>8 DEF KillAll
  <2> QED
    BY <1>8, <2>1, <2>2, <2>3 DEF KillAll
<1>9. CASE ScriptDies(c)
  <2>1. AtRest \in Scripts
    BY DEF AtRest, Scripts
  <2>2. script' \in [Callers -> Scripts]
    BY <1>9, <2>1 DEF ScriptDies
  <2>3. disturbed' \in BOOLEAN
    BY <1>9 DEF ScriptDies
  <2> QED
    BY <1>9, <2>2, <2>3 DEF ScriptDies, Types, fifo, daemon
<1> QED
  BY <1>1, <1>2, <1>3, <1>4, <1>5, <1>6, <1>7, <1>8, <1>9 DEF Controls

LEMMA FlowKeepsControl ==
  ASSUME \/ \E l \in Lines : Emit(l) \/ EmitGoesOn(l) \/ Handles(l) \/ Confirm(l)
         \/ \E p \in Pids : Reads(p)
  PROVE  UNCHANGED control
BY DEF Emit, EmitGoesOn, Handles, Reads, EmitWithoutPipe, OpenForWriting, WriteLine,
   WriteFails, CloseAndReport, OpenForReading, ReadChunk, ReadEnd, CloseStream,
   StartProver, ProverReturns, GetBalance, GetNonce, Send, Confirm

\* A step is one of these.
LEMMA StepCases ==
  ASSUME TypeOK, [Next]_vars
  PROVE  \/ \E l \in Lines : Emit(l) \/ EmitGoesOn(l) \/ Handles(l) \/ Confirm(l)
         \/ \E p \in Pids : Reads(p)
         \/ \E p \in Pids : Crash(p)
         \/ \E p \in Pids : NpxEnds(p)
         \/ \E c \in Callers : Controls(c)
         \/ UNCHANGED vars
<1>1. cast.lines \subseteq Lines /\ cast.callers \subseteq Callers
  BY CastAssumption DEF TypeOK
<1> QED
  BY <1>1 DEF Next

LEMMA StepTypes == TypeOK /\ ProverInv /\ [Next]_vars => TypeOK'
<1> SUFFICES ASSUME TypeOK, ProverInv, [Next]_vars PROVE TypeOK'
  OBVIOUS
<1>0. Types /\ ControlTypes
  BY DEF TypeOK, Types, ControlTypes, ReaderPlaces, WriterPlaces
<1>1. Types' /\ ControlTypes' => TypeOK'
  BY DEF TypeOK, Types, ControlTypes, ReaderPlaces, WriterPlaces
<1>2. ASSUME \/ \E l \in Lines : Emit(l) \/ EmitGoesOn(l) \/ Handles(l) \/ Confirm(l)
             \/ \E p \in Pids : Reads(p)
      PROVE  TypeOK'
  <2>1. Types'
    BY <1>0, <1>2, FlowTypes
  <2>2. ControlTypes'
    BY <1>0, <1>2, FlowKeepsControl DEF ControlTypes, control
  <2> QED
    BY <1>1, <2>1, <2>2
<1>3. ASSUME NEW p \in Pids, Crash(p) PROVE TypeOK'
  <2>1. Types'
    BY <1>0, <1>3, DieTypes DEF Crash
  <2>2. ControlTypes'
    BY <1>0, <1>3 DEF Crash, ControlTypes, control
  <2> QED
    BY <1>1, <2>1, <2>2
<1>6. ASSUME NEW p \in Pids, NpxEnds(p) PROVE TypeOK'
  <2>1. disturbed' \in BOOLEAN /\ npx' \subseteq Pids
    BY <1>0, <1>6 DEF NpxEnds, ControlTypes
  <2>2. Types' /\ ControlTypes'
    BY <1>0, <1>6, <2>1 DEF NpxEnds, Types, ControlTypes, fifo, daemon
  <2> QED
    BY <1>1, <2>2
<1>4. ASSUME NEW c \in Callers, Controls(c) PROVE TypeOK'
  BY <1>0, <1>1, <1>4, ControlStepTypes
<1>5. CASE UNCHANGED vars
  BY <1>5 DEF vars, fifo, daemon, control, TypeOK
<1> QED
  BY <1>2, <1>3, <1>4, <1>5, <1>6, StepCases

LEMMA InitTypes == Init => TypeOK
<1> SUFFICES ASSUME Init PROVE TypeOK
  OBVIOUS
<1>1. Idle("none") \in Jobs
  BY IdleJob DEF Phases
<1>2. AtRest \in Scripts
  BY DEF AtRest, Scripts
<1>3. <<>> \in Seq(Lines)
  OBVIOUS
<1>4. job \in [Lines -> Jobs] /\ script \in [Callers -> Scripts]
        /\ chunk \in [Pids -> Seq(Lines)]
  BY <1>1, <1>2, <1>3 DEF Init
<1>5. /\ pipe \in BOOLEAN /\ disturbed \in BOOLEAN /\ cast \in Casts /\ npx \subseteq Pids
      /\ pidfile = 0 /\ witness = NoLine /\ buffer = <<>> /\ chain = <<>>
  BY DEF Init
<1>6. /\ writer = [l \in Lines |-> "idle"] /\ reader = [p \in Pids |-> "unborn"]
  BY DEF Init
<1> QED
  BY <1>3, <1>4, <1>5, <1>6 DEF TypeOK

-----------------------------------------------------------------------------
(* One daemon at a time *)

\* Undisturbed: a daemon that lives is the child of the npx in the pid file, which
\* lives too, or a script is between the steps at which this does not hold.
ControlInv ==
  ~disturbed =>
    /\ \A c, d \in Callers : AtWork(c) /\ AtWork(d) => c = d
    /\ \A c \in Callers : script[c].at = "kill" => pidfile # 0
    /\ \A p, q \in Pids : Live(p) /\ Live(q) => p = q
    /\ \A p \in Pids : Live(p) =>
         /\ (\A c \in Callers : script[c].at \notin {"record", "rm", "pkill"})
              => p \in npx /\ p = pidfile
         /\ \A c \in Callers :
              /\ script[c].at # "launch"
              /\ script[c].at = "record" => p = script[c].pid /\ p \in npx

LEMMA FlowKeepsLive ==
  ASSUME Types,
         \/ \E l \in Lines : Emit(l) \/ EmitGoesOn(l) \/ Handles(l) \/ Confirm(l)
         \/ \E p \in Pids : Reads(p)
  PROVE  \A q \in Pids : Live(q)' <=> Live(q)
<1>0. reader \in [Pids -> ReaderPlaces]
  BY DEF Types
<1>1. ASSUME NEW l \in Lines, Emit(l) PROVE \A q \in Pids : Live(q)' <=> Live(q)
  BY <1>0, <1>1 DEF Emit, EmitWithoutPipe, OpenForWriting, Live, daemon
<1>2. ASSUME NEW l \in Lines, EmitGoesOn(l) PROVE reader' = reader
  BY <1>2 DEF EmitGoesOn, WriteLine, WriteFails, CloseAndReport, Leave, daemon
<1>3. ASSUME NEW l \in Lines, Handles(l) \/ Confirm(l) PROVE reader' = reader
  BY <1>3 DEF Handles, ProverReturns, GetBalance, GetNonce, Send, Confirm
<1>4. ASSUME NEW p \in Pids, OpenForReading(p)
      PROVE  \A q \in Pids : Live(q)' <=> Live(q)
  BY <1>0, <1>4 DEF OpenForReading, Live
<1>5. ASSUME NEW p \in Pids, ReadEnd(p)
      PROVE  \A q \in Pids : Live(q)' <=> Live(q)
  BY <1>0, <1>5 DEF ReadEnd, Live
<1>6. ASSUME NEW p \in Pids, CloseStream(p)
      PROVE  \A q \in Pids : Live(q)' <=> Live(q)
  BY <1>0, <1>6 DEF CloseStream, Leave, Live
<1>7. ASSUME NEW p \in Pids, ReadChunk(p) \/ StartProver(p) PROVE reader' = reader
  BY <1>7 DEF ReadChunk, StartProver
<1> QED
  BY <1>1, <1>2, <1>3, <1>4, <1>5, <1>6, <1>7 DEF Reads, Live

LEMMA DieEndsLife ==
  ASSUME NEW P, Die(P)
  PROVE  \A q \in Pids : Live(q)' <=> Live(q) /\ q \notin P
BY DEF Die, Leave, Live

LEMMA ScriptMoved ==
  ASSUME ControlTypes, NEW c \in Callers, NEW from, NEW to, ScriptGoes(c, from, to)
  PROVE  /\ script[c].at = from /\ script'[c].at = to
         /\ to # "idle" => script'[c].pid = script[c].pid
         /\ \A d \in Callers : d # c => script'[d] = script[d]
<1>1. script \in [Callers -> Scripts]
  BY DEF ControlTypes
<1>2. [script[c] EXCEPT !.at = to].at = to /\ [script[c] EXCEPT !.at = to].pid = script[c].pid
  BY <1>1 DEF Scripts
<1>3. AtRest.at = "idle"
  BY DEF AtRest
<1> QED
  BY <1>1, <1>2, <1>3 DEF ScriptGoes

LEMMA InitControl == Init => ControlInv
BY DEF Init, ControlInv, AtWork, AtRest, Live

LEMMA ControlStep == TypeOK /\ ControlInv /\ [Next]_vars => ControlInv'
<1> SUFFICES ASSUME TypeOK, ControlInv, [Next]_vars, ~disturbed' PROVE ControlInv'
  BY DEF ControlInv
<1>0. Types /\ ControlTypes /\ 0 \notin Pids
  BY PidAssumption DEF TypeOK, Types, ControlTypes, ReaderPlaces, WriterPlaces
<1>1. ASSUME UNCHANGED control, \A q \in Pids : Live(q)' <=> Live(q) PROVE ControlInv'
  BY <1>1 DEF ControlInv, control, AtWork
<1>2. ASSUME NEW p \in Pids, Crash(p) PROVE ControlInv'
  <2>1. \A q \in Pids : Live(q)' <=> Live(q) /\ q # p
    BY <1>2, DieEndsLife DEF Crash
  <2>2. UNCHANGED <<npx, pidfile, script, disturbed>>
    BY <1>2 DEF Crash, control
  <2> QED
    BY <2>1, <2>2 DEF ControlInv, AtWork
<1>14. ASSUME NEW p \in Pids, NpxEnds(p) PROVE ControlInv'
  <2>1. ~disturbed /\ ~Live(p) /\ npx' = npx \ {p}
    BY <1>14 DEF NpxEnds
  <2>2. UNCHANGED <<reader, pidfile, script>>
    BY <1>14 DEF NpxEnds, daemon
  <2> QED
    BY <2>1, <2>2 DEF ControlInv, AtWork, Live
<1>3. ASSUME NEW c \in Callers, NEW command, Run(c, command) PROVE ControlInv'
  <2>1. /\ \A d \in Callers : script[d].at = "idle"
        /\ ~disturbed /\ UNCHANGED <<pidfile, npx, reader>>
    BY <1>3 DEF Run, daemon, AtWork
  <2>2. /\ script'[c].at \in {"check", "test"}
        /\ \A d \in Callers : d # c => script'[d] = script[d]
    BY <1>0, <1>3 DEF Run, ControlTypes, Scripts
  <2> QED
    BY <2>1, <2>2 DEF ControlInv, AtWork, Live
<1>4. ASSUME NEW c \in Callers, CheckRunning(c) PROVE ControlInv'
  <2>0. UNCHANGED <<pidfile, npx, disturbed, reader>>
    BY <1>4 DEF CheckRunning, daemon
  <2>1. /\ script[c].at = "check" /\ \A d \in Callers : d # c => script'[d] = script[d]
        /\ \/ script'[c].at = "idle"
           \/ script'[c].at = "launch" /\ pidfile \notin npx
    BY <1>0, <1>4, ScriptMoved DEF CheckRunning
  <2>2. \A d \in Callers : d # c => script[d].at = "idle"
    BY <2>0, <2>1 DEF ControlInv, AtWork
  <2>3. \A p \in Pids : Live(p) => p \in npx /\ p = pidfile
    BY <2>0, <2>1, <2>2 DEF ControlInv
  <2> QED
    BY <2>0, <2>1, <2>2, <2>3 DEF ControlInv, AtWork, Live
<1>5. ASSUME NEW c \in Callers, Launch(c) PROVE ControlInv'
  <2>1. PICK p \in Pids :
          /\ reader' = [reader EXCEPT ![p] = "starting"] /\ npx' = npx \union {p}
          /\ script' = [script EXCEPT ![c] = [@ EXCEPT !.at = "record", !.pid = p]]
    BY <1>5 DEF Launch
  <2>2. script[c].at = "launch" /\ UNCHANGED <<pidfile, disturbed>>
    BY <1>5 DEF Launch
  <2>3. /\ script'[c].at = "record" /\ script'[c].pid = p
        /\ \A d \in Callers : d # c => script'[d] = script[d]
    BY <1>0, <2>1 DEF ControlTypes, Scripts
  <2>4. \A d \in Callers : d # c => script[d].at = "idle"
    BY <2>2 DEF ControlInv, AtWork
  <2>5. \A q \in Pids : ~Live(q)
    BY <2>2 DEF ControlInv
  <2>6. \A q \in Pids : Live(q)' => q = p
    BY <1>0, <2>1, <2>5 DEF Live, Types
  <2> QED
    BY <2>1, <2>2, <2>3, <2>4, <2>6 DEF ControlInv, AtWork
<1>6. ASSUME NEW c \in Callers, RecordPid(c) PROVE ControlInv'
  <2>0. UNCHANGED <<npx, disturbed, reader>> /\ pidfile' = script[c].pid
    BY <1>6 DEF RecordPid, daemon
  <2>1. /\ script[c].at = "record" /\ script'[c].at = "idle"
        /\ \A d \in Callers : d # c => script'[d] = script[d]
    BY <1>0, <1>6, ScriptMoved DEF RecordPid
  <2>2. \A d \in Callers : d # c => script[d].at = "idle"
    BY <2>0, <2>1 DEF ControlInv, AtWork
  <2> QED
    BY <2>0, <2>1, <2>2 DEF ControlInv, AtWork, Live
<1>7. ASSUME NEW c \in Callers, TestPidFile(c) PROVE ControlInv'
  <2>0. UNCHANGED <<pidfile, npx, disturbed, reader>>
    BY <1>7 DEF TestPidFile, daemon
  <2>1. /\ script[c].at = "test" /\ \A d \in Callers : d # c => script'[d] = script[d]
        /\ script'[c].at = IF pidfile = 0 THEN "pkill" ELSE "kill"
    BY <1>0, <1>7, ScriptMoved DEF TestPidFile
  <2>2. \A d \in Callers : d # c => script[d].at = "idle"
    BY <2>0, <2>1 DEF ControlInv, AtWork
  <2>3. \A p \in Pids : Live(p) => p \in npx /\ p = pidfile
    BY <2>0, <2>1, <2>2 DEF ControlInv
  <2> QED
    BY <1>0, <2>0, <2>1, <2>2, <2>3 DEF ControlInv, AtWork, Live
<1>8. ASSUME NEW c \in Callers, KillRecorded(c) PROVE ControlInv'
  <2>0. UNCHANGED <<pidfile, disturbed, reader>>
    BY <1>8 DEF KillRecorded, daemon
  <2>1. script[c].at = "kill" /\ pidfile # 0
    BY <1>0, <1>8, <2>0, ScriptMoved DEF KillRecorded, ControlInv
  <2>2. script'[c].at = "rm" /\ \A d \in Callers : d # c => script'[d] = script[d]
    BY <1>0, <1>8, <2>1, ScriptMoved DEF KillRecorded
  <2>3. \A d \in Callers : d # c => script[d].at = "idle"
    BY <2>0, <2>1 DEF ControlInv, AtWork
  <2> QED
    BY <2>0, <2>1, <2>2, <2>3 DEF ControlInv, AtWork, Live
<1>9. ASSUME NEW c \in Callers, RemovePidFile(c) PROVE ControlInv'
  <2>0. UNCHANGED <<disturbed, reader>>
    BY <1>9 DEF RemovePidFile, daemon
  <2>1. /\ script[c].at = "rm" /\ script'[c].at = "pkill"
        /\ \A d \in Callers : d # c => script'[d] = script[d]
    BY <1>0, <1>9, ScriptMoved DEF RemovePidFile
  <2>2. \A d \in Callers : d # c => script[d].at = "idle"
    BY <2>0, <2>1 DEF ControlInv, AtWork
  <2> QED
    BY <2>0, <2>1, <2>2 DEF ControlInv, AtWork, Live
<1>10. ASSUME NEW c \in Callers, KillAll(c) PROVE ControlInv'
  <2>1. /\ script[c].at = "pkill" /\ script'[c].at \in {"check", "idle"}
        /\ \A d \in Callers : d # c => script'[d] = script[d]
    BY <1>0, <1>10, ScriptMoved DEF KillAll
  <2>2. \A d \in Callers : d # c => script[d].at = "idle"
    <3>1. CASE disturbed
      BY <1>10, <3>1 DEF KillAll, AtWork
    <3>2. CASE ~disturbed
      BY <2>1, <3>2 DEF ControlInv, AtWork
    <3> QED
      BY <3>1, <3>2
  <2>3. \A q \in Pids : ~Live(q)'
    BY <1>10, DieEndsLife DEF KillAll
  <2> QED
    BY <2>1, <2>2, <2>3 DEF ControlInv, AtWork
<1>15. ASSUME NEW c \in Callers, ScriptDies(c) PROVE ControlInv'
  <2>0. UNCHANGED <<pidfile, npx, reader>> /\ ~disturbed
    BY <1>15 DEF ScriptDies, daemon
  <2>1. /\ script[c].at # "idle" /\ script'[c].at = "idle"
        /\ \A d \in Callers : d # c => script'[d] = script[d]
    BY <1>0, <1>15 DEF ScriptDies, ControlTypes, AtRest, AtWork
  <2>2. \A d \in Callers : d # c => script[d].at = "idle"
    BY <2>0, <2>1 DEF ControlInv, AtWork
  <2>3. script[c].at \in {"record", "rm", "pkill"} => \A q \in Pids : ~Live(q)
    BY <1>15 DEF ScriptDies
  <2>4. \A q \in Pids : Live(q) => q \in npx /\ q = pidfile
    BY <2>0, <2>2, <2>3 DEF ControlInv
  <2> QED
    BY <2>0, <2>1, <2>2, <2>4 DEF ControlInv, AtWork, Live
<1>11. ASSUME NEW c \in Callers, Controls(c) PROVE ControlInv'
  BY <1>3, <1>4, <1>5, <1>6, <1>7, <1>8, <1>9, <1>10, <1>11, <1>15
  DEF Controls
<1>12. ASSUME \/ \E l \in Lines : Emit(l) \/ EmitGoesOn(l) \/ Handles(l) \/ Confirm(l)
              \/ \E p \in Pids : Reads(p)
       PROVE  ControlInv'
  BY <1>0, <1>1, <1>12, FlowKeepsControl, FlowKeepsLive
<1>13. CASE UNCHANGED vars
  BY <1>1, <1>13 DEF vars, control, daemon, Live
<1> QED
  BY <1>2, <1>11, <1>12, <1>13, <1>14, StepCases

-----------------------------------------------------------------------------
(* Where a line is *)

Distinct(s) == \A i, j \in 1 .. Len(s) : s[i] = s[j] => i = j

LEMMA AppendDistinct ==
  ASSUME NEW S, NEW s \in Seq(S), NEW x \in S, Distinct(s),
         \A i \in 1 .. Len(s) : s[i] # x
  PROVE  Distinct(Append(s, x))
BY DEF Distinct

LEMMA TailDistinct ==
  ASSUME NEW S, NEW s \in Seq(S), s # <<>>, Distinct(s)
  PROVE  /\ Distinct(Tail(s))
         /\ \A i \in 1 .. Len(Tail(s)) :
              /\ i + 1 \in 1 .. Len(s) /\ Tail(s)[i] = s[i + 1]
              /\ Tail(s)[i] # Head(s)
<1>1. Len(Tail(s)) = Len(s) - 1 /\ Len(s) >= 1 /\ Len(s) \in Nat /\ Head(s) = s[1]
  OBVIOUS
<1>2. \A i \in 1 .. Len(Tail(s)) : i + 1 \in 1 .. Len(s) /\ Tail(s)[i] = s[i + 1]
  BY <1>1
<1>3. \A i \in 1 .. Len(Tail(s)) : i # 0 /\ i + 1 # 1
  BY <1>1
<1> QED
  BY <1>1, <1>2, <1>3 DEF Distinct

Delivered(w) == w \in {"written", "relayed"}

\* A line that was not written has no job, and the others have.
WriteInv == \A l \in Lines : At(l, "none") <=> ~Delivered(writer[l])
\* Bytes in the FIFO belong to nobody, each line once.
BufferInv ==
  Distinct(buffer) /\ \A i \in 1 .. Len(buffer) : At(buffer[i], "buffered")
\* The lines of a chunk wait for their turn in their daemon, each once.
ChunkInv ==
  \A p \in Pids :
    /\ Distinct(chunk[p])
    /\ \A i \in 1 .. Len(chunk[p]) :
         job[chunk[p][i]].at \in {"queued", "proving"} /\ job[chunk[p][i]].by = p
\* What was accepted by the chain is past its one transaction.
ChainInv ==
  \A i \in 1 .. Len(chain) : job[chain[i]].at \in {"wait", "returned", "logged", "lost"}
\* Whoever has a line in hand lives.
LifeInv ==
  \A l \in Lines : job[l].at \in InFlight => job[l].by \in Pids /\ Live(job[l].by)

JobInv == WriteInv /\ BufferInv /\ ChunkInv /\ ChainInv /\ LifeInv /\ ProverInv

LEMMA InitJobs == Init => JobInv
<1> SUFFICES ASSUME Init PROVE JobInv
  OBVIOUS
<1>1. \A l \in Lines : job[l].at = "none" /\ writer[l] = "idle"
  BY DEF Init, Idle
<1>2. buffer = <<>> /\ chain = <<>> /\ \A p \in Pids : chunk[p] = <<>>
  BY DEF Init
<1>3. Len(<<>>) = 0
  OBVIOUS
<1> QED
  BY <1>1, <1>2, <1>3 DEF JobInv, WriteInv, BufferInv, ChunkInv, ChainInv, LifeInv,
     ProverInv, Distinct, Delivered, At, InFlight

\* Nothing happens to the jobs, and nobody who lives dies.
LEMMA JobsStay ==
  ASSUME JobInv, UNCHANGED <<buffer, chunk, job, chain>>,
         \A q \in Pids : Live(q) => Live(q)',
         \A l \in Lines : Delivered(writer[l])' <=> Delivered(writer[l])
  PROVE  JobInv'
BY DEF JobInv, WriteInv, BufferInv, ChunkInv, ChainInv, LifeInv, ProverInv, At

\* A handler goes on after its prover.
LEMMA HandlerGoes ==
  ASSUME Types, JobInv, UNCHANGED <<buffer, chunk, reader, writer>>,
         NEW l \in Lines, job[l].at \in {"balance", "nonce", "send", "wait"},
         \A k \in Lines : k # l => job'[k] = job[k],
         job'[l].at \in {"nonce", "send", "wait", "logged", "returned"},
         job'[l].at \in InFlight => job'[l].by = job[l].by,
         \/ /\ chain' = chain
            /\ job[l].at = "wait" => job'[l].at \in {"logged", "returned"}
         \/ chain' = Append(chain, l) /\ job'[l].at \in {"wait", "logged"}
  PROVE  JobInv'
<1>1. \A k \in Lines : k # l => job'[k] = job[k]
  OBVIOUS
<1>2. WriteInv'
  BY <1>1 DEF JobInv, WriteInv, At
<1>3. BufferInv'
  BY <1>1 DEF JobInv, BufferInv, At, Types
<1>4. ChunkInv'
  <2>1. \A p \in Pids : chunk[p] \in Seq(Lines)
    BY DEF Types
  <2>2. \A p \in Pids : \A i \in 1 .. Len(chunk[p]) : chunk[p][i] \in Lines /\ chunk[p][i] # l
    BY <2>1 DEF JobInv, ChunkInv
  <2> QED
    BY <1>1, <2>2 DEF JobInv, ChunkInv
<1>5. ChainInv'
  <2>1. \A i \in 1 .. Len(chain) : chain[i] \in Lines
    BY DEF Types
  <2>2. CASE /\ chain' = chain
             /\ job[l].at = "wait" => job'[l].at \in {"logged", "returned"}
    BY <1>1, <2>1, <2>2 DEF JobInv, ChainInv
  <2>3. CASE chain' = Append(chain, l) /\ job'[l].at \in {"wait", "logged"}
    <3>1. \A i \in 1 .. Len(chain') :
            \/ i \in 1 .. Len(chain) /\ chain'[i] = chain[i]
            \/ chain'[i] = l
      BY <2>3 DEF Types
    <3> QED
      BY <1>1, <2>1, <2>3, <3>1 DEF JobInv, ChainInv
  <2> QED
    BY <2>2, <2>3
<1>6. LifeInv'
  BY <1>1 DEF JobInv, LifeInv, InFlight, Live
<1>7. ProverInv'
  BY <1>1 DEF JobInv, ProverInv, At
<1> QED
  BY <1>2, <1>3, <1>4, <1>5, <1>6, <1>7 DEF JobInv

\* The lines of T are lost, with the bytes or with the daemons that had them.
LEMMA LostJobs ==
  ASSUME NEW T, job' = Lose(job, T)
  PROVE  \A l \in Lines : job'[l] = IF l \in T THEN Idle("lost") ELSE job[l]
BY DEF Lose

LEMMA LostWrite ==
  ASSUME NEW T, job' = Lose(job, T), WriteInv,
         \A l \in Lines : l \in T => job[l].at \in InFlight \union {"buffered"},
         \A l \in Lines : Delivered(writer[l])' <=> Delivered(writer[l])
  PROVE  WriteInv'
<1>1. Idle("lost").at = "lost"
  BY DEF Idle
<1>2. \A l \in Lines : l \in T => job[l].at # "none" /\ job'[l].at # "none"
  BY <1>1, LostJobs DEF InFlight
<1>3. \A l \in Lines : l \notin T => job'[l] = job[l]
  BY LostJobs
<1> QED
  BY <1>2, <1>3 DEF WriteInv, At, Delivered

LEMMA LostChain ==
  ASSUME Types, NEW T, job' = Lose(job, T), ChainInv, chain' = chain
  PROVE  ChainInv'
<1>1. Idle("lost").at = "lost"
  BY DEF Idle
<1>2. \A i \in 1 .. Len(chain) : chain[i] \in Lines
  BY DEF Types
<1>3. \A i \in 1 .. Len(chain) :
        job'[chain[i]] = IF chain[i] \in T THEN Idle("lost") ELSE job[chain[i]]
  BY <1>2, LostJobs
<1> QED
  BY <1>1, <1>3 DEF ChainInv

LEMMA LostLife ==
  ASSUME NEW T, job' = Lose(job, T), LifeInv, ProverInv,
         \A p \in Pids : \A l \in Lines :
           l \notin T /\ job[l].at \in InFlight /\ job[l].by = p =>
             Live(p)' /\ chunk'[p] = chunk[p]
  PROVE  LifeInv' /\ ProverInv'
<1>1. Idle("lost").at \notin InFlight /\ Idle("lost").at # "proving"
  BY DEF Idle, InFlight
<1>2. ASSUME NEW l \in Lines, job'[l].at \in InFlight
      PROVE  job'[l].by \in Pids /\ Live(job[l].by)'
  <2>1. l \notin T /\ job'[l] = job[l]
    BY <1>1, <1>2, LostJobs
  <2>2. PICK p \in Pids : p = job[l].by
    BY <1>2, <2>1 DEF LifeInv
  <2>3. Live(p)'
    BY <1>2, <2>1, <2>2
  <2> QED
    BY <2>1, <2>2, <2>3 DEF Live
<1>3. ASSUME NEW l \in Lines, job'[l].at = "proving"
      PROVE  /\ job'[l].by \in Pids /\ chunk'[job'[l].by] # <<>>
             /\ Head(chunk'[job'[l].by]) = l
  <2>1. l \notin T /\ job'[l] = job[l]
    BY <1>1, <1>3, LostJobs
  <2>2. /\ job[l].by \in Pids /\ chunk[job[l].by] # <<>>
        /\ Head(chunk[job[l].by]) = l
    BY <1>3, <2>1 DEF ProverInv, At
  <2>3. chunk'[job[l].by] = chunk[job[l].by]
    BY <1>3, <2>1, <2>2 DEF InFlight
  <2> QED
    BY <2>1, <2>2, <2>3
<1> QED
  BY <1>2, <1>3 DEF LifeInv, ProverInv, At

LEMMA LinesLost ==
  ASSUME Types, JobInv, NEW T, job' = Lose(job, T), chain' = chain,
         \A l \in Lines : l \in T => job[l].at \in InFlight \union {"buffered"},
         \/ buffer' = <<>>
         \/ /\ buffer' = buffer
            /\ \A l \in Lines : l \in T => ~At(l, "buffered"),
         \A p \in Pids :
           \/ chunk'[p] = <<>>
           \/ /\ chunk'[p] = chunk[p]
              /\ \A l \in Lines : l \in T /\ job[l].at \in InFlight => job[l].by # p,
         \A p \in Pids : \A l \in Lines :
           l \notin T /\ job[l].at \in InFlight /\ job[l].by = p =>
             Live(p)' /\ chunk'[p] = chunk[p],
         \A l \in Lines : Delivered(writer[l])' <=> Delivered(writer[l])
  PROVE  JobInv'
<1>1. \A l \in Lines : /\ l \in T => job'[l].at = "lost"
                       /\ l \notin T => job'[l] = job[l]
  BY LostJobs DEF Idle
<1>0. Len(<<>>) = 0
  OBVIOUS
<1>2. WriteInv'
  BY LostWrite DEF JobInv
<1>3. BufferInv'
  <2>1. \A i \in 1 .. Len(buffer) : buffer[i] \in Lines
    BY DEF Types
  <2>2. CASE buffer' = <<>>
    BY <1>0, <2>2 DEF BufferInv, Distinct
  <2>3. CASE buffer' = buffer /\ \A l \in Lines : l \in T => ~At(l, "buffered")
    BY <1>1, <2>1, <2>3 DEF JobInv, BufferInv, At
  <2> QED
    BY <2>2, <2>3
<1>4. ChunkInv'
  <2> SUFFICES ASSUME NEW p \in Pids
               PROVE  /\ Distinct(chunk'[p])
                      /\ \A i \in 1 .. Len(chunk'[p]) :
                           /\ job'[chunk'[p][i]].at \in {"queued", "proving"}
                           /\ job'[chunk'[p][i]].by = p
    BY DEF ChunkInv
  <2>1. CASE chunk'[p] = <<>>
    BY <1>0, <2>1 DEF Distinct
  <2>2. CASE /\ chunk'[p] = chunk[p]
             /\ \A l \in Lines : l \in T /\ job[l].at \in InFlight => job[l].by # p
    <3>1. \A i \in 1 .. Len(chunk[p]) :
            /\ chunk[p][i] \in Lines /\ job[chunk[p][i]].by = p
            /\ job[chunk[p][i]].at \in {"queued", "proving"}
      BY DEF JobInv, ChunkInv, Types
    <3>2. \A i \in 1 .. Len(chunk[p]) : chunk[p][i] \notin T
      BY <2>2, <3>1 DEF InFlight
    <3> QED
      BY <1>1, <2>2, <3>1, <3>2 DEF JobInv, ChunkInv
  <2> QED
    BY <2>1, <2>2
<1>5. ChainInv'
  BY LostChain DEF JobInv
<1>6. LifeInv' /\ ProverInv'
  BY LostLife DEF JobInv
<1> QED
  BY <1>2, <1>3, <1>4, <1>5, <1>6 DEF JobInv

\* A file is closed, and no daemon dies.
LEMMA CloseJobs ==
  ASSUME Types, JobInv, NEW rd, NEW wr, Leave(rd, wr, {}), UNCHANGED <<chunk, chain>>,
         \A q \in Pids : Live(q) => Live(q)',
         \A l \in Lines : Delivered(wr[l]) <=> Delivered(writer[l])
  PROVE  JobInv'
<1>1. \A l \in Lines : Delivered(writer[l])' <=> Delivered(writer[l])
  BY DEF Leave, Delivered
<1>2. \A l \in Lines : l \in Buffered => job[l].at \notin InFlight /\ job[l].at = "buffered"
  BY DEF Buffered, InFlight
<1>3. \A p \in Pids : \A l \in Lines :
        job[l].at \in InFlight /\ job[l].by = p => Live(p)' /\ chunk'[p] = chunk[p]
  BY DEF JobInv, LifeInv
<1>4. CASE ReadersOf(rd) = {} /\ WritersOf(wr) = {}
  <2>1. buffer' = <<>> /\ job' = Lose(job, Buffered)
    BY <1>4 DEF Leave
  <2> QED
    BY <1>1, <1>2, <1>3, <2>1, LinesLost
<1>5. CASE ~(ReadersOf(rd) = {} /\ WritersOf(wr) = {})
  <2>1. buffer' = buffer /\ job' = Lose(job, {})
    BY <1>5 DEF Leave
  <2> QED
    BY <1>1, <1>3, <2>1, LinesLost
<1> QED
  BY <1>4, <1>5

LEMMA DieJobs ==
  ASSUME Types, JobInv, NEW P, Die(P)
  PROVE  JobInv'
<1> DEFINE rd == [p \in Pids |-> IF p \in P /\ Live(p) THEN "dead" ELSE reader[p]]
           held == {l \in Lines : job[l].at \in InFlight /\ job[l].by \in P}
<1>1. writer' = writer /\ chain' = chain /\ Leave(rd, writer, held)
  BY DEF Die, Leave
<1>2. \A l \in Lines : l \in held <=> job[l].at \in InFlight /\ job[l].by \in P
  OBVIOUS
<1> HIDE DEF held, rd
<1>3. \A l \in Lines : l \in Buffered => job[l].at \notin InFlight /\ job[l].at = "buffered"
  BY DEF Buffered, InFlight
<1>4. \A l \in Lines : l \in held => ~At(l, "buffered")
  BY <1>2 DEF At, InFlight
<1>5. \A p \in Pids : chunk'[p] = IF p \in P THEN <<>> ELSE chunk[p]
  BY DEF Die
<1>6. \A p \in Pids : \A l \in Lines :
        l \notin held /\ job[l].at \in InFlight /\ job[l].by = p =>
          Live(p)' /\ chunk'[p] = chunk[p]
  BY <1>2, <1>5, DieEndsLife DEF JobInv, LifeInv
<1>7. \A p \in Pids :
        \/ chunk'[p] = <<>>
        \/ /\ chunk'[p] = chunk[p]
           /\ \A l \in Lines : l \in held /\ job[l].at \in InFlight => job[l].by # p
  BY <1>2, <1>5
<1>8. \A l \in Lines : Delivered(writer[l])' <=> Delivered(writer[l])
  BY <1>1 DEF Delivered
<1>9. CASE ReadersOf(rd) = {} /\ WritersOf(writer) = {}
  <2> DEFINE T == held \union Buffered
  <2>1. buffer' = <<>> /\ job' = Lose(job, T)
    BY <1>1, <1>9 DEF Leave
  <2>2. /\ \A l \in Lines : l \in T => job[l].at \in InFlight \union {"buffered"}
        /\ \A l \in Lines : l \in T /\ job[l].at \in InFlight <=> l \in held
        /\ \A l \in Lines : l \notin T => l \notin held
    BY <1>2, <1>3
  <2> HIDE DEF T
  <2>3. \A p \in Pids :
          \/ chunk'[p] = <<>>
          \/ /\ chunk'[p] = chunk[p]
             /\ \A l \in Lines : l \in T /\ job[l].at \in InFlight => job[l].by # p
    BY <1>7, <2>2
  <2> QED
    BY <1>1, <1>6, <1>8, <2>1, <2>2, <2>3, LinesLost
<1>10. CASE ~(ReadersOf(rd) = {} /\ WritersOf(writer) = {})
  <2>1. buffer' = buffer /\ job' = Lose(job, held)
    BY <1>1, <1>10 DEF Leave
  <2>2. \A l \in Lines : l \in held => job[l].at \in InFlight \union {"buffered"}
    BY <1>2
  <2> QED
    BY <1>1, <1>4, <1>6, <1>7, <1>8, <2>1, <2>2, LinesLost
<1> QED
  BY <1>9, <1>10
LEMMA WriteLineJobs ==
  ASSUME Types, JobInv, NEW l \in Lines, WriteLine(l)
  PROVE  JobInv'
<1>0. /\ buffer \in Seq(Lines) /\ chain \in Seq(Lines) /\ chunk \in [Pids -> Seq(Lines)]
      /\ job \in [Lines -> Jobs] /\ writer \in [Lines -> WriterPlaces]
  BY DEF Types
<1>1. writer[l] = "open" /\ job[l].at = "none"
  BY DEF WriteLine, JobInv, WriteInv, Delivered, At
<1>2. /\ UNCHANGED <<chunk, chain, reader>> /\ buffer' = Append(buffer, l)
      /\ writer'[l] = "written" /\ job'[l].at = "buffered"
      /\ \A k \in Lines : k # l => job'[k] = job[k] /\ writer'[k] = writer[k]
  BY <1>0 DEF WriteLine, Jobs
<1>3. WriteInv'
  BY <1>1, <1>2 DEF JobInv, WriteInv, Delivered, At
<1>4. \A i \in 1 .. Len(buffer) : /\ buffer[i] \in Lines /\ buffer[i] # l
                                  /\ job'[buffer[i]] = job[buffer[i]]
                                  /\ job[buffer[i]].at = "buffered"
  BY <1>0, <1>1, <1>2 DEF JobInv, BufferInv, At
<1>5. BufferInv'
  <2>1. Distinct(Append(buffer, l))
    BY <1>0, <1>4, AppendDistinct DEF JobInv, BufferInv
  <2>2. \A i \in 1 .. Len(Append(buffer, l)) :
          \/ i \in 1 .. Len(buffer) /\ Append(buffer, l)[i] = buffer[i]
          \/ Append(buffer, l)[i] = l
    BY <1>0
  <2> QED
    BY <1>2, <1>4, <2>1, <2>2 DEF BufferInv, At
<1>6. ChunkInv'
  <2>1. \A p \in Pids : \A i \in 1 .. Len(chunk[p]) :
          /\ chunk[p][i] \in Lines /\ chunk[p][i] # l
    BY <1>0, <1>1 DEF JobInv, ChunkInv
  <2> QED
    BY <1>2, <2>1 DEF JobInv, ChunkInv
<1>7. ChainInv'
  <2>1. \A i \in 1 .. Len(chain) : chain[i] \in Lines /\ chain[i] # l
    BY <1>0, <1>1 DEF JobInv, ChainInv
  <2> QED
    BY <1>2, <2>1 DEF JobInv, ChainInv
<1>8. LifeInv' /\ ProverInv'
  BY <1>2 DEF JobInv, LifeInv, ProverInv, At, InFlight, Live
<1> QED
  BY <1>3, <1>5, <1>6, <1>7, <1>8 DEF JobInv

LEMMA ReadChunkJobs ==
  ASSUME Types, JobInv, NEW p \in Pids, ReadChunk(p)
  PROVE  JobInv'
<1>0. /\ buffer \in Seq(Lines) /\ chain \in Seq(Lines) /\ chunk \in [Pids -> Seq(Lines)]
      /\ job \in [Lines -> Jobs]
  BY DEF Types
<1>1. /\ Live(p) /\ chunk[p] = <<>> /\ buffer' = <<>>
      /\ UNCHANGED <<writer, reader, chain>>
      /\ chunk'[p] = buffer /\ \A q \in Pids : q # p => chunk'[q] = chunk[q]
  BY <1>0 DEF ReadChunk, LoopIsFree
<1>2. /\ \A l \in Lines : At(l, "buffered") => job'[l].at = "queued" /\ job'[l].by = p
      /\ \A l \in Lines : ~At(l, "buffered") => job'[l] = job[l]
  BY <1>0 DEF ReadChunk, Buffered, At, Jobs
<1>n. Len(<<>>) = 0
  OBVIOUS
<1>3. WriteInv'
  BY <1>1, <1>2 DEF JobInv, WriteInv, Delivered, At
<1>4. BufferInv'
  BY <1>1, <1>n DEF BufferInv, Distinct
<1>5. ChunkInv'
  <2>1. \A i \in 1 .. Len(buffer) :
          job'[buffer[i]].at = "queued" /\ job'[buffer[i]].by = p
    BY <1>0, <1>2 DEF JobInv, BufferInv
  <2>2. ASSUME NEW q \in Pids, NEW i \in 1 .. Len(chunk[q])
        PROVE  job'[chunk[q][i]] = job[chunk[q][i]]
    <3>1. chunk[q][i] \in Lines
      BY <1>0
    <3>2. job[chunk[q][i]].at \in {"queued", "proving"}
      BY DEF JobInv, ChunkInv
    <3> QED
      BY <1>2, <3>1, <3>2 DEF At
  <2> SUFFICES ASSUME NEW q \in Pids
               PROVE  /\ Distinct(chunk'[q])
                      /\ \A i \in 1 .. Len(chunk'[q]) :
                           /\ job'[chunk'[q][i]].at \in {"queued", "proving"}
                           /\ job'[chunk'[q][i]].by = q
    BY DEF ChunkInv
  <2>3. CASE q = p
    BY <1>1, <2>1, <2>3 DEF JobInv, BufferInv
  <2>4. CASE q # p
    BY <1>1, <2>2, <2>4 DEF JobInv, ChunkInv
  <2> QED
    BY <2>3, <2>4
<1>6. ChainInv'
  <2>1. ASSUME NEW i \in 1 .. Len(chain)
        PROVE  job'[chain[i]] = job[chain[i]]
    <3>1. chain[i] \in Lines
      BY <1>0
    <3>2. job[chain[i]].at # "buffered"
      BY DEF JobInv, ChainInv
    <3> QED
      BY <1>2, <3>1, <3>2 DEF At
  <2> QED
    BY <1>1, <2>1 DEF JobInv, ChainInv
<1>7. LifeInv'
  BY <1>1, <1>2 DEF JobInv, LifeInv, Live
<1>8. ProverInv'
  BY <1>1, <1>2 DEF JobInv, ProverInv, At
<1> QED
  BY <1>3, <1>4, <1>5, <1>6, <1>7, <1>8 DEF JobInv

LEMMA StartProverJobs ==
  ASSUME Types, JobInv, NEW p \in Pids, StartProver(p)
  PROVE  JobInv'
<1>0. /\ buffer \in Seq(Lines) /\ chain \in Seq(Lines) /\ chunk \in [Pids -> Seq(Lines)]
      /\ job \in [Lines -> Jobs]
  BY DEF Types
<1> DEFINE l == Head(chunk[p])
<1>1. /\ l \in Lines /\ l = chunk[p][1] /\ 1 \in 1 .. Len(chunk[p]) /\ chunk[p] # <<>>
  BY <1>0 DEF StartProver
<1>2. job[l].at = "queued" /\ job[l].by = p
  <2>1. job[l].at \in {"queued", "proving"} /\ job[l].by = p
    BY <1>1 DEF JobInv, ChunkInv
  <2>2. l \notin Proving(p)
    BY DEF StartProver
  <2> QED
    BY <1>1, <2>1, <2>2 DEF Proving, At
<1> HIDE DEF l
<1>3. /\ UNCHANGED <<buffer, chunk, chain, reader, writer>>
      /\ job'[l].at = "proving" /\ job'[l].by = p
      /\ \A k \in Lines : k # l => job'[k] = job[k]
  BY <1>0, <1>1, <1>2 DEF StartProver, GoOn, Jobs, l, fifo
<1>4. WriteInv'
  BY <1>2, <1>3 DEF JobInv, WriteInv, At
<1>5. BufferInv'
  <2>1. \A i \in 1 .. Len(buffer) : buffer[i] \in Lines /\ buffer[i] # l
    BY <1>0, <1>2 DEF JobInv, BufferInv, At
  <2> QED
    BY <1>3, <2>1 DEF JobInv, BufferInv, At
<1>6. ChunkInv'
  <2>1. \A q \in Pids : \A i \in 1 .. Len(chunk[q]) :
          /\ chunk[q][i] \in Lines
          /\ job'[chunk[q][i]].at \in {"queued", "proving"}
          /\ job'[chunk[q][i]].by = q
    BY <1>0, <1>2, <1>3 DEF JobInv, ChunkInv
  <2> QED
    BY <1>3, <2>1 DEF JobInv, ChunkInv
<1>7. ChainInv'
  <2>1. ASSUME NEW i \in 1 .. Len(chain)
        PROVE  chain[i] \in Lines /\ chain[i] # l
    <3>1. chain[i] \in Lines
      BY <1>0
    <3>2. job[chain[i]].at \in {"wait", "returned", "logged", "lost"}
      BY DEF JobInv, ChainInv
    <3> QED
      BY <1>2, <3>1, <3>2
  <2> QED
    BY <1>3, <2>1 DEF JobInv, ChainInv
<1>8. LifeInv'
  BY <1>2, <1>3 DEF JobInv, LifeInv, InFlight, Live
<1>9. ProverInv'
  BY <1>1, <1>3 DEF JobInv, ProverInv, At, l
<1> QED
  BY <1>4, <1>5, <1>6, <1>7, <1>8, <1>9 DEF JobInv

LEMMA ProverReturnsJobs ==
  ASSUME Types, JobInv, NEW l \in Lines, ProverReturns(l)
  PROVE  JobInv'
<1>0. /\ buffer \in Seq(Lines) /\ chain \in Seq(Lines) /\ chunk \in [Pids -> Seq(Lines)]
      /\ job \in [Lines -> Jobs]
  BY DEF Types
<1>1. PICK p \in Pids : p = job[l].by
  BY DEF ProverReturns, JobInv, ProverInv
<1>2. job[l].at = "proving" /\ chunk[p] # <<>> /\ Head(chunk[p]) = l
  BY <1>1 DEF ProverReturns, JobInv, ProverInv, At
<1>3. /\ UNCHANGED <<buffer, chain, reader, writer>>
      /\ chunk'[p] = Tail(chunk[p]) /\ \A q \in Pids : q # p => chunk'[q] = chunk[q]
      /\ \A k \in Lines : k # l => job'[k] = job[k]
      /\ job'[l].at \in {"balance", "logged"}
      /\ job'[l].at = "balance" => job'[l].by = p
  <2>1. UNCHANGED <<buffer, chain, reader, writer>>
    BY DEF ProverReturns, fifo
  <2>2. chunk'[p] = Tail(chunk[p]) /\ \A q \in Pids : q # p => chunk'[q] = chunk[q]
    BY <1>0, <1>1 DEF ProverReturns
  <2>3. CASE job' = [job EXCEPT ![l].at = "balance"]
    <3>1. job[l] \in Jobs
      BY <1>0
    <3>2. job'[l].at = "balance" /\ job'[l].by = job[l].by
      BY <1>0, <2>3, <3>1 DEF Jobs
    <3> QED
      BY <1>0, <1>1, <2>1, <2>2, <2>3, <3>2
  <2>4. CASE job' = [job EXCEPT ![l] = Idle("logged")]
    BY <1>0, <2>1, <2>2, <2>4 DEF Idle
  <2> QED
    BY <2>3, <2>4 DEF ProverReturns, End, GoOn
<1>4. WriteInv'
  BY <1>2, <1>3 DEF JobInv, WriteInv, At
<1>5. BufferInv'
  <2>1. \A i \in 1 .. Len(buffer) : buffer[i] \in Lines /\ buffer[i] # l
    BY <1>0, <1>2 DEF JobInv, BufferInv, At
  <2> QED
    BY <1>3, <2>1 DEF JobInv, BufferInv, At
<1>6. ChunkInv'
  <2>1. \A q \in Pids : \A i \in 1 .. Len(chunk[q]) :
          /\ chunk[q][i] \in Lines /\ job[chunk[q][i]].by = q
          /\ job[chunk[q][i]].at \in {"queued", "proving"}
    BY <1>0 DEF JobInv, ChunkInv
  <2>2. /\ Distinct(Tail(chunk[p]))
        /\ \A i \in 1 .. Len(Tail(chunk[p])) :
             /\ i + 1 \in 1 .. Len(chunk[p]) /\ Tail(chunk[p])[i] = chunk[p][i + 1]
             /\ Tail(chunk[p])[i] # l
    BY <1>0, <1>2, TailDistinct DEF JobInv, ChunkInv
  <2> SUFFICES ASSUME NEW q \in Pids
               PROVE  /\ Distinct(chunk'[q])
                      /\ \A i \in 1 .. Len(chunk'[q]) :
                           /\ job'[chunk'[q][i]].at \in {"queued", "proving"}
                           /\ job'[chunk'[q][i]].by = q
    BY DEF ChunkInv
  <2>3. CASE q = p
    <3>1. \A i \in 1 .. Len(Tail(chunk[p])) :
            /\ job[Tail(chunk[p])[i]].at \in {"queued", "proving"}
            /\ job[Tail(chunk[p])[i]].by = p
            /\ job'[Tail(chunk[p])[i]] = job[Tail(chunk[p])[i]]
      BY <1>3, <2>1, <2>2
    <3>2. chunk'[q] = Tail(chunk[p])
      BY <1>3, <2>3
    <3> QED
      BY <2>2, <2>3, <3>1, <3>2
  <2>4. CASE q # p
    <3>1. \A i \in 1 .. Len(chunk[q]) : chunk[q][i] # l
      BY <1>1, <2>1, <2>4
    <3> QED
      BY <1>3, <2>1, <2>4, <3>1 DEF JobInv, ChunkInv
  <2> QED
    BY <2>3, <2>4
<1>7. ChainInv'
  <2>1. ASSUME NEW i \in 1 .. Len(chain)
        PROVE  chain[i] \in Lines /\ chain[i] # l
    <3>1. chain[i] \in Lines
      BY <1>0
    <3>2. job[chain[i]].at \in {"wait", "returned", "logged", "lost"}
      BY DEF JobInv, ChainInv
    <3> QED
      BY <1>2, <3>1, <3>2
  <2> QED
    BY <1>3, <2>1 DEF JobInv, ChainInv
<1>8. LifeInv'
  BY <1>1, <1>2, <1>3 DEF JobInv, LifeInv, InFlight, Live
<1>9. ProverInv'
  BY <1>2, <1>3 DEF JobInv, ProverInv, At
<1> QED
  BY <1>4, <1>5, <1>6, <1>7, <1>8, <1>9 DEF JobInv

\* The continuations that follow the prover.
LEMMA HandlerJobs ==
  ASSUME Types, JobInv, NEW l \in Lines,
         GetBalance(l) \/ GetNonce(l) \/ Send(l) \/ Confirm(l)
  PROVE  JobInv'
<1>0. job[l] \in Jobs
  BY DEF Types
<1>1. UNCHANGED <<buffer, chunk, reader, writer>>
  BY DEF GetBalance, GetNonce, Send, Confirm, fifo
<1>2. ASSUME NEW phase \in {"logged", "returned"}, End(l, phase)
      PROVE  /\ \A k \in Lines : k # l => job'[k] = job[k]
             /\ job'[l].at \in {"logged", "returned"} /\ job'[l].at \notin InFlight
  <2>1. Idle(phase).at = phase /\ phase \notin InFlight
    BY <1>2 DEF Idle, InFlight
  <2> QED
    BY <1>2, <2>1 DEF End, Types
<1>3. ASSUME NEW phase \in {"nonce", "send", "wait"}, NEW n,
             \/ GoOn(l, phase)
             \/ job' = [job EXCEPT ![l] = [@ EXCEPT !.at = phase, !.nonce = n]]
      PROVE  /\ \A k \in Lines : k # l => job'[k] = job[k]
             /\ job'[l].at = phase /\ job'[l].by = job[l].by
  BY <1>0, <1>3 DEF GoOn, Types, Jobs
<1>4. CASE GetBalance(l)
  <2>1. job[l].at = "balance" /\ chain' = chain
    BY <1>4 DEF GetBalance, Continues, At
  <2>2. /\ \A k \in Lines : k # l => job'[k] = job[k]
        /\ job'[l].at \in {"nonce", "logged", "returned"}
        /\ job'[l].at \in InFlight => job'[l].by = job[l].by
    BY <1>2, <1>3, <1>4 DEF GetBalance
  <2> QED
    BY <1>1, <2>1, <2>2, HandlerGoes
<1>5. CASE GetNonce(l)
  <2>1. job[l].at = "nonce" /\ chain' = chain
    BY <1>5 DEF GetNonce, Continues, At
  <2>2. /\ \A k \in Lines : k # l => job'[k] = job[k]
        /\ job'[l].at \in {"send", "logged", "returned"}
        /\ job'[l].at \in InFlight => job'[l].by = job[l].by
    BY <1>2, <1>3, <1>5 DEF GetNonce
  <2> QED
    BY <1>1, <2>1, <2>2, HandlerGoes
<1>6. CASE Send(l)
  <2>1. job[l].at = "send"
    BY <1>6 DEF Send, Continues, At
  <2>2. CASE chain' = Append(chain, l)
    <3>1. /\ \A k \in Lines : k # l => job'[k] = job[k]
          /\ job'[l].at \in {"wait", "logged"}
          /\ job'[l].at \in InFlight => job'[l].by = job[l].by
      <4>1. CASE End(l, "logged")
        BY <4>1 DEF End, Idle, Types, InFlight
      <4>2. CASE job' = [job EXCEPT ![l] = [@ EXCEPT !.at = "wait", !.nonce = 0]]
        BY <1>3, <4>2
      <4>3. End(l, "logged") \/ job' = [job EXCEPT ![l] = [@ EXCEPT !.at = "wait", !.nonce = 0]]
        BY <1>6 DEF Send
      <4> QED
        BY <4>1, <4>2, <4>3
    <3> QED
      BY <1>1, <2>1, <2>2, <3>1, HandlerGoes
  <2>3. CASE chain' = chain /\ End(l, "logged")
    BY <1>1, <1>2, <2>1, <2>3, HandlerGoes
  <2> QED
    BY <1>6, <2>2, <2>3 DEF Send
<1>7. CASE Confirm(l)
  <2>1. job[l].at = "wait" /\ chain' = chain
    BY <1>7 DEF Confirm, Continues, At
  <2>2. /\ \A k \in Lines : k # l => job'[k] = job[k]
        /\ job'[l].at \in {"logged", "returned"} /\ job'[l].at \notin InFlight
    BY <1>2, <1>7 DEF Confirm
  <2> QED
    BY <1>1, <2>1, <2>2, HandlerGoes
<1> QED
  BY <1>4, <1>5, <1>6, <1>7

LEMMA JobStep == TypeOK /\ JobInv /\ [Next]_vars => JobInv'
<1> SUFFICES ASSUME TypeOK, JobInv, [Next]_vars PROVE JobInv'
  OBVIOUS
<1>0. Types
  BY TypesOfAll
<1>1. ASSUME UNCHANGED <<buffer, chunk, job, chain>>,
             \A q \in Pids : Live(q)' <=> Live(q),
             \A l \in Lines : Delivered(writer[l])' <=> Delivered(writer[l])
      PROVE  JobInv'
  BY <1>1, JobsStay
<1>2. ASSUME NEW l \in Lines, Emit(l) PROVE JobInv'
  <2>1. \A q \in Pids : Live(q)' <=> Live(q)
    BY <1>0, <1>2, FlowKeepsLive
  <2>2. \A k \in Lines : Delivered(writer[k])' <=> Delivered(writer[k])
    BY <1>0, <1>2 DEF Emit, EmitWithoutPipe, OpenForWriting, Delivered, Types
  <2>3. UNCHANGED <<buffer, chunk, job, chain>>
    BY <1>2 DEF Emit, EmitWithoutPipe, OpenForWriting, fifo, daemon
  <2> QED
    BY <1>1, <2>1, <2>2, <2>3
<1>3. ASSUME NEW l \in Lines, EmitGoesOn(l) PROVE JobInv'
  <2>1. \A q \in Pids : Live(q)' <=> Live(q)
    BY <1>0, <1>3, FlowKeepsLive
  <2>2. CASE WriteFails(l)
    <3>1. \A k \in Lines : Delivered(writer[k])' <=> Delivered(writer[k])
      BY <1>0, <2>2 DEF WriteFails, Delivered, Types
    <3>2. UNCHANGED <<buffer, chunk, job, chain>>
      BY <2>2 DEF WriteFails, fifo, daemon
    <3> QED
      BY <1>1, <2>1, <3>1, <3>2
  <2>3. CASE CloseAndReport(l)
    <3>1. PICK r \in {"relayed", "failed"} :
            /\ Leave(reader, [writer EXCEPT ![l] = r], {})
            /\ Delivered(r) <=> Delivered(writer[l])
      BY <2>3 DEF CloseAndReport, Delivered
    <3>2. \A k \in Lines : Delivered([writer EXCEPT ![l] = r][k]) <=> Delivered(writer[k])
      BY <1>0, <3>1 DEF Types
    <3>3. UNCHANGED <<chunk, chain>>
      BY <2>3 DEF CloseAndReport
    <3> QED
      BY <1>0, <2>1, <3>1, <3>2, <3>3, CloseJobs
  <2> QED
    BY <1>0, <1>3, <2>2, <2>3, WriteLineJobs DEF EmitGoesOn
<1>4. ASSUME NEW l \in Lines, Handles(l) \/ Confirm(l) PROVE JobInv'
  BY <1>0, <1>4, ProverReturnsJobs, HandlerJobs DEF Handles
<1>5. ASSUME NEW p \in Pids, Reads(p) PROVE JobInv'
  <2>1. \A q \in Pids : Live(q)' <=> Live(q)
    BY <1>0, <1>5, FlowKeepsLive
  <2>2. CASE OpenForReading(p)
    <3>1. \A k \in Lines : Delivered(writer[k])' <=> Delivered(writer[k])
      BY <1>0, <2>2 DEF OpenForReading, Delivered, Types
    <3>2. UNCHANGED <<buffer, chunk, job, chain>>
      BY <2>2 DEF OpenForReading, fifo
    <3> QED
      BY <1>1, <2>1, <3>1, <3>2
  <2>3. CASE ReadEnd(p)
    BY <1>1, <2>1, <2>3 DEF ReadEnd, fifo, Delivered
  <2>4. CASE CloseStream(p)
    <3>1. Leave([reader EXCEPT ![p] = "closed"], writer, {}) /\ UNCHANGED <<chunk, chain>>
      BY <2>4 DEF CloseStream
    <3> QED
      BY <1>0, <2>1, <3>1, CloseJobs
  <2> QED
    BY <1>0, <1>5, <2>2, <2>3, <2>4, ReadChunkJobs, StartProverJobs DEF Reads
<1>6. ASSUME NEW p \in Pids, Crash(p) PROVE JobInv'
  BY <1>0, <1>6, DieJobs DEF Crash
<1>7. ASSUME NEW c \in Callers, Controls(c) PROVE JobInv'
  <2>1. CASE KillAll(c)
    BY <1>0, <2>1, DieJobs DEF KillAll
  <2>2. CASE Launch(c)
    <3>1. UNCHANGED <<buffer, chunk, job, chain, writer>>
      BY <2>2 DEF Launch
    <3>2. \A q \in Pids : Live(q) => Live(q)'
      BY <1>0, <2>2 DEF Launch, Live, Types
    <3> QED
      BY <3>1, <3>2, JobsStay DEF Delivered
  <2>3. ASSUME NEW command, Run(c, command) PROVE UNCHANGED <<fifo, writer, daemon, chain>>
    BY <2>3 DEF Run
  <2>4. ASSUME ~KillAll(c), ~Launch(c) PROVE UNCHANGED <<fifo, writer, daemon, chain>>
    BY <1>7, <2>3, <2>4 DEF Controls, CheckRunning, RecordPid, TestPidFile,
       KillRecorded, RemovePidFile, ScriptDies
  <2> QED
    BY <1>1, <2>1, <2>2, <2>4 DEF fifo, daemon, Live, Delivered
<1>9. ASSUME NEW p \in Pids, NpxEnds(p) PROVE JobInv'
  BY <1>1, <1>9 DEF NpxEnds, fifo, daemon, Live, Delivered
<1>8. CASE UNCHANGED vars
  BY <1>1, <1>8 DEF vars, fifo, daemon, Live, Delivered
<1> QED
  BY <1>2, <1>3, <1>4, <1>5, <1>6, <1>7, <1>8, <1>9, StepCases

-----------------------------------------------------------------------------
(* One witness file *)

RelayerInv == TypeOK /\ ControlInv /\ JobInv /\ WitnessIsOwn

LEMMA InitWitness == Init => WitnessIsOwn
BY DEF Init, WitnessIsOwn, At, Idle

\* Only pkill clears away what was disturbed.
LEMMA StaysDisturbed ==
  ASSUME TypeOK, [Next]_vars, \A c \in Callers : ~KillAll(c)
  PROVE  disturbed => disturbed'
<1>1. ASSUME \/ \E l \in Lines : Emit(l) \/ EmitGoesOn(l) \/ Handles(l) \/ Confirm(l)
             \/ \E p \in Pids : Reads(p)
      PROVE  disturbed' = disturbed
  BY <1>1, FlowKeepsControl DEF control
<1>2. ASSUME NEW p \in Pids, Crash(p) PROVE disturbed' = disturbed
  BY <1>2 DEF Crash, control
<1>3. ASSUME NEW p \in Pids, NpxEnds(p) PROVE disturbed => disturbed'
  BY <1>3 DEF NpxEnds
<1>4. ASSUME NEW c \in Callers, Controls(c) PROVE disturbed => disturbed'
  <2>1. ASSUME NEW command, Run(c, command) PROVE disturbed => disturbed'
    BY <2>1 DEF Run
  <2>2. ScriptDies(c) => (disturbed => disturbed')
    BY DEF ScriptDies
  <2> QED
    BY <1>4, <2>1, <2>2 DEF Controls, CheckRunning, Launch, RecordPid, TestPidFile,
       KillRecorded, RemovePidFile
<1>5. CASE UNCHANGED vars
  BY <1>5 DEF vars, control
<1> QED
  BY <1>1, <1>2, <1>3, <1>4, <1>5, StepCases

\* A step that starts no prover.
LEMMA WitnessStays ==
  ASSUME WitnessIsOwn, witness' = witness, disturbed => disturbed',
         \A l \in Lines : job'[l].at = "proving" => job[l].at = "proving"
  PROVE  WitnessIsOwn'
BY DEF WitnessIsOwn, At

LEMMA LostWitness ==
  ASSUME WitnessIsOwn, NEW T, job' = Lose(job, T), witness' = witness,
         disturbed => disturbed'
  PROVE  WitnessIsOwn'
<1>1. Idle("lost").at # "proving"
  BY DEF Idle
<1>2. \A l \in Lines : job'[l] \in {job[l], Idle("lost")}
  BY LostJobs
<1> QED
  BY <1>1, <1>2, WitnessStays

LEMMA OneProver ==
  ASSUME RelayerInv, ~disturbed, NEW p \in Pids, Live(p), Proving(p) = {}
  PROVE  \A l \in Lines : ~At(l, "proving")
<1> SUFFICES ASSUME NEW l \in Lines, At(l, "proving") PROVE FALSE
  OBVIOUS
<1>1. job[l].by \in Pids /\ Live(job[l].by)
  BY DEF RelayerInv, JobInv, LifeInv, InFlight, At
<1>2. job[l].by = p
  BY <1>1 DEF RelayerInv, ControlInv
<1>3. l \in Proving(p)
  BY <1>2 DEF Proving
<1> QED
  BY <1>3

LEMMA WitnessStep == RelayerInv /\ [Next]_vars => WitnessIsOwn'
<1> SUFFICES ASSUME RelayerInv, [Next]_vars PROVE WitnessIsOwn'
  OBVIOUS
<1>0. Types /\ TypeOK /\ JobInv /\ WitnessIsOwn /\ \A l \in Lines : job[l] \in Jobs
  BY TypesOfAll DEF RelayerInv, Types
\* After pkill nobody is left to wait for a prover.
<1>k. ASSUME NEW c \in Callers, KillAll(c) PROVE WitnessIsOwn'
  <2>1. \A q \in Pids : ~Live(q)'
    BY <1>k, DieEndsLife DEF KillAll
  <2>2. LifeInv'
    BY <1>0, JobStep DEF JobInv
  <2>3. ASSUME NEW l \in Lines, At(l, "proving")' PROVE FALSE
    <3>1. job'[l].at \in InFlight
      BY <2>3 DEF At, InFlight
    <3> QED
      BY <2>1, <2>2, <3>1 DEF LifeInv
  <2> QED
    BY <2>3 DEF WitnessIsOwn
<1> SUFFICES ASSUME \A c \in Callers : ~KillAll(c) PROVE WitnessIsOwn'
  BY <1>k
<1>o. disturbed => disturbed'
  BY <1>0, StaysDisturbed
<1>1. ASSUME UNCHANGED <<job, witness>> PROVE WitnessIsOwn'
  BY <1>0, <1>o, <1>1, WitnessStays
<1>2. ASSUME NEW l \in Lines, Emit(l) PROVE WitnessIsOwn'
  BY <1>1, <1>2 DEF Emit, EmitWithoutPipe, OpenForWriting, daemon
<1>3. ASSUME NEW l \in Lines, EmitGoesOn(l) PROVE WitnessIsOwn'
  <2>1. CASE WriteLine(l)
    <3>1. witness' = witness
      BY <2>1 DEF WriteLine
    <3>2. \A k \in Lines : job'[k].at = "proving" => job[k].at = "proving"
      BY <1>0, <2>1 DEF WriteLine, Jobs, Types
    <3> QED
      BY <1>0, <3>1, <3>2, <1>o, WitnessStays
  <2>2. CASE WriteFails(l)
    BY <1>1, <2>2 DEF WriteFails, daemon
  <2>3. CASE CloseAndReport(l)
    <3>1. witness' = witness /\ \E T : job' = Lose(job, T)
      BY <2>3 DEF CloseAndReport, Leave
    <3> QED
      BY <1>0, <1>o, <3>1, LostWitness
  <2> QED
    BY <1>3, <2>1, <2>2, <2>3 DEF EmitGoesOn
<1>4. ASSUME NEW l \in Lines, Handles(l) \/ Confirm(l) PROVE WitnessIsOwn'
  <2>1. witness' = witness
    BY <1>4 DEF Handles, ProverReturns, GetBalance, GetNonce, Send, Confirm
  <2>2. ASSUME NEW phase \in {"logged", "returned"}, End(l, phase)
        PROVE  \A k \in Lines : job'[k].at = "proving" => job[k].at = "proving"
    BY <1>0, <2>2 DEF End, Idle, Types
  <2>3. ASSUME NEW phase \in {"balance", "nonce", "send", "wait"}, NEW n,
               \/ GoOn(l, phase)
               \/ job' = [job EXCEPT ![l] = [@ EXCEPT !.at = phase, !.nonce = n]]
        PROVE  \A k \in Lines : job'[k].at = "proving" => job[k].at = "proving"
    <3>1. CASE GoOn(l, phase)
      BY <1>0, <3>1 DEF GoOn, Types, Jobs
    <3>2. CASE job' = [job EXCEPT ![l] = [@ EXCEPT !.at = phase, !.nonce = n]]
      BY <1>0, <3>2 DEF Types, Jobs
    <3> QED
      BY <2>3, <3>1, <3>2
  <2>4. \A k \in Lines : job'[k].at = "proving" => job[k].at = "proving"
    BY <1>4, <2>2, <2>3
    DEF Handles, ProverReturns, GetBalance, GetNonce, Send, Confirm
  <2> QED
    BY <1>0, <2>1, <2>4, <1>o, WitnessStays
<1>6. ASSUME NEW p \in Pids, OpenForReading(p) \/ ReadEnd(p) PROVE WitnessIsOwn'
  BY <1>1, <1>6 DEF OpenForReading, ReadEnd
<1>7. ASSUME NEW p \in Pids, ReadChunk(p) PROVE WitnessIsOwn'
  <2>1. witness' = witness
    BY <1>7 DEF ReadChunk
  <2>2. \A k \in Lines : job'[k].at = "proving" => job[k].at = "proving"
    BY <1>0, <1>7 DEF ReadChunk, Types, Jobs
  <2> QED
    BY <1>0, <2>1, <2>2, <1>o, WitnessStays
<1>8. ASSUME NEW p \in Pids, CloseStream(p) PROVE WitnessIsOwn'
  <2>1. witness' = witness /\ \E T : job' = Lose(job, T)
    BY <1>8 DEF CloseStream, Leave
  <2> QED
    BY <1>0, <1>o, <2>1, LostWitness
<1>9. ASSUME NEW p \in Pids, StartProver(p) PROVE WitnessIsOwn'
  <2>1. Live(p) /\ Proving(p) = {}
    BY <1>9 DEF StartProver
  <2>2. Head(chunk[p]) \in Lines
    BY <1>0, <1>9 DEF StartProver, Types
  <2>3. \A k \in Lines : k # Head(chunk[p]) => job'[k] = job[k]
    BY <1>0, <1>9, <2>2 DEF StartProver, GoOn, Types
  <2>4. ~disturbed => \A k \in Lines : ~At(k, "proving")
    BY <2>1, OneProver
  <2>5. witness' = Head(chunk[p])
    BY <1>9 DEF StartProver
  <2> QED
    BY <1>o, <2>3, <2>4, <2>5 DEF WitnessIsOwn, At
<1>10. ASSUME NEW p \in Pids, Crash(p) PROVE WitnessIsOwn'
  <2>1. witness' = witness /\ \E T : job' = Lose(job, T)
    BY <1>10 DEF Crash, Die, Leave
  <2> QED
    BY <1>0, <1>o, <2>1, LostWitness
<1>11. ASSUME NEW p \in Pids, NpxEnds(p) PROVE WitnessIsOwn'
  BY <1>1, <1>11 DEF NpxEnds, daemon
<1>12. ASSUME NEW c \in Callers, Controls(c) PROVE WitnessIsOwn'
  <2>1. ASSUME NEW command, Run(c, command) PROVE UNCHANGED <<job, witness>>
    BY <2>1 DEF Run, daemon
  <2> QED
    BY <1>1, <1>12, <2>1 DEF Controls, CheckRunning, Launch, RecordPid, TestPidFile,
       KillRecorded, RemovePidFile, ScriptDies, daemon
<1>13. CASE UNCHANGED vars
  BY <1>1, <1>13 DEF vars, daemon
<1> QED
  BY <1>0, <1>2, <1>3, <1>4, <1>6, <1>7, <1>8, <1>9, <1>10, <1>11, <1>12, <1>13,
     StepCases
  DEF Reads

-----------------------------------------------------------------------------
\* The relayer's control, jobs and witness file stay together: the inductive
\* invariant from which the properties of MCRelayer follow.
THEOREM RelayerInvariance == Spec => []RelayerInv
<1>1. Init => RelayerInv
  BY InitTypes, InitControl, InitJobs, InitWitness DEF RelayerInv
<1>2. RelayerInv /\ [Next]_vars => RelayerInv'
  BY StepTypes, ControlStep, JobStep, WitnessStep DEF RelayerInv, JobInv
<1> QED
  BY <1>1, <1>2, PTL DEF Spec

\* A line's handler ends in a result, in an error that is logged, or with its
\* daemon (ZkRelayerDaemon.ts:111-118); files, processes and jobs keep their types.
THEOREM RelayerTypes == Spec => []TypeOK
<1>1. RelayerInv => TypeOK
  BY DEF RelayerInv
<1> QED
  BY <1>1, RelayerInvariance, PTL

\* service_control.sh never leaves two daemons alive, however many callers it has and
\* whenever daemons die, except while one of these stands: two callers ran it at one
\* time, the npx of a living daemon died alone, or a script was killed between
\* launching and recording (lines 17-19) or between the two kills (27-30).  A stop
\* that runs to its end alone clears it away.
THEOREM OneDaemonAtATime == Spec => []OneDaemon
<1>1. RelayerInv => OneDaemon
  BY DEF RelayerInv, ControlInv, OneDaemon
<1> QED
  BY <1>1, RelayerInvariance, PTL

\* With the same exceptions, the prover that runs for a line finds that line's
\* witness for as long as it runs, although all lines and daemons share one witness
\* file (ZkRelayerDaemon.ts:35-41).
THEOREM ProverFindsOwnWitness == Spec => []WitnessIsOwn
<1>1. RelayerInv => WitnessIsOwn
  BY DEF RelayerInv
<1> QED
  BY <1>1, RelayerInvariance, PTL

-----------------------------------------------------------------------------
(* What is promised of each line *)

Ended == {"returned", "logged", "lost"}
Settled(l) == \E n \in DOMAIN chain : chain[n] = l
TurnedAway(l) == writer[l] \in {"broken", "failed"}

FateTable ==
  \A l \in Lines :
    /\ Settled(l) => Fate(l) = "settled"
    /\ ~Settled(l) /\ At(l, "none") /\ TurnedAway(l) => Fate(l) = "refused"
    /\ ~Settled(l) /\ At(l, "none") /\ ~TurnedAway(l) => Fate(l) = "new"
    /\ ~Settled(l) /\ job[l].at \in Ended => Fate(l) = "dropped"
    /\ ~Settled(l) /\ job[l].at \notin Ended \union {"none"} => Fate(l) = "accepted"

LEMMA FateIsTable == FateTable
<1> SUFFICES ASSUME NEW l \in Lines
             PROVE  /\ Settled(l) => Fate(l) = "settled"
                    /\ ~Settled(l) /\ At(l, "none") /\ TurnedAway(l) => Fate(l) = "refused"
                    /\ ~Settled(l) /\ At(l, "none") /\ ~TurnedAway(l) => Fate(l) = "new"
                    /\ ~Settled(l) /\ job[l].at \in Ended => Fate(l) = "dropped"
                    /\ ~Settled(l) /\ job[l].at \notin Ended \union {"none"}
                         => Fate(l) = "accepted"
  BY DEF FateTable
<1>1. CASE Settled(l)
  BY <1>1 DEF Fate, Settled
<1>2. CASE ~Settled(l)
  BY <1>2 DEF Fate, Settled, At, Ended, TurnedAway
<1> QED
  BY <1>1, <1>2

\* In this state and in the next.
LEMMA FatesBeforeAndAfter == FateTable /\ FateTable'
BY FateIsTable, PTL

\* What is still to be written, or in hand, has no transaction.
LEMMA NotSettled ==
  ASSUME Types, ChainInv, NEW l \in Lines,
         job[l].at \notin {"wait", "returned", "logged", "lost"}
  PROVE  ~Settled(l)
<1>1. \A n \in DOMAIN chain : n \in 1 .. Len(chain)
  BY DEF Types
<1> QED
  BY <1>1 DEF ChainInv, Settled

\* The lines of T end, and nothing happens to the others.
LEMMA Drops ==
  ASSUME NEW T, chain' = chain,
         \A l \in Lines : l \in T =>
           job[l].at \notin Ended \union {"none"} /\ job'[l].at \in Ended,
         \A l \in Lines : l \notin T =>
           /\ At(l, "none")' <=> At(l, "none")
           /\ At(l, "none") => (TurnedAway(l)' <=> TurnedAway(l))
           /\ job'[l].at \in Ended <=> job[l].at \in Ended
  PROVE  Promise!Next
<1> DEFINE S == {l \in Lines : l \in T /\ ~Settled(l)}
<1>1. \A l \in Lines : Settled(l)' <=> Settled(l)
  BY DEF Settled
<1>2. \A l \in Lines : l \in S => Fate(l) = "accepted" /\ Fate(l)' = "dropped"
  BY <1>1, FatesBeforeAndAfter DEF FateTable
<1>3. \A l \in Lines : l \notin S => Fate(l)' = Fate(l)
  <2> SUFFICES ASSUME NEW l \in Lines, l \notin S PROVE Fate(l)' = Fate(l)
    OBVIOUS
  <2>1. CASE Settled(l)
    BY <1>1, <2>1, FatesBeforeAndAfter DEF FateTable
  <2>2. CASE ~Settled(l)
    <3>1. l \notin T
      BY <2>2
    <3>2. CASE At(l, "none")
      BY <1>1, <2>2, <3>1, <3>2, FatesBeforeAndAfter DEF FateTable
    <3>3. CASE ~At(l, "none")
      BY <1>1, <2>2, <3>1, <3>3, FatesBeforeAndAfter DEF FateTable, At
    <3> QED
      BY <3>2, <3>3
  <2> QED
    BY <2>1, <2>2
<1>4. S \in SUBSET Lines
  OBVIOUS
<1> HIDE DEF S
<1>5. Promise!Drop(S)
  BY <1>2, <1>3, <1>4 DEF Promise!Drop
<1> QED
  BY <1>4, <1>5 DEF Promise!Next

\* Only l changes its place, before it is written.
LEMMA OneMoves ==
  ASSUME NEW l \in Lines,
         \A k \in Lines : k # l =>
           /\ job'[k] = job[k] /\ writer'[k] = writer[k]
           /\ Settled(k)' <=> Settled(k)
  PROVE  \A k \in Lines : k # l => Fate(k)' = Fate(k)
<1> SUFFICES ASSUME NEW k \in Lines, k # l PROVE Fate(k)' = Fate(k)
  OBVIOUS
<1>1. CASE Settled(k)
  BY <1>1, FatesBeforeAndAfter DEF FateTable
<1>2. CASE ~Settled(k)
  BY <1>2, FatesBeforeAndAfter DEF FateTable, At, TurnedAway
<1> QED
  BY <1>1, <1>2

LEMMA Refuses ==
  ASSUME Types, JobInv, NEW l \in Lines, UNCHANGED <<job, chain>>,
         NEW w \in {"broken", "failed"}, writer' = [writer EXCEPT ![l] = w],
         writer[l] \in {"idle", "open"}
  PROVE  Promise!Next
<1>1. /\ At(l, "none") /\ ~TurnedAway(l) /\ ~Settled(l)
      /\ At(l, "none")' /\ TurnedAway(l)' /\ ~Settled(l)'
  <2>1. At(l, "none")
    BY DEF JobInv, WriteInv, Delivered
  <2>2. ~Settled(l)
    BY <2>1, NotSettled DEF JobInv, At
  <2> QED
    BY <2>1, <2>2 DEF At, Settled, TurnedAway, Types
<1>2. Fate(l) = "new" /\ Fate(l)' = "refused"
  BY <1>1, FatesBeforeAndAfter DEF FateTable
<1>3. \A k \in Lines : k # l => Fate(k)' = Fate(k)
  <2>1. \A k \in Lines : k # l => /\ job'[k] = job[k] /\ writer'[k] = writer[k]
                                  /\ Settled(k)' <=> Settled(k)
    BY DEF Types, Settled
  <2> QED
    BY <2>1, OneMoves
<1>4. Promise!Refuse(l)
  BY <1>2, <1>3 DEF Promise!Refuse
<1> QED
  BY <1>4 DEF Promise!Next

LEMMA Accepts ==
  ASSUME Types, JobInv, NEW l \in Lines, WriteLine(l)
  PROVE  Promise!Next
<1>1. /\ At(l, "none") /\ writer[l] = "open" /\ chain' = chain
      /\ job' = [job EXCEPT ![l].at = "buffered"]
      /\ writer' = [writer EXCEPT ![l] = "written"]
  BY DEF JobInv, WriteInv, Delivered, WriteLine
<1>2. ~Settled(l) /\ ~Settled(l)'
  <2>1. ~Settled(l)
    BY <1>1, NotSettled DEF JobInv, At
  <2> QED
    BY <1>1, <2>1 DEF Settled
<1>3. job'[l].at \notin Ended \union {"none"} /\ ~TurnedAway(l)
  BY <1>1 DEF Ended, Types, Jobs, TurnedAway
<1>4. Fate(l) = "new" /\ Fate(l)' = "accepted"
  BY <1>1, <1>2, <1>3, FatesBeforeAndAfter DEF FateTable
<1>5. \A k \in Lines : k # l => Fate(k)' = Fate(k)
  <2>1. \A k \in Lines : k # l => /\ job'[k] = job[k] /\ writer'[k] = writer[k]
                                  /\ Settled(k)' <=> Settled(k)
    BY <1>1 DEF Types, Settled
  <2> QED
    BY <2>1, OneMoves
<1>6. Promise!Accept(l)
  BY <1>1, <1>4, <1>5 DEF Promise!Accept
<1> QED
  BY <1>6 DEF Promise!Next

LEMMA Settles ==
  ASSUME Types, JobInv, NEW l \in Lines, At(l, "send"), chain' = Append(chain, l),
         writer' = writer, \A k \in Lines : k # l => job'[k] = job[k]
  PROVE  Promise!Next
<1>1. \A k \in Lines : Settled(k)' <=> Settled(k) \/ k = l
  <2>1. chain \in Seq(Lines) /\ DOMAIN chain = 1 .. Len(chain)
        /\ DOMAIN chain' = 1 .. Len(chain) + 1 /\ Len(chain) \in Nat
    BY DEF Types
  <2>2. chain'[Len(chain) + 1] = l /\ \A n \in 1 .. Len(chain) : chain'[n] = chain[n]
    BY <2>1
  <2>3. \A n \in 1 .. Len(chain) + 1 : n \in 1 .. Len(chain) \/ n = Len(chain) + 1
    BY <2>1
  <2>4. Len(chain) + 1 \in 1 .. Len(chain) + 1 /\ 1 .. Len(chain) \subseteq 1 .. Len(chain) + 1
    BY <2>1
  <2> QED
    BY <2>1, <2>2, <2>3, <2>4 DEF Settled
<1>2. ~Settled(l)
  BY NotSettled DEF JobInv, At
<1>3. Fate(l) = "accepted" /\ Fate(l)' = "settled"
  BY <1>1, <1>2, FatesBeforeAndAfter DEF FateTable, At, Ended
<1>4. \A k \in Lines : k # l => Fate(k)' = Fate(k)
  BY <1>1, OneMoves
<1>5. Promise!Settle(l)
  BY <1>3, <1>4 DEF Promise!Settle
<1> QED
  BY <1>5 DEF Promise!Next

\* Nothing that counts changes.
LEMMA FatesStay ==
  ASSUME chain' = chain,
         \A l \in Lines :
           /\ At(l, "none")' <=> At(l, "none")
           /\ At(l, "none") => (TurnedAway(l)' <=> TurnedAway(l))
           /\ job'[l].at \in Ended <=> job[l].at \in Ended
  PROVE  Promise!Next
<1> DEFINE T == {}
<1>1. \A l \in Lines : l \in T =>
        job[l].at \notin Ended \union {"none"} /\ job'[l].at \in Ended
  OBVIOUS
<1>2. \A l \in Lines : l \notin T =>
        /\ At(l, "none")' <=> At(l, "none")
        /\ At(l, "none") => (TurnedAway(l)' <=> TurnedAway(l))
        /\ job'[l].at \in Ended <=> job[l].at \in Ended
  OBVIOUS
<1> HIDE DEF T
<1> QED
  BY <1>1, <1>2, Drops

LEMMA LeaveLoses ==
  ASSUME NEW rd, NEW wr, NEW S, Leave(rd, wr, S)
  PROVE  \E T : /\ job' = Lose(job, T)
                /\ \A l \in Lines : l \in T => l \in S \/ job[l].at = "buffered"
<1>1. \A l \in Buffered : job[l].at = "buffered"
  BY DEF Buffered, At
<1>2. CASE job' = Lose(job, S)
  BY <1>2
<1>3. CASE job' = Lose(job, S \union Buffered)
  <2>1. \A l \in Lines : l \in S \union Buffered => l \in S \/ job[l].at = "buffered"
    BY <1>1
  <2> QED
    BY <1>3, <2>1
<1> QED
  BY <1>2, <1>3 DEF Leave

LEMMA LinesLostDrop ==
  ASSUME NEW T, job' = Lose(job, T), UNCHANGED <<writer, chain>>,
         \A l \in Lines : l \in T => job[l].at \in InFlight \union {"buffered"}
  PROVE  Promise!Next
<1>1. \A l \in Lines : l \in T => job'[l].at \in Ended
  BY LostJobs DEF Idle, Ended
<1>2. \A l \in Lines : l \in T => job[l].at \notin Ended \union {"none"}
  BY DEF InFlight, Ended
<1>3. \A l \in Lines : l \notin T => job'[l] = job[l]
  BY LostJobs
<1>4. \A l \in Lines : l \notin T =>
        /\ At(l, "none")' <=> At(l, "none")
        /\ At(l, "none") => (TurnedAway(l)' <=> TurnedAway(l))
        /\ job'[l].at \in Ended <=> job[l].at \in Ended
  BY <1>3 DEF At, TurnedAway
<1> QED
  BY <1>1, <1>2, <1>4, Drops

\* emit_to_relayer closes, and the bytes may be gone with the FIFO.
LEMMA ClosingDrops ==
  ASSUME Types, JobInv, NEW l \in Lines, CloseAndReport(l)
  PROVE  Promise!Next
<1>1. PICK T : /\ job' = Lose(job, T) /\ chain' = chain
               /\ \A k \in Lines : k \in T => job[k].at = "buffered"
  <2>1. Buffered \union {} = Buffered
    OBVIOUS
  <2> QED
    BY <2>1 DEF CloseAndReport, Leave, Buffered, At
<1>2. /\ \A k \in Lines : k # l => writer'[k] = writer[k]
      /\ TurnedAway(l)' <=> TurnedAway(l)
  <2>1. PICK r \in {"relayed", "failed"} :
          /\ writer' = [writer EXCEPT ![l] = r]
          /\ r = "failed" <=> writer[l] = "broken"
          /\ writer[l] \in {"written", "broken"}
    BY DEF CloseAndReport, Leave
  <2> QED
    BY <2>1 DEF TurnedAway, Types
<1>3. \A k \in Lines : TurnedAway(k)' <=> TurnedAway(k)
  BY <1>2 DEF TurnedAway
<1>4. \A k \in Lines : k \in T => job'[k].at \in Ended
  BY <1>1, LostJobs DEF Idle, Ended
<1>5. \A k \in Lines : k \in T => job[k].at \notin Ended \union {"none"}
  BY <1>1 DEF Ended
<1>6. \A k \in Lines : k \notin T => job'[k] = job[k]
  BY <1>1, LostJobs
<1>7. \A k \in Lines : k \notin T =>
        /\ At(k, "none")' <=> At(k, "none")
        /\ At(k, "none") => (TurnedAway(k)' <=> TurnedAway(k))
        /\ job'[k].at \in Ended <=> job[k].at \in Ended
  BY <1>3, <1>6 DEF At
<1> QED
  BY <1>1, <1>4, <1>5, <1>7, Drops

\* A handler goes on or ends, without a transaction.
LEMMA HandlerDrops ==
  ASSUME Types, NEW l \in Lines, UNCHANGED <<writer, chain>>,
         job[l].at \in InFlight, \A k \in Lines : k # l => job'[k] = job[k],
         job'[l].at \in InFlight \union {"returned", "logged"}
  PROVE  Promise!Next
<1>1. CASE job'[l].at \in InFlight
  <2>1. \A x \in InFlight : x # "none" /\ x \notin Ended
    BY DEF InFlight, Ended
  <2>2. \A k \in Lines : TurnedAway(k)' <=> TurnedAway(k)
    BY DEF TurnedAway
  <2>3. \A k \in Lines : /\ At(k, "none")' <=> At(k, "none")
                         /\ job'[k].at \in Ended <=> job[k].at \in Ended
    BY <1>1, <2>1 DEF At
  <2> QED
    BY <2>2, <2>3, FatesStay
<1>2. CASE job'[l].at \in {"returned", "logged"}
  <2>1. \A k \in Lines : k \in {l} =>
          job[k].at \notin Ended \union {"none"} /\ job'[k].at \in Ended
    BY <1>2 DEF InFlight, Ended
  <2>2. \A k \in Lines : k \notin {l} =>
          /\ At(k, "none")' <=> At(k, "none")
          /\ At(k, "none") => (TurnedAway(k)' <=> TurnedAway(k))
          /\ job'[k].at \in Ended <=> job[k].at \in Ended
    BY DEF At, TurnedAway
  <2> QED
    BY <2>1, <2>2, Drops
<1> QED
  BY <1>1, <1>2

LEMMA HandlersKeepPromise ==
  ASSUME Types, JobInv, NEW l \in Lines, Handles(l) \/ Confirm(l)
  PROVE  Promise!Next
<1>0. job[l] \in Jobs /\ job \in [Lines -> Jobs]
  BY DEF Types
<1>1. writer' = writer /\ job[l].at \in InFlight
  BY DEF Handles, ProverReturns, GetBalance, GetNonce, Send, Confirm, Continues, At,
     InFlight, fifo
<1>2. \A k \in Lines : k # l => job'[k] = job[k]
  BY <1>0 DEF Handles, ProverReturns, GetBalance, GetNonce, Send, Confirm, GoOn, End
<1>3. CASE chain' = Append(chain, l)
  <2>1. At(l, "send") \/ chain' = chain
    BY DEF Handles, ProverReturns, GetBalance, GetNonce, Send, Confirm, Continues
  <2>2. Append(chain, l) # chain
    BY DEF Types
  <2> QED
    BY <1>1, <1>2, <1>3, <2>1, <2>2, Settles
<1>4. CASE chain' = chain
  <2>1. ASSUME NEW phase \in {"returned", "logged"}, End(l, phase)
        PROVE  job'[l].at \in InFlight \union {"returned", "logged"}
    BY <1>0, <2>1 DEF End, Idle
  <2>2. ASSUME NEW phase \in InFlight, GoOn(l, phase)
        PROVE  job'[l].at \in InFlight \union {"returned", "logged"}
    BY <1>0, <2>2 DEF GoOn, Jobs
  <2>3. ASSUME NEW n, job' = [job EXCEPT ![l] = [@ EXCEPT !.at = "send", !.nonce = n]]
        PROVE  job'[l].at \in InFlight \union {"returned", "logged"}
    BY <1>0, <2>3 DEF Jobs, InFlight
  <2>5. "nonce" \in InFlight /\ "balance" \in InFlight
    BY DEF InFlight
  <2>6. ASSUME ProverReturns(l)
        PROVE  job'[l].at \in InFlight \union {"returned", "logged"}
    BY <2>1, <2>2, <2>5, <2>6 DEF ProverReturns
  <2>7. ASSUME GetBalance(l)
        PROVE  job'[l].at \in InFlight \union {"returned", "logged"}
    BY <2>1, <2>2, <2>5, <2>7 DEF GetBalance
  <2>8. ASSUME GetNonce(l)
        PROVE  job'[l].at \in InFlight \union {"returned", "logged"}
    BY <2>1, <2>3, <2>8 DEF GetNonce
  <2>9. ASSUME Send(l)
        PROVE  job'[l].at \in InFlight \union {"returned", "logged"}
    <3>1. Append(chain, l) # chain
      BY DEF Types
    <3> QED
      BY <1>4, <2>1, <2>9, <3>1 DEF Send
  <2>10. ASSUME Confirm(l)
        PROVE  job'[l].at \in InFlight \union {"returned", "logged"}
    BY <2>1, <2>10 DEF Confirm
  <2>11. job'[l].at \in InFlight \union {"returned", "logged"}
    BY <2>6, <2>7, <2>8, <2>9, <2>10 DEF Handles
  <2> QED
    BY <1>1, <1>2, <1>4, <2>11, HandlerDrops
<1>5. chain' = chain \/ chain' = Append(chain, l)
  BY DEF Handles, ProverReturns, GetBalance, GetNonce, Send, Confirm
<1> QED
  BY <1>3, <1>4, <1>5

LEMMA ReadersKeepPromise ==
  ASSUME Types, JobInv, NEW p \in Pids, Reads(p)
  PROVE  Promise!Next
<1>0. job \in [Lines -> Jobs] /\ writer \in [Lines -> WriterPlaces] /\ chain' = chain
  BY DEF Types, Reads, OpenForReading, ReadChunk, ReadEnd, CloseStream, StartProver
<1>1. CASE OpenForReading(p)
  <2>1. \A l \in Lines : job'[l] = job[l] /\ (TurnedAway(l)' <=> TurnedAway(l))
    BY <1>0, <1>1 DEF OpenForReading, TurnedAway, WriterPlaces
  <2> QED
    BY <1>0, <2>1, FatesStay DEF At
<1>2. CASE ReadChunk(p)
  <2>1. \A l \in Lines : /\ job'[l].at = "none" <=> job[l].at = "none"
                         /\ job'[l].at \in Ended <=> job[l].at \in Ended
    BY <1>0, <1>2 DEF ReadChunk, Buffered, At, Jobs, Ended
  <2>2. \A l \in Lines : TurnedAway(l)' <=> TurnedAway(l)
    BY <1>2 DEF ReadChunk, TurnedAway
  <2> QED
    BY <1>0, <2>1, <2>2, FatesStay DEF At
<1>3. CASE ReadEnd(p)
  <2>1. \A l \in Lines : job'[l] = job[l] /\ (TurnedAway(l)' <=> TurnedAway(l))
    BY <1>3 DEF ReadEnd, TurnedAway
  <2> QED
    BY <1>0, <2>1, FatesStay DEF At
<1>4. CASE CloseStream(p)
  <2>1. PICK T : /\ job' = Lose(job, T) /\ writer' = writer
                 /\ \A l \in Lines : l \in T => job[l].at \in InFlight \union {"buffered"}
    <3>1. writer' = writer /\ Leave([reader EXCEPT ![p] = "closed"], writer, {})
      BY <1>4 DEF CloseStream, Leave
    <3> QED
      BY <3>1, LeaveLoses
  <2> QED
    BY <1>0, <2>1, LinesLostDrop
<1>5. CASE StartProver(p)
  <2> DEFINE l == Head(chunk[p])
  <2>1. l \in Lines /\ job[l].at \in InFlight
    <3>1. chunk[p] \in Seq(Lines) /\ chunk[p] # <<>>
      BY <1>5 DEF Types, StartProver
    <3>2. l \in Lines /\ l = chunk[p][1] /\ 1 \in 1 .. Len(chunk[p])
      BY <3>1
    <3> QED
      BY <3>2 DEF JobInv, ChunkInv, InFlight
  <2> HIDE DEF l
  <2>2. /\ \A k \in Lines : k # l => job'[k] = job[k]
        /\ job'[l].at = "proving" /\ writer' = writer
    BY <1>0, <1>5, <2>1 DEF StartProver, GoOn, l, Jobs, fifo
  <2>3. job'[l].at \in InFlight
    BY <2>2 DEF InFlight
  <2> QED
    BY <1>0, <2>1, <2>2, <2>3, HandlerDrops
<1> QED
  BY <1>1, <1>2, <1>3, <1>4, <1>5 DEF Reads

LEMMA DyingDrops ==
  ASSUME NEW P, Die(P)
  PROVE  Promise!Next
<1>1. PICK T : /\ job' = Lose(job, T) /\ UNCHANGED <<writer, chain>>
               /\ \A l \in Lines : l \in T => job[l].at \in InFlight \union {"buffered"}
  <2> DEFINE held == {l \in Lines : job[l].at \in InFlight /\ job[l].by \in P}
             rd == [p \in Pids |-> IF p \in P /\ Live(p) THEN "dead" ELSE reader[p]]
  <2>1. UNCHANGED <<writer, chain>> /\ Leave(rd, writer, held)
    BY DEF Die, Leave
  <2>2. \A l \in held : job[l].at \in InFlight
    OBVIOUS
  <2> HIDE DEF held, rd
  <2> QED
    BY <2>1, <2>2, LeaveLoses
<1> QED
  BY <1>1, LinesLostDrop

LEMMA StepKeepsPromise == RelayerInv /\ [Next]_vars => [Promise!Next]_(Promise!vars)
<1> SUFFICES ASSUME RelayerInv, [Next]_vars PROVE Promise!Next
  OBVIOUS
<1>0. Types /\ TypeOK /\ JobInv
  BY TypesOfAll DEF RelayerInv
<1>1. ASSUME UNCHANGED <<job, writer, chain>> PROVE Promise!Next
  <2>1. \A l \in Lines : job'[l] = job[l] /\ (TurnedAway(l)' <=> TurnedAway(l))
    BY <1>1 DEF TurnedAway
  <2> QED
    BY <1>1, <2>1, FatesStay DEF At
<1>2. ASSUME NEW l \in Lines, Emit(l) PROVE Promise!Next
  <2>1. CASE EmitWithoutPipe(l)
    BY <1>0, <2>1, Refuses DEF EmitWithoutPipe, daemon
  <2>2. CASE OpenForWriting(l)
    <3>1. \A k \in Lines : job'[k] = job[k] /\ (TurnedAway(k)' <=> TurnedAway(k))
      BY <1>0, <2>2 DEF OpenForWriting, TurnedAway, Types
    <3>2. chain' = chain
      BY <2>2 DEF OpenForWriting
    <3> QED
      BY <3>1, <3>2, FatesStay DEF At
  <2> QED
    BY <1>2, <2>1, <2>2 DEF Emit
<1>3. ASSUME NEW l \in Lines, EmitGoesOn(l) PROVE Promise!Next
  <2>1. CASE WriteFails(l)
    BY <1>0, <2>1, Refuses DEF WriteFails, daemon
  <2> QED
    BY <1>0, <1>3, <2>1, Accepts, ClosingDrops DEF EmitGoesOn
<1>4. ASSUME NEW p \in Pids, Crash(p) PROVE Promise!Next
  BY <1>4, DyingDrops DEF Crash
<1>5. ASSUME NEW c \in Callers, Controls(c) PROVE Promise!Next
  <2>1. CASE KillAll(c)
    BY <2>1, DyingDrops DEF KillAll
  <2>2. ASSUME NEW command, Run(c, command) PROVE UNCHANGED <<job, writer, chain>>
    BY <2>2 DEF Run, daemon
  <2>3. ASSUME ~KillAll(c) PROVE UNCHANGED <<job, writer, chain>>
    BY <1>5, <2>2, <2>3 DEF Controls, CheckRunning, Launch, RecordPid, TestPidFile,
       KillRecorded, RemovePidFile, ScriptDies, daemon
  <2> QED
    BY <1>1, <2>1, <2>3
<1>7. ASSUME NEW p \in Pids, NpxEnds(p) PROVE Promise!Next
  BY <1>1, <1>7 DEF NpxEnds, daemon
<1>6. CASE UNCHANGED vars
  BY <1>1, <1>6 DEF vars, daemon
<1> QED
  BY <1>0, <1>2, <1>3, <1>4, <1>5, <1>6, <1>7, HandlersKeepPromise,
     ReadersKeepPromise, StepCases

LEMMA InitKeepsPromise == Init => Promise!Init
<1> SUFFICES ASSUME Init PROVE Promise!Init
  OBVIOUS
<1>1. \A l \in Lines : job[l].at = "none" /\ ~TurnedAway(l) /\ ~Settled(l)
  <2>1. DOMAIN chain = {}
    <3>1. chain = <<>> /\ DOMAIN <<>> = {}
      BY DEF Init
    <3> QED
      BY <3>1
  <2> QED
    BY <2>1 DEF Init, Idle, TurnedAway, Settled
<1>2. \A l \in Lines : Fate(l) = "new"
  BY <1>1, FatesBeforeAndAfter DEF FateTable, At
<1>3. chain = <<>>
  BY DEF Init
<1> QED
  BY <1>2, <1>3 DEF Promise!Init

\* The relayer implements SettlementPromise: emit_to_relayer's line is refused or
\* accepted once, settled at most once, and never after the daemon gave it up or its
\* writer was told of a failure; in spite of crashes, restarts, lost answers and two
\* daemons on one FIFO.
THEOREM RelayerKeepsPromise == Spec => PromiseKept
<1>1. RelayerInv /\ [Next]_vars => [Promise!Next]_(Promise!vars)
  BY StepKeepsPromise
<1>2. Init => Promise!Init
  BY InitKeepsPromise
<1> QED
  BY <1>1, <1>2, RelayerInvariance, PTL DEF Spec, PromiseKept, Promise!Spec
==============================================================================
