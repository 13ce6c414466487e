---------------------------- MODULE NotaryProofs ----------------------------
(***************************************************************************)
(* Proofs about Notary, for any number of runs, key files lost and blocks  *)
(* left by others.                                                         *)
(***************************************************************************)
EXTENDS Notary, TLAPS

RunStates == [at : Places, idx : Indices, approval : Approvals]
ReaderStates == [at : {"idle", "open", "verify"}, idx : 0 .. 3,
                 approval : Approvals, count : 0 .. 3, exit : {-1, 0, 1, 2, 3}]

-----------------------------------------------------------------------------
(* Types *)

LEMMA IndexFacts ==
  /\ 0 \in Indices /\ 1 \in Indices /\ 2 \in Indices
  /\ \A i \in Indices : i \in Nat /\ (i = 0 \/ i = 1 \/ i = 2)
  /\ \A i \in Indices : i # 2 => i + 1 \in Indices
BY DEF Indices

\* The blocks that the program builds.
LEMMA NoBlockType == NoBlock \in Approvals
<1>1. \E c \in Challenges : TRUE
  BY ChallengeAssumption
<1>2. (CHOOSE c \in Challenges : TRUE) \in Challenges
  BY <1>1
<1>3. NoSignature \in Signatures
  BY DEF Signatures
<1>4. {} \in SUBSET (0 .. 7)
  OBVIOUS
<1> QED
  BY <1>2, <1>3, <1>4 DEF NoBlock, Approvals

LEMMA RestTypes ==
  /\ \A place \in Places : At(place) \in RunStates
  /\ IdleReader \in ReaderStates
<1>1. ASSUME NEW place \in Places PROVE At(place) \in RunStates
  BY NoBlockType, IndexFacts DEF At, RunStates
<1>2. IdleReader \in ReaderStates
  BY NoBlockType DEF IdleReader, ReaderStates
<1> QED
  BY <1>1, <1>2

LEMMA NewBlockType ==
  ASSUME NEW c \in Challenges
  PROVE  [NoBlock EXCEPT !.challenge = c, !.witness_mask = {0, 1, 2}] \in Approvals
<1>1. {0, 1, 2} \in SUBSET (0 .. 7)
  OBVIOUS
<1> QED
  BY <1>1, NoBlockType DEF Approvals

LEMMA SignedBlockType ==
  ASSUME NEW a \in Approvals, NEW i \in Indices, NEW k \in Keys
  PROVE  [a EXCEPT !.signatures[i] = [signer |-> i, key |-> k, over |-> a.challenge]]
           \in Approvals
<1> DEFINE sig == [signer |-> i, key |-> k, over |-> a.challenge]
<1>1. a.challenge \in Challenges /\ a.signatures \in [Indices -> Signatures]
  BY DEF Approvals
<1>2. sig \in Signatures
  BY <1>1 DEF Signatures
<1>3. [a.signatures EXCEPT ![i] = sig] \in [Indices -> Signatures]
  BY <1>1, <1>2
<1> HIDE DEF sig
<1>4. [a EXCEPT !.signatures[i] = sig] \in Approvals
  BY <1>3 DEF Approvals
<1> QED
  BY <1>4 DEF sig

\* The step of a run to its next index or next part.
LEMMA AdvanceType ==
  ASSUME TypeOK, NEW r \in Runs, NEW from, NEW again \in Places, NEW next \in Places,
         Advances(r, from, again, next)
  PROVE  run' \in [Runs -> RunStates]
<1> USE DEF TypeOK, Advances
<1>1. run \in [Runs -> RunStates]
  BY DEF RunStates
<1>2. run[r].idx \in Indices
  BY <1>1 DEF RunStates
<1>3. CASE run[r].idx = 2
  <2>1. [run[r] EXCEPT !.at = next, !.idx = 0] \in RunStates
    BY <1>1, IndexFacts DEF RunStates
  <2> QED
    BY <2>1, <1>1, <1>3
<1>4. CASE run[r].idx # 2
  <2>1. [run[r] EXCEPT !.at = again, !.idx = @ + 1] \in RunStates
    BY <1>1, <1>2, <1>4, IndexFacts DEF RunStates
  <2> QED
    BY <2>1, <1>1, <1>4
<1> QED
  BY <1>3, <1>4

LEMMA GoType ==
  ASSUME TypeOK, NEW r \in Runs, NEW from, NEW to \in Places, Goes(r, from, to)
  PROVE  run' \in [Runs -> RunStates]
<1>1. run \in [Runs -> RunStates]
  BY DEF RunStates, TypeOK
<1>2. [run[r] EXCEPT !.at = to] \in RunStates
  BY <1>1 DEF RunStates
<1> QED
  BY <1>1, <1>2 DEF Goes

LEMMA EndType ==
  ASSUME TypeOK, NEW r \in Runs, NEW how \in Places, Ends(r, how)
  PROVE  run' \in [Runs -> RunStates]
BY RestTypes DEF Ends, TypeOK, RunStates

LEMMA InitTypes == Init => TypeOK
<1> SUFFICES ASSUME Init PROVE TypeOK
  OBVIOUS
<1>1. priv \in [Indices -> Files] /\ pub \in [Indices -> Files]
  BY DEF Init, Files, Keys
<1>2. block \in Approvals \union {NoFile, Empty}
  BY BlockAssumption DEF Init
<1>3. run \in [Runs -> RunStates]
  BY RestTypes DEF Init, Places
<1>4. reader \in ReaderStates
  BY RestTypes DEF Init
<1>5. losses = 0 /\ quiet = FALSE /\ mixed = FALSE
  BY DEF Init
<1>6. losses \in 0 .. MaxLosses
  BY <1>5, LossAssumption
<1>7. quiet \in BOOLEAN /\ mixed \in BOOLEAN
  BY <1>5, Zenon
<1> QED
  BY <1>1, <1>2, <1>3, <1>4, <1>6, <1>7 DEF TypeOK, RunStates, ReaderStates

\* How far the reader is: it has no verdict yet, it has counted no more than it
\* has looked at, and if it has counted them all they are what they should be.
SignedBy(i, approval) ==
  /\ approval.signatures[i].signer = i
  /\ approval.signatures[i].over = approval.challenge
ReaderInv ==
  /\ reader.at # "idle" => reader.exit = -1
  /\ reader.at = "open" => reader.idx = 0 /\ reader.count = 0
  /\ reader.at = "verify" =>
       /\ reader.count <= reader.idx
       /\ reader.count = reader.idx =>
            \A i \in Indices : i < reader.idx => SignedBy(i, reader.approval)

LEMMA StepTypes == TypeOK /\ ReaderInv /\ [Next]_vars => TypeOK'
<1> SUFFICES ASSUME TypeOK, ReaderInv, [Next]_vars PROVE TypeOK'
  OBVIOUS
<1>0. /\ priv \in [Indices -> Files] /\ pub \in [Indices -> Files]
      /\ block \in Approvals \union {NoFile, Empty}
      /\ run \in [Runs -> RunStates]
      /\ reader \in ReaderStates
      /\ losses \in 0 .. MaxLosses /\ quiet \in BOOLEAN /\ mixed \in BOOLEAN
  BY DEF TypeOK, RunStates, ReaderStates
<1>f. /\ NoFile \in Files /\ Empty \in Files
      /\ \A r \in Runs : r \in Files /\ run[r].idx \in Indices
                         /\ run[r].approval \in Approvals
  BY <1>0 DEF Files, Keys, RunStates
<1>p. /\ "check" \in Places /\ "open_priv" \in Places /\ "write_priv" \in Places
      /\ "open_pub" \in Places /\ "write_pub" \in Places /\ "sign" \in Places
      /\ "open_out" \in Places /\ "write_out" \in Places /\ "exit" \in Places
      /\ "error" \in Places /\ "dead" \in Places
  BY DEF Places
<1>1. ASSUME NEW r \in Runs, StartRun(r) PROVE TypeOK'
  <2>1. PICK c \in Challenges :
          run' = [run EXCEPT ![r] = [at |-> "check", idx |-> 0,
                    approval |-> [NoBlock EXCEPT !.challenge = c,
                                                 !.witness_mask = {0, 1, 2}]]]
    BY <1>1 DEF StartRun
  <2>2. run' \in [Runs -> RunStates]
    BY <1>0, <1>p, <2>1, NewBlockType, IndexFacts DEF RunStates
  <2>3. reader' \in ReaderStates
    BY <1>0, <1>1, RestTypes DEF StartRun
  <2>4. quiet' \in BOOLEAN /\ mixed' \in BOOLEAN
    BY <1>0, <1>1 DEF StartRun
  <2> QED
    BY <1>0, <1>1, <2>2, <2>3, <2>4 DEF StartRun, TypeOK, RunStates, ReaderStates
<1>2. ASSUME NEW r \in Runs, CheckPair(r) PROVE TypeOK'
  <2>1. run' \in [Runs -> RunStates]
    BY <1>2, <1>p, AdvanceType, GoType DEF CheckPair
  <2> QED
    BY <1>0, <1>2, <2>1 DEF CheckPair, TypeOK, RunStates, ReaderStates
<1>3. ASSUME NEW r \in Runs, OpenPrivate(r) PROVE TypeOK'
  <2>1. run' \in [Runs -> RunStates]
    BY <1>3, <1>p, GoType DEF OpenPrivate
  <2>2. priv' \in [Indices -> Files]
    BY <1>0, <1>f, <1>3 DEF OpenPrivate
  <2> QED
    BY <1>0, <1>3, <2>1, <2>2 DEF OpenPrivate, TypeOK, RunStates, ReaderStates
<1>4. ASSUME NEW r \in Runs, WritePrivate(r) PROVE TypeOK'
  <2>1. run' \in [Runs -> RunStates]
    BY <1>4, <1>p, GoType DEF WritePrivate
  <2>2. priv' \in [Indices -> Files]
    BY <1>0, <1>f, <1>4 DEF WritePrivate
  <2> QED
    BY <1>0, <1>4, <2>1, <2>2 DEF WritePrivate, TypeOK, RunStates, ReaderStates
<1>5. ASSUME NEW r \in Runs, OpenPublic(r) PROVE TypeOK'
  <2>1. run' \in [Runs -> RunStates]
    BY <1>5, <1>p, GoType DEF OpenPublic
  <2>2. pub' \in [Indices -> Files]
    BY <1>0, <1>f, <1>5 DEF OpenPublic
  <2> QED
    BY <1>0, <1>5, <2>1, <2>2 DEF OpenPublic, TypeOK, RunStates, ReaderStates
<1>6. ASSUME NEW r \in Runs, WritePublic(r) PROVE TypeOK'
  <2>1. run' \in [Runs -> RunStates]
    BY <1>6, <1>p, AdvanceType DEF WritePublic
  <2>2. pub' \in [Indices -> Files]
    BY <1>0, <1>f, <1>6 DEF WritePublic
  <2> QED
    BY <1>0, <1>6, <2>1, <2>2 DEF WritePublic, TypeOK, RunStates, ReaderStates
<1>7. ASSUME NEW r \in Runs, EndAfterKeys(r) PROVE TypeOK'
  <2>1. run' \in [Runs -> RunStates]
    BY <1>7, <1>p, EndType DEF EndAfterKeys
  <2> QED
    BY <1>0, <1>7, <2>1 DEF EndAfterKeys, TypeOK, RunStates, ReaderStates
<1>8. ASSUME NEW r \in Runs, Sign(r) PROVE TypeOK'
  <2> DEFINE i == run[r].idx
             a == run[r].approval
             signed == [a EXCEPT !.signatures[i] = [signer |-> i, key |-> priv[i],
                                                    over |-> a.challenge]]
             place == IF i = 2 THEN "open_out" ELSE "sign"
             next == IF i = 2 THEN 0 ELSE i + 1
  <2>1. signed \in Approvals
    BY <1>f, <1>8, SignedBlockType DEF Sign
  <2>2. place \in Places /\ next \in Indices
    BY <1>f, <1>p, IndexFacts
  <2>3. run' = [run EXCEPT ![r] = [@ EXCEPT !.at = place, !.idx = next,
                                            !.approval = signed]]
    BY <1>0, <1>8 DEF Sign, RunStates, Approvals
  <2> HIDE DEF signed, place, next
  <2>4. run' \in [Runs -> RunStates]
    BY <1>0, <2>1, <2>2, <2>3 DEF RunStates
  <2> QED
    BY <1>0, <1>8, <2>4 DEF Sign, TypeOK, RunStates, ReaderStates
<1>9. ASSUME NEW r \in Runs, SignFails(r) PROVE TypeOK'
  <2>1. run' \in [Runs -> RunStates]
    BY <1>9, <1>p, EndType DEF SignFails
  <2> QED
    BY <1>0, <1>9, <2>1 DEF SignFails, TypeOK, RunStates, ReaderStates
<1>10. ASSUME NEW r \in Runs, OpenOutput(r) PROVE TypeOK'
  <2>1. run' \in [Runs -> RunStates]
    BY <1>10, <1>p, GoType DEF OpenOutput
  <2> QED
    BY <1>0, <1>10, <2>1 DEF OpenOutput, TypeOK, RunStates, ReaderStates
<1>11. ASSUME NEW r \in Runs, WriteOutput(r) PROVE TypeOK'
  <2>1. run' \in [Runs -> RunStates]
    BY <1>11, <1>p, EndType DEF WriteOutput
  <2> QED
    BY <1>0, <1>f, <1>11, <2>1 DEF WriteOutput, TypeOK, RunStates, ReaderStates
<1>12. ASSUME NEW r \in Runs, Killed(r) PROVE TypeOK'
  <2>1. run' \in [Runs -> RunStates]
    BY <1>12, <1>p, EndType DEF Killed
  <2> QED
    BY <1>0, <1>12, <2>1 DEF Killed, TypeOK, RunStates, ReaderStates
<1>13. ASSUME NEW i \in Indices, LoseFile(i) PROVE TypeOK'
  <2>1. priv' \in [Indices -> Files] /\ pub' \in [Indices -> Files]
    BY <1>0, <1>f, <1>13 DEF LoseFile
  <2>2. losses' \in 0 .. MaxLosses
    BY <1>0, <1>13, LossAssumption DEF LoseFile
  <2> QED
    BY <1>0, <1>13, <2>1, <2>2 DEF LoseFile, TypeOK, RunStates, ReaderStates
<1>14. CASE StartReader
  <2>1. reader' \in ReaderStates
    BY <1>14, RestTypes DEF StartReader, ReaderStates
  <2> QED
    BY <1>0, <1>14, <2>1 DEF StartReader, TypeOK, RunStates, ReaderStates
<1>15. CASE ReadBlock
  <2>1. reader' \in ReaderStates
    BY <1>0, <1>15, RestTypes DEF ReadBlock, Exits, ReaderStates
  <2> QED
    BY <1>0, <1>15, <2>1 DEF ReadBlock, TypeOK, RunStates, ReaderStates
<1>16. CASE VerifySignature
  <2>1. PICK n \in {reader.count, reader.count + 1} :
          reader' = [reader EXCEPT !.idx = @ + 1, !.count = n]
    BY <1>16 DEF VerifySignature
  <2>2. reader.idx + 1 \in 0 .. 3 /\ n \in 0 .. 3
    BY <1>0, <1>16, <2>1 DEF VerifySignature, ReaderInv, ReaderStates
  <2>3. reader' \in ReaderStates
    BY <1>0, <2>1, <2>2 DEF ReaderStates
  <2> QED
    BY <1>0, <1>16, <2>3 DEF VerifySignature, TypeOK, RunStates, ReaderStates
<1>17. CASE Conclude
  <2>1. reader' \in ReaderStates
    BY <1>0, <1>17, RestTypes DEF Conclude, Exits, ReaderStates
  <2> QED
    BY <1>0, <1>17, <2>1 DEF Conclude, TypeOK, RunStates, ReaderStates
<1>18. CASE UNCHANGED vars
  BY <1>0, <1>18 DEF vars, TypeOK, RunStates, ReaderStates
<1> QED
  BY <1>1, <1>2, <1>3, <1>4, <1>5, <1>6, <1>7, <1>8, <1>9, <1>10, <1>11, <1>12,
     <1>13, <1>14, <1>15, <1>16, <1>17, <1>18
  DEF Next, RunStep, ReaderStep


-----------------------------------------------------------------------------
(* What the reader has seen *)

LEMMA ReaderStep_Inv ==
  TypeOK /\ ReaderInv /\ TriadSigned /\ [Next]_vars => ReaderInv' /\ TriadSigned'
<1> SUFFICES ASSUME TypeOK, ReaderInv, TriadSigned, [Next]_vars
             PROVE  ReaderInv' /\ TriadSigned'
  OBVIOUS
<1>0. reader \in ReaderStates
  BY DEF TypeOK, ReaderStates
<1>1. IdleReader.at = "idle" /\ IdleReader.idx = 0 /\ IdleReader.count = 0
        /\ IdleReader.exit = -1
  BY DEF IdleReader
<1>2. ASSUME reader' = reader PROVE ReaderInv' /\ TriadSigned'
  BY <1>2 DEF ReaderInv, TriadSigned
<1>3. ASSUME NEW code \in {-1, 1, 2, 3}, reader' = [IdleReader EXCEPT !.exit = code]
      PROVE  ReaderInv' /\ TriadSigned'
  <2>1. reader'.at = "idle" /\ reader'.exit = code
    BY <1>3 DEF IdleReader
  <2> QED
    BY <2>1 DEF ReaderInv, TriadSigned
<1>4. ASSUME NEW r \in Runs, StartRun(r) PROVE ReaderInv' /\ TriadSigned'
  <2>1. reader' = reader \/ reader' = IdleReader
    BY <1>4 DEF StartRun
  <2> QED
    BY <1>1, <1>2, <2>1 DEF ReaderInv, TriadSigned
<1>5. CASE StartReader
  <2>1. reader'.at = "open" /\ reader'.idx = 0 /\ reader'.count = 0 /\ reader'.exit = -1
    BY <1>5 DEF StartReader, IdleReader
  <2> QED
    BY <2>1 DEF ReaderInv, TriadSigned
<1>6. CASE ReadBlock
  <2>1. CASE reader' = [reader EXCEPT !.at = "verify", !.approval = block]
    <3>1. /\ reader'.at = "verify" /\ reader'.idx = 0 /\ reader'.count = 0
          /\ reader'.exit = -1
      BY <1>0, <1>6, <2>1 DEF ReadBlock, ReaderInv, ReaderStates
    <3> QED
      BY <3>1, IndexFacts DEF ReaderInv, TriadSigned
  <2> QED
    BY <1>3, <1>6, <2>1 DEF ReadBlock, Exits
<1>7. CASE VerifySignature
  <2>1. PICK n \in {reader.count, reader.count + 1} :
          /\ reader' = [reader EXCEPT !.idx = @ + 1, !.count = n]
          /\ n = reader.count + 1 =>
               Verifies(pub[reader.idx], reader.idx, reader.approval)
    <3>1. CASE Verifies(pub[reader.idx], reader.idx, reader.approval)
               /\ pub[reader.idx] \in Keys
      BY <1>7, <3>1 DEF VerifySignature
    <3>2. CASE ~(Verifies(pub[reader.idx], reader.idx, reader.approval)
                   /\ pub[reader.idx] \in Keys)
      <4>1. reader' = [reader EXCEPT !.idx = @ + 1, !.count = reader.count]
        BY <1>0, <1>7, <3>2 DEF VerifySignature, ReaderStates
      <4> QED
        BY <1>0, <4>1 DEF ReaderStates
    <3> QED
      BY <3>1, <3>2
  <2>2. /\ reader'.at = "verify" /\ reader'.idx = reader.idx + 1 /\ reader'.count = n
        /\ reader'.exit = -1 /\ reader'.approval = reader.approval
    BY <1>0, <1>7, <2>1 DEF VerifySignature, ReaderInv, ReaderStates
  <2>3. reader.count <= reader.idx /\ reader.idx \in Nat /\ reader.count \in Nat
    BY <1>0, <1>7 DEF VerifySignature, ReaderInv, ReaderStates
  <2>4. ASSUME n = reader.idx + 1, NEW i \in Indices, i < reader.idx + 1
        PROVE  SignedBy(i, reader.approval)
    <3>1. n = reader.count + 1 /\ reader.count = reader.idx
      BY <2>1, <2>3, <2>4
    <3>2. CASE i < reader.idx
      BY <1>7, <3>1, <3>2 DEF VerifySignature, ReaderInv
    <3>3. CASE i = reader.idx
      BY <2>1, <3>1, <3>3 DEF Verifies, SignedBy
    <3> QED
      BY <2>3, <2>4, <3>2, <3>3, IndexFacts
  <2>5. n <= reader.idx + 1
    BY <2>1, <2>3
  <2> QED
    BY <2>2, <2>4, <2>5 DEF ReaderInv, TriadSigned
<1>8. CASE Conclude
  <2>1. CASE reader' = [reader EXCEPT !.at = "idle", !.exit = 0]
    <3>1. /\ reader'.at = "idle" /\ reader'.approval = reader.approval
      BY <1>0, <2>1 DEF ReaderStates
    <3>2. reader.at = "verify" /\ reader.idx = 3 /\ reader.count = 3
      BY <1>0, <1>8, <2>1 DEF Conclude, Exits, IdleReader, ReaderStates
    <3>3. \A i \in Indices : SignedBy(i, reader.approval)
      BY <3>2, IndexFacts DEF ReaderInv
    <3> QED
      BY <3>1, <3>3 DEF ReaderInv, TriadSigned, SignedBy
  <2> QED
    BY <1>3, <1>8, <2>1 DEF Conclude, Exits
<1>9. ASSUME NEW r \in Runs,
             \/ CheckPair(r) \/ OpenPrivate(r) \/ WritePrivate(r) \/ OpenPublic(r)
             \/ WritePublic(r) \/ EndAfterKeys(r) \/ Sign(r) \/ SignFails(r)
             \/ OpenOutput(r) \/ WriteOutput(r) \/ Killed(r)
      PROVE  reader' = reader
  BY <1>9 DEF CheckPair, OpenPrivate, WritePrivate, OpenPublic, WritePublic,
     EndAfterKeys, Sign, SignFails, OpenOutput, WriteOutput, Killed
<1>10. ASSUME NEW i \in Indices, LoseFile(i) PROVE reader' = reader
  BY <1>10 DEF LoseFile
<1>11. CASE UNCHANGED vars
  BY <1>2, <1>11 DEF vars
<1> QED
  BY <1>2, <1>4, <1>5, <1>6, <1>7, <1>8, <1>9, <1>10, <1>11
  DEF Next, RunStep, ReaderStep

-----------------------------------------------------------------------------
(* The pairs on disk *)

\* An index has a whole pair, or a file is missing and the next run will see it.
WholePair(i) == priv[i] = pub[i] /\ priv[i] \in Keys
SoundPair(i) == NoFile \in {priv[i], pub[i]} \/ WholePair(i)

\* Without interruption one run works at a time, and the only pair that may be
\* unsound is the one it is writing.
PairInv ==
  ~mixed =>
    /\ \A r, s \in Working : r = s
    /\ \A r \in Runs : run[r].at \in {"open_pub", "write_pub"} =>
                        priv[run[r].idx] \in {r, NoFile}
    /\ \A i \in Indices :
         \/ SoundPair(i)
         \/ \E r \in Runs : /\ run[r].idx = i
                            /\ run[r].at \in {"write_priv", "open_pub", "write_pub"}

\* What a step of run r leaves of the runs.
LEMMA Moved ==
  ASSUME TypeOK, NEW r \in Runs, NEW from, NEW to, Goes(r, from, to)
  PROVE  /\ run[r].at = from /\ run'[r].at = to /\ run'[r].idx = run[r].idx
         /\ run'[r].approval = run[r].approval
         /\ \A s \in Runs : s # r => run'[s] = run[s]
BY DEF Goes, TypeOK

LEMMA Advanced ==
  ASSUME TypeOK, NEW r \in Runs, NEW from, NEW again, NEW next,
         Advances(r, from, again, next)
  PROVE  /\ run[r].at = from
         /\ run'[r].at = IF run[r].idx = 2 THEN next ELSE again
         /\ run'[r].idx = IF run[r].idx = 2 THEN 0 ELSE run[r].idx + 1
         /\ run'[r].approval = run[r].approval
         /\ \A s \in Runs : s # r => run'[s] = run[s]
BY DEF Advances, TypeOK

LEMMA EndedRun ==
  ASSUME TypeOK, NEW r \in Runs, NEW how, Ends(r, how)
  PROVE  run'[r].at = how /\ \A s \in Runs : s # r => run'[s] = run[s]
BY DEF Ends, At, TypeOK

LEMMA Signed ==
  ASSUME TypeOK, NEW r \in Runs, Sign(r)
  PROVE  /\ run[r].at = "sign" /\ priv[run[r].idx] \in Keys
         /\ run'[r].at = IF run[r].idx = 2 THEN "open_out" ELSE "sign"
         /\ run'[r].idx = IF run[r].idx = 2 THEN 0 ELSE run[r].idx + 1
         /\ run'[r].approval.challenge = run[r].approval.challenge
         /\ run'[r].approval.witness_mask = run[r].approval.witness_mask
         /\ \A i \in Indices :
              run'[r].approval.signatures[i] =
                IF i = run[r].idx
                  THEN [signer |-> i, key |-> priv[i], over |-> run[r].approval.challenge]
                  ELSE run[r].approval.signatures[i]
         /\ \A s \in Runs : s # r => run'[s] = run[s]
<1>1. run \in [Runs -> RunStates]
  BY DEF TypeOK, RunStates
<1> QED
  BY <1>1 DEF Sign, RunStates, Approvals

LEMMA StartedRun ==
  ASSUME TypeOK, NEW r \in Runs, StartRun(r)
  PROVE  /\ run'[r].at = "check" /\ run'[r].idx = 0
         /\ run'[r].approval.witness_mask = {0, 1, 2}
         /\ \A s \in Runs : s # r => run'[s] = run[s]
<1>1. run \in [Runs -> RunStates]
  BY DEF TypeOK, RunStates
<1>2. PICK c \in Challenges :
        run' = [run EXCEPT ![r] = [at |-> "check", idx |-> 0,
                  approval |-> [NoBlock EXCEPT !.challenge = c,
                                               !.witness_mask = {0, 1, 2}]]]
  BY DEF StartRun
<1>3. [NoBlock EXCEPT !.challenge = c, !.witness_mask = {0, 1, 2}].witness_mask
        = {0, 1, 2}
  BY NoBlockType DEF Approvals
<1> QED
  BY <1>1, <1>2, <1>3

\* While one run works nobody else writes a pair.
LEMMA OneWriter ==
  ASSUME TypeOK, PairInv, ~mixed, NEW r \in Working, NEW s \in Runs,
         run[s].at \in {"write_priv", "open_pub", "write_pub"}
  PROVE  s = r
BY DEF PairInv, Working, Ended

LEMMA InitPairs == Init => PairInv
<1> SUFFICES ASSUME Init PROVE PairInv
  OBVIOUS
<1>1. \A r \in Runs : run[r].at = "new"
  BY DEF Init, At
<1>2. \A i \in Indices : SoundPair(i)
  BY DEF Init, SoundPair, WholePair, Keys
<1> QED
  BY <1>1, <1>2 DEF PairInv, Working, Ended

LEMMA PairStep == TypeOK /\ TypeOK' /\ PairInv /\ [Next]_vars => PairInv'
<1> SUFFICES ASSUME TypeOK, TypeOK', PairInv, [Next]_vars, ~mixed' PROVE PairInv'
  BY DEF PairInv
<1>0. /\ priv \in [Indices -> Files] /\ pub \in [Indices -> Files]
      /\ run \in [Runs -> RunStates]
      /\ \A r \in Runs : run[r].idx \in Indices
  BY DEF TypeOK, RunStates
<1>a. ASSUME ~mixed, NEW r \in Working, priv' = priv, pub' = pub,
             run[r].at \notin {"write_priv", "open_pub", "write_pub"},
             run'[r].at \notin {"open_pub", "write_pub"},
             \A s \in Runs : s # r => run'[s] = run[s]
      PROVE  PairInv'
  <2>1. \A i \in Indices : SoundPair(i)
    BY <1>a, OneWriter DEF PairInv
  <2>2. \A i \in Indices : SoundPair(i)'
    BY <1>a, <2>1 DEF SoundPair, WholePair
  <2>3. \A s, t \in Working' : s = t
    BY <1>a DEF PairInv, Working
  <2>4. \A s \in Runs : run'[s].at \notin {"open_pub", "write_pub"}
    BY <1>a, OneWriter
  <2> QED
    BY <2>2, <2>3, <2>4 DEF PairInv
<1>1. ASSUME NEW r \in Runs, StartRun(r) PROVE PairInv'
  <2>1. ~mixed /\ Working = {} /\ priv' = priv /\ pub' = pub
    BY <1>1 DEF StartRun
  <2>2. \A s \in Runs : run[s].at \in Ended
    BY <2>1 DEF Working
  <2>3. \A i \in Indices : SoundPair(i)'
    BY <2>1, <2>2 DEF PairInv, SoundPair, WholePair, Ended
  <2>4. \A s \in Runs : s # r => run'[s] = run[s]
    BY <1>1, StartedRun
  <2>5. \A s \in Working' : s = r
    BY <2>2, <2>4 DEF Working
  <2>6. \A s \in Runs : run'[s].at \notin {"open_pub", "write_pub"}
    BY <1>1, <2>2, <2>4, StartedRun DEF Ended
  <2> QED
    BY <2>3, <2>5, <2>6 DEF PairInv
<1>2. ASSUME NEW r \in Runs, CheckPair(r) PROVE PairInv'
  <2>1. /\ run[r].at = "check" /\ run'[r].at \in {"check", "sign", "open_priv"}
        /\ \A s \in Runs : s # r => run'[s] = run[s]
    BY <1>2, Moved, Advanced DEF CheckPair
  <2> QED
    BY <1>2, <1>a, <2>1 DEF CheckPair, Working, Ended
<1>3. ASSUME NEW r \in Runs, OpenPrivate(r) PROVE PairInv'
  <2> DEFINE k == run[r].idx
  <2>1. /\ run[r].at = "open_priv" /\ run'[r].at = "write_priv" /\ run'[r].idx = k
        /\ \A s \in Runs : s # r => run'[s] = run[s]
    BY <1>3, Moved DEF OpenPrivate
  <2>2. ~mixed /\ r \in Working /\ pub' = pub /\ priv' = [priv EXCEPT ![k] = Empty]
    BY <1>3, <2>1 DEF OpenPrivate, Working, Ended
  <2>3. \A s \in Runs : run[s].at \notin {"write_priv", "open_pub", "write_pub"}
    BY <2>1, <2>2, OneWriter
  <2>4. \A i \in Indices : i # k => SoundPair(i)'
    BY <1>0, <2>2, <2>3 DEF PairInv, SoundPair, WholePair
  <2>5. \A s, t \in Working' : s = t
    BY <2>1, <2>2 DEF PairInv, Working
  <2> QED
    BY <2>1, <2>3, <2>4, <2>5 DEF PairInv
<1>4. ASSUME NEW r \in Runs, WritePrivate(r) PROVE PairInv'
  <2> DEFINE k == run[r].idx
  <2>1. /\ run[r].at = "write_priv" /\ run'[r].at = "open_pub" /\ run'[r].idx = k
        /\ \A s \in Runs : s # r => run'[s] = run[s]
    BY <1>4, Moved DEF WritePrivate
  <2>2. ~mixed /\ r \in Working /\ pub' = pub /\ priv' = [priv EXCEPT ![k] = r]
    BY <1>4, <2>1 DEF WritePrivate, Working, Ended
  <2>3. \A s \in Runs : run[s].at \in {"write_priv", "open_pub", "write_pub"} => s = r
    BY <2>2, OneWriter
  <2>4. \A i \in Indices : i # k => SoundPair(i)'
    BY <1>0, <2>2, <2>3 DEF PairInv, SoundPair, WholePair
  <2>5. \A s, t \in Working' : s = t
    BY <2>1, <2>2 DEF PairInv, Working
  <2>6. priv'[k] = r
    BY <1>0, <2>2
  <2> QED
    BY <2>1, <2>3, <2>4, <2>5, <2>6 DEF PairInv
<1>5. ASSUME NEW r \in Runs, OpenPublic(r) PROVE PairInv'
  <2> DEFINE k == run[r].idx
  <2>1. /\ run[r].at = "open_pub" /\ run'[r].at = "write_pub" /\ run'[r].idx = k
        /\ \A s \in Runs : s # r => run'[s] = run[s]
    BY <1>5, Moved DEF OpenPublic
  <2>2. ~mixed /\ r \in Working /\ priv' = priv /\ pub' = [pub EXCEPT ![k] = Empty]
    BY <1>5, <2>1 DEF OpenPublic, Working, Ended
  <2>3. \A s \in Runs : run[s].at \in {"write_priv", "open_pub", "write_pub"} => s = r
    BY <2>2, OneWriter
  <2>4. \A i \in Indices : i # k => SoundPair(i)'
    BY <1>0, <2>2, <2>3 DEF PairInv, SoundPair, WholePair
  <2>5. \A s, t \in Working' : s = t
    BY <2>1, <2>2 DEF PairInv, Working
  <2>6. priv'[k] \in {r, NoFile}
    BY <2>1, <2>2 DEF PairInv
  <2> QED
    BY <2>1, <2>3, <2>4, <2>5, <2>6 DEF PairInv
<1>6. ASSUME NEW r \in Runs, WritePublic(r) PROVE PairInv'
  <2>0. PICK k \in Indices : k = run[r].idx
    BY <1>0
  <2>1. /\ run[r].at = "write_pub" /\ run'[r].at \in {"check", "sign"}
        /\ \A s \in Runs : s # r => run'[s] = run[s]
    BY <1>6, Advanced DEF WritePublic
  <2>2. ~mixed /\ r \in Working /\ priv' = priv /\ pub' = [pub EXCEPT ![k] = r]
    BY <1>6, <2>0, <2>1 DEF WritePublic, Working, Ended
  <2>3. \A s \in Runs : run[s].at \in {"write_priv", "open_pub", "write_pub"} => s = r
    BY <2>2, OneWriter
  <2>4. \A i \in Indices : i # k => SoundPair(i)'
    BY <1>0, <2>0, <2>2, <2>3 DEF PairInv, SoundPair, WholePair
  <2>5. SoundPair(k)'
    <3>1. priv[k] \in {r, NoFile}
      BY <2>0, <2>1, <2>2 DEF PairInv
    <3> QED
      BY <1>0, <2>2, <3>1 DEF SoundPair, WholePair, Keys
  <2>6. \A s, t \in Working' : s = t
    BY <2>1, <2>2 DEF PairInv, Working
  <2> QED
    BY <2>0, <2>1, <2>3, <2>4, <2>5, <2>6 DEF PairInv
<1>7. ASSUME NEW r \in Runs, EndAfterKeys(r) PROVE PairInv'
  <2>1. run'[r].at = "exit" /\ \A s \in Runs : s # r => run'[s] = run[s]
    BY <1>7, EndedRun DEF EndAfterKeys
  <2> QED
    BY <1>7, <1>a, <2>1 DEF EndAfterKeys, Working, Ended
<1>8. ASSUME NEW r \in Runs, Sign(r) PROVE PairInv'
  <2>1. run[r].at = "sign" /\ run'[r].at \in {"open_out", "sign"}
          /\ \A s \in Runs : s # r => run'[s] = run[s]
    BY <1>8, Signed
  <2>2. priv' = priv /\ pub' = pub /\ ~mixed
    BY <1>8 DEF Sign
  <2> QED
    BY <1>a, <2>1, <2>2 DEF Working, Ended
<1>9. ASSUME NEW r \in Runs, SignFails(r) PROVE PairInv'
  <2>1. run'[r].at = "error" /\ \A s \in Runs : s # r => run'[s] = run[s]
    BY <1>9, EndedRun DEF SignFails
  <2> QED
    BY <1>9, <1>a, <2>1 DEF SignFails, Working, Ended
<1>10. ASSUME NEW r \in Runs, OpenOutput(r) PROVE PairInv'
  <2>1. run[r].at = "open_out" /\ run'[r].at = "write_out"
          /\ \A s \in Runs : s # r => run'[s] = run[s]
    BY <1>10, Moved DEF OpenOutput
  <2> QED
    BY <1>10, <1>a, <2>1 DEF OpenOutput, Working, Ended
<1>11. ASSUME NEW r \in Runs, WriteOutput(r) PROVE PairInv'
  <2>1. run'[r].at = "exit" /\ \A s \in Runs : s # r => run'[s] = run[s]
    BY <1>11, EndedRun DEF WriteOutput
  <2> QED
    BY <1>11, <1>a, <2>1 DEF WriteOutput, Working, Ended
<1>12. ASSUME NEW r \in Runs, Killed(r) PROVE PairInv'
  BY <1>12 DEF Killed
<1>13. ASSUME NEW k \in Indices, LoseFile(k) PROVE PairInv'
  <2>1. ~mixed /\ run' = run
    BY <1>13 DEF LoseFile
  <2>2. /\ \A i \in Indices : priv'[i] = priv[i] \/ priv'[i] = NoFile
        /\ \A i \in Indices : SoundPair(i) => SoundPair(i)'
    BY <1>0, <1>13 DEF LoseFile, SoundPair, WholePair
  <2> QED
    BY <1>0, <2>1, <2>2 DEF PairInv, Working
<1>14. ASSUME UNCHANGED <<priv, pub, run, mixed>> PROVE PairInv'
  BY <1>14 DEF PairInv, Working, SoundPair, WholePair
<1>15. CASE ReaderStep
  BY <1>14, <1>15 DEF ReaderStep, StartReader, ReadBlock, VerifySignature, Conclude
<1>16. CASE UNCHANGED vars
  BY <1>14, <1>16 DEF vars
<1> QED
  BY <1>1, <1>2, <1>3, <1>4, <1>5, <1>6, <1>7, <1>8, <1>9, <1>10, <1>11, <1>12,
     <1>13, <1>15, <1>16
  DEF Next, RunStep

-----------------------------------------------------------------------------
(* A run that nothing disturbs *)

\* How far a working run is: the pairs before its index are whole, and what it has
\* signed is signed with them.
Progress(r) ==
  /\ run[r].approval.witness_mask = {0, 1, 2}
  /\ run[r].at \in {"check", "open_priv", "write_priv", "open_pub", "write_pub"} =>
       \A i \in Indices : i < run[r].idx => WholePair(i)
  /\ run[r].at \in {"open_pub", "write_pub"} => priv[run[r].idx] = r
  /\ run[r].at \in {"sign", "open_out", "write_out"} => \A i \in Indices : WholePair(i)
  /\ run[r].at = "sign" =>
       \A i \in Indices : i < run[r].idx => Verifies(pub[i], i, run[r].approval)
  /\ run[r].at \in {"open_out", "write_out"} =>
       \A i \in Indices : Verifies(pub[i], i, run[r].approval)

\* The block is one that the reader will confirm.
Confirmable ==
  /\ block \notin {NoFile, Empty} /\ {0, 1, 2} \subseteq block.witness_mask
  /\ \A i \in Indices : pub[i] \in Keys /\ Verifies(pub[i], i, block)

QuietInv ==
  quiet /\ ~mixed =>
    /\ Working # {} => ~Reading /\ reader.exit = -1 /\ \A r \in Working : Progress(r)
    /\ Working = {} =>
         /\ Confirmable /\ reader.exit \in {-1, 0}
         /\ reader.at = "verify" => reader.approval = block /\ reader.count = reader.idx

LEMMA QuietStep ==
  TypeOK /\ ReaderInv /\ PairInv /\ QuietInv /\ [Next]_vars => QuietInv'
<1> SUFFICES ASSUME TypeOK, ReaderInv, PairInv, QuietInv, [Next]_vars, quiet', ~mixed'
             PROVE  QuietInv'
  BY DEF QuietInv
<1>0. /\ priv \in [Indices -> Files] /\ pub \in [Indices -> Files]
      /\ run \in [Runs -> RunStates] /\ reader \in ReaderStates
      /\ \A r \in Runs : run[r].idx \in Indices
  BY DEF TypeOK, RunStates, ReaderStates
\* A step of a run that goes on: it is the only one, and the reader does nothing.
<1>a. ASSUME quiet, ~mixed, NEW r \in Working, reader' = reader,
             \A s \in Runs : s # r => run'[s] = run[s],
             run'[r].at \notin Ended, Progress(r)'
      PROVE  QuietInv'
  <2>1. \A s \in Working' : s = r
    BY <1>a DEF PairInv, Working
  <2>2. r \in Working'
    BY <1>a DEF Working
  <2>3. ~Reading' /\ reader'.exit = -1
    BY <1>a DEF QuietInv, Reading
  <2> QED
    BY <1>a, <2>1, <2>2, <2>3 DEF QuietInv
<1>1. ASSUME NEW r \in Runs, StartRun(r) PROVE QuietInv'
  <2>1. Working = {} /\ ~Reading /\ reader' = IdleReader
    BY <1>1 DEF StartRun
  <2>2. /\ run'[r].at = "check" /\ run'[r].idx = 0
        /\ run'[r].approval.witness_mask = {0, 1, 2}
        /\ \A s \in Runs : s # r => run'[s] = run[s]
    BY <1>1, StartedRun
  <2>3. \A s \in Working' : s = r
    BY <2>1, <2>2 DEF Working
  <2>4. r \in Working'
    BY <2>2 DEF Working, Ended
  <2>5. Progress(r)'
    BY <2>2, IndexFacts DEF Progress
  <2>6. ~Reading' /\ reader'.exit = -1
    BY <2>1 DEF Reading, IdleReader
  <2> QED
    BY <2>3, <2>4, <2>5, <2>6 DEF QuietInv
<1>2. ASSUME NEW r \in Runs, CheckPair(r) PROVE QuietInv'
  <2>0. PICK k \in Indices : k = run[r].idx
    BY <1>0
  <2>1. run[r].at = "check" /\ r \in Working /\ quiet /\ ~mixed /\ Progress(r)
    BY <1>2, Moved, Advanced DEF CheckPair, Working, Ended, QuietInv
  <2>2. priv' = priv /\ pub' = pub /\ reader' = reader
    BY <1>2 DEF CheckPair
  <2>3. CASE Goes(r, "check", "open_priv")
    <3>1. /\ run'[r].at = "open_priv" /\ run'[r].idx = k
          /\ run'[r].approval = run[r].approval
          /\ \A s \in Runs : s # r => run'[s] = run[s]
      BY <2>0, <2>3, Moved
    <3>2. Progress(r)'
      BY <2>0, <2>1, <2>2, <3>1 DEF Progress, WholePair
    <3> QED
      BY <1>a, <2>1, <2>2, <3>1, <3>2 DEF Ended
  <2>4. CASE NoFile \notin {priv[k], pub[k]} /\ Advances(r, "check", "check", "sign")
    <3>1. /\ run'[r].at = IF k = 2 THEN "sign" ELSE "check"
          /\ run'[r].idx = IF k = 2 THEN 0 ELSE k + 1
          /\ run'[r].approval = run[r].approval
          /\ \A s \in Runs : s # r => run'[s] = run[s]
      BY <2>0, <2>4, Advanced
    <3>2. WholePair(k)
      <4>1. SoundPair(k)
        BY <2>1, OneWriter DEF PairInv
      <4> QED
        BY <2>4, <4>1 DEF SoundPair
    <3>3. \A i \in Indices : i < k + 1 => WholePair(i)
      BY <2>0, <2>1, <3>2, IndexFacts DEF Progress
    <3>4. \A i \in Indices : i < k + 1 => WholePair(i)'
      BY <2>2, <3>3 DEF WholePair
    <3>5. Progress(r)'
      <4>1. CASE k = 2
        <5>1. \A i \in Indices : WholePair(i)'
          BY <3>4, <4>1, IndexFacts
        <5>2. \A i \in Indices : ~(i < 0)
          BY IndexFacts
        <5> QED
          BY <2>1, <3>1, <4>1, <5>1, <5>2 DEF Progress
      <4>2. CASE k # 2
        BY <2>1, <3>1, <3>4, <4>2 DEF Progress
      <4> QED
        BY <4>1, <4>2
    <3> QED
      BY <1>a, <2>1, <2>2, <3>1, <3>5 DEF Ended
  <2> QED
    BY <1>2, <2>0, <2>3, <2>4 DEF CheckPair
<1>3. ASSUME NEW r \in Runs, OpenPrivate(r) PROVE QuietInv'
  <2>0. PICK k \in Indices : k = run[r].idx
    BY <1>0
  <2>1. /\ run[r].at = "open_priv" /\ run'[r].at = "write_priv" /\ run'[r].idx = k
        /\ run'[r].approval = run[r].approval
        /\ \A s \in Runs : s # r => run'[s] = run[s]
    BY <1>3, <2>0, Moved DEF OpenPrivate
  <2>2. /\ r \in Working /\ quiet /\ ~mixed /\ Progress(r)
        /\ pub' = pub /\ reader' = reader /\ priv' = [priv EXCEPT ![k] = Empty]
    BY <1>3, <2>0, <2>1 DEF OpenPrivate, Working, Ended, QuietInv
  <2>3. \A i \in Indices : i < k => WholePair(i)'
    BY <1>0, <2>0, <2>1, <2>2, IndexFacts DEF Progress, WholePair
  <2>4. Progress(r)'
    BY <2>1, <2>2, <2>3 DEF Progress
  <2> QED
    BY <1>a, <2>1, <2>2, <2>4 DEF Ended
<1>4. ASSUME NEW r \in Runs, WritePrivate(r) PROVE QuietInv'
  <2>0. PICK k \in Indices : k = run[r].idx
    BY <1>0
  <2>1. /\ run[r].at = "write_priv" /\ run'[r].at = "open_pub" /\ run'[r].idx = k
        /\ run'[r].approval = run[r].approval
        /\ \A s \in Runs : s # r => run'[s] = run[s]
    BY <1>4, <2>0, Moved DEF WritePrivate
  <2>2. /\ r \in Working /\ quiet /\ ~mixed /\ Progress(r)
        /\ pub' = pub /\ reader' = reader /\ priv' = [priv EXCEPT ![k] = r]
    BY <1>4, <2>0, <2>1 DEF WritePrivate, Working, Ended, QuietInv
  <2>3. \A i \in Indices : i < k => WholePair(i)'
    BY <1>0, <2>0, <2>1, <2>2, IndexFacts DEF Progress, WholePair
  <2>4. priv'[k] = r
    BY <1>0, <2>2
  <2>5. Progress(r)'
    BY <2>1, <2>2, <2>3, <2>4 DEF Progress
  <2> QED
    BY <1>a, <2>1, <2>2, <2>5 DEF Ended
<1>5. ASSUME NEW r \in Runs, OpenPublic(r) PROVE QuietInv'
  <2>0. PICK k \in Indices : k = run[r].idx
    BY <1>0
  <2>1. /\ run[r].at = "open_pub" /\ run'[r].at = "write_pub" /\ run'[r].idx = k
        /\ run'[r].approval = run[r].approval
        /\ \A s \in Runs : s # r => run'[s] = run[s]
    BY <1>5, <2>0, Moved DEF OpenPublic
  <2>2. /\ r \in Working /\ quiet /\ ~mixed /\ Progress(r)
        /\ priv' = priv /\ reader' = reader /\ pub' = [pub EXCEPT ![k] = Empty]
    BY <1>5, <2>0, <2>1 DEF OpenPublic, Working, Ended, QuietInv
  <2>3. \A i \in Indices : i < k => WholePair(i)'
    BY <1>0, <2>0, <2>1, <2>2, IndexFacts DEF Progress, WholePair
  <2>4. priv'[k] = r
    BY <2>0, <2>1, <2>2 DEF Progress
  <2>5. Progress(r)'
    BY <2>1, <2>2, <2>3, <2>4 DEF Progress
  <2> QED
    BY <1>a, <2>1, <2>2, <2>5 DEF Ended
<1>6. ASSUME NEW r \in Runs, WritePublic(r) PROVE QuietInv'
  <2>0. PICK k \in Indices : k = run[r].idx
    BY <1>0
  <2>1. /\ run[r].at = "write_pub"
        /\ run'[r].at = IF k = 2 THEN "sign" ELSE "check"
        /\ run'[r].idx = IF k = 2 THEN 0 ELSE k + 1
        /\ run'[r].approval = run[r].approval
        /\ \A s \in Runs : s # r => run'[s] = run[s]
    BY <1>6, <2>0, Advanced DEF WritePublic
  <2>2. /\ r \in Working /\ quiet /\ ~mixed /\ Progress(r)
        /\ priv' = priv /\ reader' = reader /\ pub' = [pub EXCEPT ![k] = r]
    BY <1>6, <2>0, <2>1 DEF WritePublic, Working, Ended, QuietInv
  <2>3. WholePair(k)'
    BY <1>0, <2>0, <2>1, <2>2 DEF Progress, WholePair, Keys
  <2>4. \A i \in Indices : i < k => WholePair(i)'
    BY <1>0, <2>0, <2>1, <2>2, IndexFacts DEF Progress, WholePair
  <2>5. \A i \in Indices : i < k + 1 => WholePair(i)'
    BY <2>3, <2>4, IndexFacts
  <2>6. Progress(r)'
    <3>1. CASE k = 2
      <4>1. \A i \in Indices : WholePair(i)'
        BY <2>5, <3>1, IndexFacts
      <4>2. \A i \in Indices : ~(i < 0)
        BY IndexFacts
      <4> QED
        BY <2>1, <2>2, <3>1, <4>1, <4>2 DEF Progress
    <3>2. CASE k # 2
      BY <2>1, <2>2, <2>5, <3>2 DEF Progress
    <3> QED
      BY <3>1, <3>2
  <2> QED
    BY <1>a, <2>1, <2>2, <2>6 DEF Ended
<1>7. ASSUME NEW r \in Runs, EndAfterKeys(r) PROVE QuietInv'
  BY <1>7 DEF EndAfterKeys
<1>8. ASSUME NEW r \in Runs, Sign(r) PROVE QuietInv'
  <2>0. PICK k \in Indices : k = run[r].idx
    BY <1>0
  <2>1. /\ run[r].at = "sign" /\ priv[k] \in Keys
        /\ run'[r].at = IF k = 2 THEN "open_out" ELSE "sign"
        /\ run'[r].idx = IF k = 2 THEN 0 ELSE k + 1
        /\ run'[r].approval.challenge = run[r].approval.challenge
        /\ run'[r].approval.witness_mask = run[r].approval.witness_mask
        /\ \A i \in Indices :
             run'[r].approval.signatures[i] =
               IF i = k
                 THEN [signer |-> i, key |-> priv[i], over |-> run[r].approval.challenge]
                 ELSE run[r].approval.signatures[i]
        /\ \A s \in Runs : s # r => run'[s] = run[s]
    BY <1>8, <2>0, Signed
  <2>2. /\ r \in Working /\ quiet /\ ~mixed /\ Progress(r)
        /\ priv' = priv /\ pub' = pub /\ reader' = reader
    BY <1>8, <2>1 DEF Sign, Working, Ended, QuietInv
  <2>3. \A i \in Indices : WholePair(i) /\ WholePair(i)'
    BY <2>1, <2>2 DEF Progress, WholePair
  <2>4. ASSUME NEW i \in Indices, i < k + 1
        PROVE  Verifies(pub[i], i, run[r].approval)'
    <3>1. CASE i = k
      BY <2>1, <2>2, <2>3, <3>1 DEF WholePair, Verifies
    <3>2. CASE i # k
      <4>1. i < k
        BY <2>4, <3>2, IndexFacts
      <4> QED
        BY <2>0, <2>1, <2>2, <3>2, <4>1 DEF Progress, Verifies
    <3> QED
      BY <3>1, <3>2
  <2>5. Progress(r)'
    <3>1. CASE k = 2
      <4>1. \A i \in Indices : Verifies(pub[i], i, run[r].approval)'
        BY <2>4, <3>1, IndexFacts
      <4> QED
        BY <2>1, <2>2, <2>3, <3>1, <4>1 DEF Progress
    <3>2. CASE k # 2
      BY <2>1, <2>2, <2>3, <2>4, <3>2 DEF Progress
    <3> QED
      BY <3>1, <3>2
  <2> QED
    BY <1>a, <2>1, <2>2, <2>5 DEF Ended
<1>9. ASSUME NEW r \in Runs, SignFails(r) PROVE QuietInv'
  <2>1. run[r].at = "sign" /\ r \in Working /\ quiet /\ ~mixed /\ Progress(r)
    BY <1>9 DEF SignFails, Working, Ended, QuietInv
  <2>2. priv[run[r].idx] \in Keys
    BY <1>0, <2>1 DEF Progress, WholePair
  <2> QED
    BY <1>9, <2>2, FileAssumption DEF SignFails
<1>10. ASSUME NEW r \in Runs, OpenOutput(r) PROVE QuietInv'
  <2>1. /\ run[r].at = "open_out" /\ run'[r].at = "write_out"
        /\ run'[r].approval = run[r].approval
        /\ \A s \in Runs : s # r => run'[s] = run[s]
    BY <1>10, Moved DEF OpenOutput
  <2>2. /\ r \in Working /\ quiet /\ ~mixed /\ Progress(r)
        /\ priv' = priv /\ pub' = pub /\ reader' = reader
    BY <1>10, <2>1 DEF OpenOutput, Working, Ended, QuietInv
  <2>3. Progress(r)'
    BY <2>1, <2>2 DEF Progress, WholePair
  <2> QED
    BY <1>a, <2>1, <2>2, <2>3 DEF Ended
<1>11. ASSUME NEW r \in Runs, WriteOutput(r) PROVE QuietInv'
  <2>1. /\ run[r].at = "write_out" /\ run'[r].at = "exit"
        /\ \A s \in Runs : s # r => run'[s] = run[s]
    BY <1>11, EndedRun DEF WriteOutput
  <2>2. /\ r \in Working /\ quiet /\ ~mixed /\ Progress(r)
        /\ pub' = pub /\ reader' = reader /\ block' = run[r].approval
    BY <1>11, <2>1 DEF WriteOutput, Working, Ended, QuietInv
  <2>3. Working' = {}
    BY <2>1, <2>2 DEF PairInv, Working, Ended
  <2>4. ~Reading /\ reader.exit = -1
    BY <2>2 DEF QuietInv
  <2>5. run[r].approval \notin {NoFile, Empty}
    <3>1. run[r].approval \in Approvals
      BY <1>0 DEF RunStates
    <3> QED
      BY <3>1, FileAssumption
  <2>6. Confirmable'
    BY <2>1, <2>2, <2>5 DEF Confirmable, Progress, WholePair, Verifies
  <2> QED
    BY <2>2, <2>3, <2>4, <2>6 DEF QuietInv, Reading
<1>12. ASSUME NEW r \in Runs, Killed(r) PROVE QuietInv'
  BY <1>12 DEF Killed
<1>13. ASSUME NEW i \in Indices, LoseFile(i) PROVE QuietInv'
  BY <1>13 DEF LoseFile
\* A step of the reader: no run works, and the block stays what it is.
<1>b. ASSUME UNCHANGED <<priv, pub, block, run>>, quiet, ~mixed, Working = {},
             reader'.exit \in {-1, 0},
             reader'.at = "verify" =>
               reader'.approval = block /\ reader'.count = reader'.idx
      PROVE  QuietInv'
  <2>1. Confirmable'
    BY <1>b DEF QuietInv, Confirmable, Verifies
  <2>2. Working' = {}
    BY <1>b DEF Working
  <2> QED
    BY <1>b, <2>1, <2>2 DEF QuietInv
<1>14. CASE StartReader
  <2>1. /\ UNCHANGED <<priv, pub, block, run>> /\ quiet /\ ~mixed /\ Working = {}
        /\ reader'.at = "open" /\ reader'.exit = -1
    BY <1>14 DEF StartReader, IdleReader
  <2> QED
    BY <1>b, <2>1
<1>15. CASE ReadBlock
  <2>1. /\ UNCHANGED <<priv, pub, block, run>> /\ quiet /\ ~mixed
        /\ reader.at = "open"
    BY <1>15 DEF ReadBlock
  <2>2. Working = {} /\ Confirmable
    BY <2>1 DEF QuietInv, Reading
  <2>3. reader' = [reader EXCEPT !.at = "verify", !.approval = block]
    BY <1>15, <2>2 DEF ReadBlock, Confirmable
  <2>4. /\ reader'.exit = -1 /\ reader'.approval = block
        /\ reader'.count = reader'.idx
    BY <1>0, <2>1, <2>3 DEF ReaderInv, ReaderStates
  <2> QED
    BY <1>b, <2>1, <2>2, <2>4
<1>16. CASE VerifySignature
  <2>1. /\ UNCHANGED <<priv, pub, block, run>> /\ quiet /\ ~mixed
        /\ reader.at = "verify" /\ reader.idx <= 2
    BY <1>16 DEF VerifySignature
  <2>2. /\ Working = {} /\ Confirmable
        /\ reader.approval = block /\ reader.count = reader.idx
    BY <2>1 DEF QuietInv, Reading
  <2>3. reader.idx \in Indices
    BY <1>0, <2>1 DEF Indices, ReaderStates
  <2>4. /\ pub[reader.idx] \in Keys
        /\ Verifies(pub[reader.idx], reader.idx, reader.approval)
    BY <2>2, <2>3 DEF Confirmable
  <2>5. /\ reader'.exit = -1 /\ reader'.approval = block
        /\ reader'.count = reader'.idx
    BY <1>0, <1>16, <2>1, <2>2, <2>4 DEF VerifySignature, ReaderInv, ReaderStates
  <2> QED
    BY <1>b, <2>1, <2>2, <2>5
<1>17. CASE Conclude
  <2>1. /\ UNCHANGED <<priv, pub, block, run>> /\ quiet /\ ~mixed
        /\ reader.at = "verify" /\ reader.idx = 3
    BY <1>17 DEF Conclude
  <2>2. Working = {} /\ reader.count = 3
    BY <2>1 DEF QuietInv, Reading
  <2>3. reader' = [reader EXCEPT !.at = "idle", !.exit = 0]
    BY <1>17, <2>2 DEF Conclude
  <2>4. reader'.exit = 0 /\ reader'.at = "idle"
    BY <1>0, <2>3 DEF ReaderStates
  <2> QED
    BY <1>b, <2>1, <2>2, <2>4
<1>18. CASE UNCHANGED vars
  BY <1>18 DEF vars, QuietInv, Working, Reading, Confirmable, Progress, WholePair, Verifies
<1> QED
  BY <1>1, <1>2, <1>3, <1>4, <1>5, <1>6, <1>7, <1>8, <1>9, <1>10, <1>11, <1>12,
     <1>13, <1>14, <1>15, <1>16, <1>17, <1>18
  DEF Next, RunStep, ReaderStep

-----------------------------------------------------------------------------
(* The theorems *)

NotaryInv == TypeOK /\ ReaderInv /\ TriadSigned /\ PairInv /\ QuietInv

\* The inductive invariant, for any number of runs of notarizer_signer.py and of
\* gate_dataport_reader.c beside them.
THEOREM NotaryInvariance == Spec => []NotaryInv
<1>1. Init => NotaryInv
  <2>1. Init => ReaderInv /\ TriadSigned
    BY DEF Init, IdleReader, ReaderInv, TriadSigned
  <2>2. Init => QuietInv
    BY DEF Init, QuietInv
  <2> QED
    BY <2>1, <2>2, InitTypes, InitPairs DEF NotaryInv
<1>2. NotaryInv /\ [Next]_vars => NotaryInv'
  BY StepTypes, ReaderStep_Inv, PairStep, QuietStep DEF NotaryInv
<1> QED
  BY <1>1, <1>2, PTL DEF Spec

\* Key files, approval file, runs and reader keep their types.
THEOREM NotaryTypes == Spec => []TypeOK
<1>1. NotaryInv => TypeOK
  BY DEF NotaryInv
<1> QED
  BY <1>1, NotaryInvariance, PTL

\* gate_dataport_reader.c confirms only a block with the signature of each signer of
\* the triad over the block's own challenge, whoever writes the key files meanwhile.
THEOREM ConfirmedIsSigned == Spec => []TriadSigned
<1>1. NotaryInv => TriadSigned
  BY DEF NotaryInv
<1> QED
  BY <1>1, NotaryInvariance, PTL

\* generate_dev_triad_keys leaves matching pairs, as long as no run is killed and no
\* two work at a time; any number of files may have been lost before and between.
THEOREM PairsStayMatched == Spec => []PairsMatch
<1>1. NotaryInv => PairsMatch
  BY DEF NotaryInv, PairInv, PairsMatch, SoundPair, WholePair, Working, Ended
<1> QED
  BY <1>1, NotaryInvariance, PTL

\* What an undisturbed run of notarizer_signer.py writes is confirmed by
\* gate_dataport_reader.c.
THEOREM QuietRunIsConfirmed == Spec => []QuietRunConfirms
<1>1. NotaryInv => QuietRunConfirms
  BY DEF NotaryInv, QuietInv, QuietRunConfirms
<1> QED
  BY <1>1, NotaryInvariance, PTL
=============================================================================
