------------------------------- MODULE Notary -------------------------------
(***************************************************************************)
(* The signer of approvals (notarizer_signer.py), which keeps a key pair   *)
(* per index in files, makes the pairs it does not find, and writes a block*)
(* of three signatures; and the reader (gate_dataport_reader.c), which     *)
(* verifies a block against the public keys.                               *)
(*                                                                         *)
(* A step is one system call on one file; writing is opening, which empties*)
(* the file, and then writing.  A run of the signer makes at most one pair *)
(* per index, so the pair is named by the run.  A signature is the pair    *)
(* that made it, its index, and the challenge: seq_id and nonce.           *)
(***************************************************************************)
EXTENDS Integers

CONSTANTS Runs,        \* runs of the signer (bound)
          OldKey,      \* pairs made before
          Challenges,
          Blocks,      \* approval files that others may have left
          MaxLosses,   \* files removed between runs (bound)
          NoFile, Empty

Indices == 0 .. 2
Keys == Runs \union {OldKey}
Files == Keys \union {NoFile, Empty}
NoSignature == [signer |-> 0, key |-> NoFile, over |-> NoFile]
Signatures == [signer : Indices, key : Keys, over : Challenges] \union {NoSignature}
Approvals == [challenge : Challenges, witness_mask : SUBSET (0 .. 7),
              signatures : [Indices -> Signatures]]

ASSUME FileAssumption == {NoFile, Empty} \intersect (Keys \union Approvals) = {}
ASSUME NameAssumption == NoFile # Empty /\ OldKey \notin Runs /\ NoFile \notin Challenges
ASSUME ChallengeAssumption == Challenges # {}
ASSUME BlockAssumption == Blocks \subseteq Approvals
ASSUME LossAssumption == MaxLosses \in Nat

VARIABLES priv, pub,      \* the key files of each index
          block,          \* the approval file
          run,            \* the signer, per run
          reader,
          losses,
          quiet,          \* history: a run was alone from its start to now
          mixed           \* history: runs were interrupted or side by side

vars == <<priv, pub, block, run, reader, losses, quiet, mixed>>

NoBlock == [challenge |-> CHOOSE c \in Challenges : TRUE, witness_mask |-> {},
            signatures |-> [i \in Indices |-> NoSignature]]
Places == {"new", "check", "open_priv", "write_priv", "open_pub", "write_pub",
           "sign", "open_out", "write_out", "exit", "error", "dead"}
Ended == {"new", "exit", "error", "dead"}
At(place) == [at |-> place, idx |-> 0, approval |-> NoBlock]
IdleReader == [at |-> "idle", idx |-> 0, approval |-> NoBlock, count |-> 0, exit |-> -1]

Init ==
  /\ \E k \in {NoFile, OldKey} :
       priv = [i \in Indices |-> k] /\ pub = [i \in Indices |-> k]
  /\ block \in Blocks \union {NoFile}
  /\ run = [r \in Runs |-> At("new")]
  /\ reader = IdleReader
  /\ losses = 0 /\ quiet = FALSE /\ mixed = FALSE

-----------------------------------------------------------------------------
(* notarizer_signer.py *)

Working == {r \in Runs : run[r].at \notin Ended}
Reading == reader.at # "idle"

StartRun(r) ==
  /\ run[r].at = "new"
  /\ \E c \in Challenges :
       run' = [run EXCEPT ![r] = [at |-> "check", idx |-> 0,
                 approval |-> [NoBlock EXCEPT !.challenge = c,
                                              !.witness_mask = {0, 1, 2}]]]
  /\ quiet' = (Working = {} /\ ~Reading)
  /\ mixed' = (mixed \/ Working # {})
  /\ reader' = IF Reading THEN reader ELSE IdleReader
  /\ UNCHANGED <<priv, pub, block, losses>>

Goes(r, from, to) ==
  run[r].at = from /\ run' = [run EXCEPT ![r].at = to]

Ends(r, how) == run' = [run EXCEPT ![r] = At(how)]

\* Mutant: the loop goes one index too far.
AdvancesPastLast(r, from, again, next) ==
  /\ run[r].at = from
  /\ IF run[r].idx = 3
       THEN run' = [run EXCEPT ![r].at = next, ![r].idx = 0]
       ELSE run' = [run EXCEPT ![r].at = again, ![r].idx = @ + 1]

\* The next index, or the next part of the program.
Advances(r, from, again, next) ==
  /\ run[r].at = from
  /\ IF run[r].idx = 2
       THEN run' = [run EXCEPT ![r].at = next, ![r].idx = 0]
       ELSE run' = [run EXCEPT ![r].at = again, ![r].idx = @ + 1]

\* Mutant: a pair is complete when its private key is there.
CheckPrivateOnly(r) ==
  /\ \/ NoFile # priv[run[r].idx] /\ Advances(r, "check", "check", "sign")
     \/ NoFile = priv[run[r].idx] /\ Goes(r, "check", "open_priv")
  /\ UNCHANGED <<priv, pub, block, reader, losses, quiet, mixed>>

\* Both files are there, or a new pair is generated.
CheckPair(r) ==
  /\ \/ /\ NoFile \notin {priv[run[r].idx], pub[run[r].idx]}
        /\ Advances(r, "check", "check", "sign")
     \/ /\ NoFile \in {priv[run[r].idx], pub[run[r].idx]}
        /\ Goes(r, "check", "open_priv")
  /\ UNCHANGED <<priv, pub, block, reader, losses, quiet, mixed>>

OpenPrivate(r) ==
  /\ Goes(r, "open_priv", "write_priv")
  /\ priv' = [priv EXCEPT ![run[r].idx] = Empty]
  /\ UNCHANGED <<pub, block, reader, losses, quiet, mixed>>

\* Mutant: a public key that is there is kept.
WritePrivateKeepsPublic(r) ==
  /\ \/ pub[run[r].idx] = NoFile /\ Goes(r, "write_priv", "open_pub")
     \/ pub[run[r].idx] # NoFile /\ Advances(r, "write_priv", "check", "sign")
  /\ priv' = [priv EXCEPT ![run[r].idx] = r]
  /\ UNCHANGED <<pub, block, reader, losses, quiet, mixed>>

WritePrivate(r) ==
  /\ Goes(r, "write_priv", "open_pub")
  /\ priv' = [priv EXCEPT ![run[r].idx] = r]
  /\ UNCHANGED <<pub, block, reader, losses, quiet, mixed>>

OpenPublic(r) ==
  /\ Goes(r, "open_pub", "write_pub")
  /\ pub' = [pub EXCEPT ![run[r].idx] = Empty]
  /\ UNCHANGED <<priv, block, reader, losses, quiet, mixed>>

WritePublic(r) ==
  /\ Advances(r, "write_pub", "check", "sign")
  /\ pub' = [pub EXCEPT ![run[r].idx] = r]
  /\ UNCHANGED <<priv, block, reader, losses, quiet, mixed>>

\* --gen-keys: the pairs are all that was asked for.
EndAfterKeys(r) ==
  /\ run[r].at = "sign" /\ run[r].idx = 0
  /\ Ends(r, "exit")
  /\ quiet' = FALSE
  /\ UNCHANGED <<priv, pub, block, reader, losses, mixed>>

\* sign_challenge with the private key of the index ...
Sign(r) ==
  LET i == run[r].idx
  IN /\ run[r].at = "sign" /\ priv[i] \in Keys
     /\ run' = [run EXCEPT
                  ![r].at = IF i = 2 THEN "open_out" ELSE "sign",
                  ![r].idx = IF i = 2 THEN 0 ELSE i + 1,
                  ![r].approval.signatures[i] =
                    [signer |-> i, key |-> priv[i],
                     over |-> run[r].approval.challenge]]
     /\ UNCHANGED <<priv, pub, block, reader, losses, quiet, mixed>>

\* ... which is gone, or has no 32 bytes.
SignFails(r) ==
  /\ priv[run[r].idx] \in {NoFile, Empty}
  /\ run[r].at = "sign" /\ Ends(r, "error")
  /\ UNCHANGED <<priv, pub, block, reader, losses, quiet, mixed>>

OpenOutput(r) ==
  /\ Goes(r, "open_out", "write_out")
  /\ block' = Empty
  /\ UNCHANGED <<priv, pub, reader, losses, quiet, mixed>>

WriteOutput(r) ==
  /\ run[r].at = "write_out" /\ Ends(r, "exit")
  /\ block' = run[r].approval
  /\ UNCHANGED <<priv, pub, reader, losses, quiet, mixed>>

\* The process is killed.
Killed(r) ==
  /\ run[r].at \notin Ended
  /\ Ends(r, "dead")
  /\ quiet' = FALSE /\ mixed' = TRUE
  /\ UNCHANGED <<priv, pub, block, reader, losses>>

\* A key file is removed; the signer does not have it open.
LoseFile(i) ==
  /\ losses < MaxLosses
  /\ \A r \in Runs : run[r].at \notin {"write_priv", "write_pub"}
  /\ \/ priv' = [priv EXCEPT ![i] = NoFile] /\ UNCHANGED pub
     \/ pub' = [pub EXCEPT ![i] = NoFile] /\ UNCHANGED priv
  /\ losses' = losses + 1
  /\ quiet' = FALSE
  /\ UNCHANGED <<block, run, reader, mixed>>

-----------------------------------------------------------------------------
(* gate_dataport_reader.c *)

StartReader ==
  /\ ~Reading
  /\ reader' = [IdleReader EXCEPT !.at = "open"]
  /\ quiet' = (quiet /\ Working = {})
  /\ UNCHANGED <<priv, pub, block, run, losses, mixed>>

Exits(code) == reader' = [IdleReader EXCEPT !.exit = code]

\* The file is not there or not complete; the mask is not the triad's; or the
\* signatures are looked at.
ReadBlock ==
  /\ reader.at = "open"
  /\ \/ block \in {NoFile, Empty} /\ Exits(1)
     \/ /\ block \notin {NoFile, Empty}
        /\ \/ ~({0, 1, 2} \subseteq block.witness_mask) /\ Exits(2)
           \/ /\ {0, 1, 2} \subseteq block.witness_mask
              /\ reader' = [reader EXCEPT !.at = "verify", !.approval = block]
  /\ UNCHANGED <<priv, pub, block, run, losses, quiet, mixed>>

\* Ed25519: the signature is by the pair of the public key, over the message.
Verifies(pkey, i, approval) ==
  approval.signatures[i] = [signer |-> i, key |-> pkey, over |-> approval.challenge]

\* load_public_key and verify_signature for the next index.
VerifySignature ==
  /\ reader.at = "verify" /\ reader.idx <= 2
  /\ reader' = [reader EXCEPT
       !.idx = @ + 1,
       !.count = IF /\ pub[reader.idx] \in Keys
                    /\ Verifies(pub[reader.idx], reader.idx, reader.approval)
                   THEN @ + 1 ELSE @]
  /\ UNCHANGED <<priv, pub, block, run, losses, quiet, mixed>>

\* Mutant: two signatures of three will do.
ConcludeMajority ==
  /\ reader.at = "verify" /\ reader.idx = 3
  /\ \/ reader.count < 2 /\ Exits(3)
     \/ reader.count >= 2 /\ reader' = [reader EXCEPT !.at = "idle", !.exit = 0]
  /\ UNCHANGED <<priv, pub, block, run, losses, quiet, mixed>>

Conclude ==
  /\ reader.at = "verify" /\ reader.idx = 3
  /\ \/ reader.count < 3 /\ Exits(3)
     \/ reader.count = 3 /\ reader' = [reader EXCEPT !.at = "idle", !.exit = 0]
  /\ UNCHANGED <<priv, pub, block, run, losses, quiet, mixed>>

-----------------------------------------------------------------------------
RunStep(r) ==
  \/ StartRun(r) \/ CheckPair(r) \/ OpenPrivate(r) \/ WritePrivate(r)
  \/ OpenPublic(r) \/ WritePublic(r) \/ EndAfterKeys(r) \/ Sign(r) \/ SignFails(r)
  \/ OpenOutput(r) \/ WriteOutput(r) \/ Killed(r)

ReaderStep == StartReader \/ ReadBlock \/ VerifySignature \/ Conclude

Next ==
  \/ \E r \in Runs : RunStep(r)
  \/ \E i \in Indices : LoseFile(i)
  \/ ReaderStep

Spec == Init /\ [][Next]_vars

-----------------------------------------------------------------------------
(* Properties *)

\* Files, processes and histories keep their types.
TypeOK ==
  /\ priv \in [Indices -> Files] /\ pub \in [Indices -> Files]
  /\ block \in Approvals \union {NoFile, Empty}
  /\ run \in [Runs -> [at : Places, idx : Indices, approval : Approvals]]
  /\ reader \in [at : {"idle", "open", "verify"}, idx : 0 .. 3,
                 approval : Approvals, count : 0 .. 3, exit : {-1, 0, 1, 2, 3}]
  /\ losses \in 0 .. MaxLosses /\ quiet \in BOOLEAN /\ mixed \in BOOLEAN

\* gate_dataport_reader.c:104-126: a confirmed block carries, for each signer of
\* the triad, that signer's own signature over the block's own challenge, although
\* the public keys may change under the reader.  (Nothing is said of the three keys
\* being those of one moment.)
TriadSigned ==
  reader.exit = 0 =>
    \A i \in Indices :
      /\ reader.approval.signatures[i].signer = i
      /\ reader.approval.signatures[i].over = reader.approval.challenge

\* notarizer_signer.py:48: whatever files were missing, the pairs on disk match
\* between runs that were neither interrupted nor side by side.
PairsMatch ==
  ~mixed /\ Working = {} =>
    \A i \in Indices : NoFile \in {priv[i], pub[i]} \/ priv[i] = pub[i]

\* A run that nothing disturbs, with the reader after it, ends in a confirmed
\* block, whatever key files were missing and whatever block was there before -
\* unless an earlier run was interrupted: nothing repairs the pair it leaves.
QuietRunConfirms == quiet /\ ~mixed /\ reader.exit # -1 => reader.exit = 0
=============================================================================
