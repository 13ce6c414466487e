------------------------------ MODULE MCNotary ------------------------------
(***************************************************************************)
(* Two runs of the signer.  The blocks that others left: a good one, and   *)
(* each way to be wrong in one place.                                      *)
(***************************************************************************)
EXTENDS Notary, TLC

CONSTANTS c1, c2

Good ==
  [challenge |-> c1, witness_mask |-> {0, 1, 2},
   signatures |-> [i \in Indices |-> [signer |-> i, key |-> OldKey, over |-> c1]]]
MCBlocks ==
  {Good,
   [Good EXCEPT !.witness_mask = {0, 1, 3}],
   [Good EXCEPT !.challenge = c2],
   [Good EXCEPT !.signatures[2].over = c2],
   [Good EXCEPT !.signatures[2] = Good.signatures[1]]}
MCChallenges == {c1, c2}
RunSymmetry == Permutations(Runs)
=============================================================================
