-------------------------- MODULE MCAdmissionMath --------------------------
(***************************************************************************)
(* Twelve-bit integers and two coordinates.  The near candidates have sums *)
(* of squares below 2^11, and one coordinate of 2^6, whose square is the   *)
(* modulus, as the square of 2^32 is in the code.                          *)
(***************************************************************************)
EXTENDS AdmissionMath

AllRoots == -2048 .. 2047
SomeRoots == {1}
Near == (-15 .. 15) \union {64}
Far == {0, 1, 5, 6, 46, 64}
MCPriors == {<<0, 0>>, <<3, -4>>}
MCBadges == {0, 3, 7, 15}
Boundary ==
  [onset : {0, 51, 52, 63, 115}, nucleus : {0, 5}, nasal : {0, 1}, long : {0, 1},
   tone : {0, 3}, coda : {0, 31, 32, 63, 95}, prefix : {0, 7},
   provenance : {0, 86, 1023}]
OneSyllable ==
  [onset : {34}, nucleus : {3}, nasal : {0}, long : {0}, tone : {0},
   coda : {2}, prefix : {0}, provenance : {420}]
Cores ==
  [sv : [phase : {0, 1, 4095}, phase_step : {0, 1, 64, 4095}, seq_id : {0, 4094}],
   last_sync_tick : {0, 4090}, tick_stride : {0, 5, 4095},
   runtime_cycles : 0 .. 6, aligned : BOOLEAN]
=============================================================================
