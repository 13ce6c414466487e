------------------------- MODULE MCStrawmanIngress -------------------------
(***************************************************************************)
(* Small rings.  MCRing: four slots and nine vectors, of which a hasty     *)
(* client may have three in flight: tail goes around twice.  MCRingWrap:   *)
(* two slots and three vectors of a client that waits for each.            *)
(***************************************************************************)
EXTENDS StrawmanIngress
=============================================================================
