--------------------------- MODULE MCBoxDetection ---------------------------
(* Instances of BoxDetection for TLC: masks that touch or lie near each    *)
(* other, not all of which fit together, one a little higher, and a flat   *)
(* mark.                                                                   *)
EXTENDS BoxDetection

MCCandidates ==
  {[plane |-> p[1], cells |-> p[2]..p[3]] :
     p \in {<<1, 2, 4>>, <<1, 5, 7>>, <<1, 2, 7>>, <<2, 4, 8>>, <<0, 4, 6>>}}
MCBorder == {0, 1, 9}
=============================================================================
