------------------------------ MODULE MCListener ------------------------------
(* Instances of Listener for TLC: two kinds of stream instead of three in  *)
(* the safety run, one in the others.                                      *)
EXTENDS Listener, TLC

TwoStreams == <<"neigh", "link">>
OneStream == <<"link">>
SlotSymmetry == Permutations(Slots)
=============================================================================
