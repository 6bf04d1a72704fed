------------------------------- MODULE MCRates -------------------------------
(* A short ring and a window that outlasts it, on a clock long enough to   *)
(* go round it.                                                            *)
EXTENDS Rates
=============================================================================
