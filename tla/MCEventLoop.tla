----------------------------- MODULE MCEventLoop -----------------------------
(* One namespace that comes and goes, and two kinds of dump.               *)
EXTENDS EventLoop
CONSTANTS n1, links, neigh
=============================================================================
