------------------------------ MODULE MCRecords ------------------------------
(* Two namespaces with one key each, and contents "a" and "b" that differ  *)
(* only in a field the fingerprint leaves out (an interface going down)    *)
(* next to contents "c" that do not.                                       *)
EXTENDS Records, TLC
CONSTANTS n1, n2, k1, k2, a, b, c

MCNamespaceOf == (k1 :> n1) @@ (k2 :> n2)
MCFingerprint == (a :> "f") @@ (b :> "f") @@ (c :> "g")
=============================================================================
