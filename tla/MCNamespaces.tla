----------------------------- MODULE MCNamespaces -----------------------------
(* The namespaces of process 1 and of vxmon, and a third one that a mount  *)
(* and a process lead to; a second mount on the same path may hide the     *)
(* first behind the namespace of process 1.                                *)
EXTENDS Namespaces
CONSTANTS root, self, other, procRoot, procSelf, mount, proc
Mounts == <<mount, mount>>
Procs == <<proc>>
SetsOfMounts == <<{other}, {root}>>
SetsOfProcs == <<{other}>>
=============================================================================
