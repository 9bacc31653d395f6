---------------------------- MODULE MCFileServer ----------------------------
(* Instances of FileServer for TLC. *)
EXTENDS FileServer, TLC

CONSTANTS n1, n2, n3

\* As in the demonstration of cmd/dfsnode: one node dials two others.
Star == {{n1, n2}, {n1, n3}}
Pair == {{n1, n2}}
Points == Permutations({n2, n3})
=============================================================================
