-------------------------- MODULE MCTwoPhaseCommit --------------------------
(***************************************************************************)
(* Small instances of TwoPhaseCommit.  Two nodes, one with two images, so  *)
(* that a handler's loops can be interrupted half way.                     *)
(***************************************************************************)
EXTENDS TwoPhaseCommit, TLC

CONSTANTS c1, c2,           \* commits
          a, b,             \* nodes
          a1, a2, b1,       \* images
          k1, k2            \* file names

MCCommits == {c1, c2}
MCNodes == {a, b}
MCImages == {a1, a2, b1}
MCNames == {k1, k2}
MCOwner == a1 :> a @@ a2 :> a @@ b1 :> b

TwoNames == c1 :> k1 @@ c2 :> k2

\* Both want a1.
Contended == c1 :> {a1, b1} @@ c2 :> {a1, a2}
\* Both want the one image of b, and a different one of a.
Crossed == c1 :> {a1, b1} @@ c2 :> {a2, b1}
=============================================================================
