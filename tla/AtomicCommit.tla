---------------------------- MODULE AtomicCommit ----------------------------
(***************************************************************************)
(* What the two-phase commit of project 4 promises, without threads,       *)
(* messages or locks: a commit is decided once, by all the nodes that own  *)
(* a source, none of them acts before it or against it, and a collage is   *)
(* published for a positive decision only.                                 *)
(***************************************************************************)
CONSTANTS
    Commits,
    Nodes,
    Participants    \* the nodes each commit asks

VARIABLES
    ballot,     \* the vote each node cast on each commit
    outcome,    \* what was decided
    obeyed,     \* what each node that acts on the decision takes it for
    published   \* the commits whose collage was written

vars == <<ballot, outcome, obeyed, published>>

Ballots == {"none", "yes", "no"}
Outcomes == {"open", "commit", "abort"}

TypeOK ==
    /\ ballot \in [Commits -> [Nodes -> Ballots]]
    /\ outcome \in [Commits -> Outcomes]
    /\ obeyed \in [Commits -> [Nodes -> Outcomes]]
    /\ published \subseteq Commits

Init ==
    /\ ballot = [c \in Commits |-> [n \in Nodes |-> "none"]]
    /\ outcome = [c \in Commits |-> "open"]
    /\ obeyed = [c \in Commits |-> [n \in Nodes |-> "open"]]
    /\ published = {}

Vote(c, n, v) ==
    /\ n \in Participants[c]
    /\ ballot[c][n] = "none"
    /\ outcome[c] = "open"
    /\ ballot' = [ballot EXCEPT ![c][n] = v]
    /\ UNCHANGED <<outcome, obeyed, published>>

\* Commit by unanimity, abort on the veto of one.  Nobody is given up on: the
\* decision waits for the last vote even when the first one was a veto.
Settle(c, o) ==
    /\ outcome[c] = "open"
    /\ \A n \in Participants[c] : ballot[c][n] # "none"
    /\ \/ o = "commit" /\ \A n \in Participants[c] : ballot[c][n] = "yes"
       \/ o = "abort" /\ \E n \in Participants[c] : ballot[c][n] = "no"
    /\ outcome' = [outcome EXCEPT ![c] = o]
    /\ UNCHANGED <<ballot, obeyed, published>>

Obey(c, n) ==
    /\ outcome[c] # "open"
    /\ n \in Participants[c]
    /\ obeyed[c][n] = "open"
    /\ obeyed' = [obeyed EXCEPT ![c][n] = outcome[c]]
    /\ UNCHANGED <<ballot, outcome, published>>

Publish(c) ==
    /\ outcome[c] = "commit"
    /\ published' = published \cup {c}
    /\ UNCHANGED <<ballot, outcome, obeyed>>

Next ==
    \E c \in Commits :
      \/ \E n \in Nodes, v \in {"yes", "no"} : Vote(c, n, v)
      \/ \E o \in {"commit", "abort"} : Settle(c, o)
      \/ \E n \in Nodes : Obey(c, n)
      \/ Publish(c)

Spec == Init /\ [][Next]_vars

=============================================================================
