--------------------------- MODULE TwoPhaseCommit ---------------------------
(***************************************************************************)
(* Project 4 (src/15440-p4/handin): a Server that commits collages and the *)
(* UserNodes that own the images they are made of.                         *)
(*                                                                         *)
(* The course library (ProjectLib, Project4) is external: it runs every    *)
(* startCommit in a thread of its own, delivers every message from a       *)
(* thread of its own after a configurable delay (so in any order, and not  *)
(* at all when the delay is negative or the addressee is down), puts what  *)
(* reaches the Server in one blocking queue, and calls                     *)
(* UserNode.deliverMessage without a lock, so the handlers of one node     *)
(* run concurrently.  The grain here is therefore one access to shared     *)
(* state per step: one image checked, locked or released, one message      *)
(* sent or taken.                                                          *)
(***************************************************************************)
EXTENDS Integers, FiniteSets

CONSTANTS
    Commits,    \* calls of Server.startCommit, at most one thread each
    Nodes,      \* UserNode ids
    Images,     \* source images, "node:file"
    Names,      \* collage file names
    FileName,   \* the filename argument of each call
    Sources,    \* the sources argument of each call
    Owner,      \* the node before the ':' of a source
    Faults,     \* which faults the environment may cause
    MaxFaults   \* bound: how many of them in one run

FaultKinds == {"loss", "restart", "disk"}

ASSUME CommitsAssumption ==
    /\ FileName \in [Commits -> Names]
    /\ Sources \in [Commits -> SUBSET Images]
    /\ Owner \in [Images -> Nodes]
    /\ IsFiniteSet(Nodes)
    /\ Faults \subseteq FaultKinds
    /\ MaxFaults \in Nat

VARIABLES
    coord,      \* the locals of each startCommit thread
    killed,     \* the threads that died with their Server process
    inbox,      \* the Server's message queue
    net,        \* messages under way
    prep,       \* PREPARE handlers, by commit and node
    apply,      \* DECISION handlers, by commit and node
    lockedImgs, \* UserNode.lockedImgs, of all the nodes
    files,      \* source images that exist in the node directories
    collages,   \* collages in the Server directory
    faults      \* faults so far

serverVars == <<coord, killed, inbox, collages>>
nodeVars == <<prep, apply, lockedImgs, files>>
vars == <<coord, killed, inbox, net, prep, apply, lockedImgs, files,
          collages, faults>>

-----------------------------------------------------------------------------
(* Messages carry the commit they belong to.  The Server tells replies     *)
(* apart by FileName[commit] only, as the code does by m.filename.         *)

\* Bug: the node is not split off the source's name.
UnsplitNodesOf(c) == Sources[c]
NodesOf(c) == {Owner[i] : i \in Sources[c]}
LocalImages(c, n) == {i \in Sources[c] : Owner[i] = n}

Prepare(c, n) == [type |-> "PREPARE", commit |-> c, node |-> n, vote |-> FALSE]
Reply(c, n, v) == [type |-> "REPLY", commit |-> c, node |-> n, vote |-> v]
Decision(c, n, v) ==
    [type |-> "DECISION", commit |-> c, node |-> n, vote |-> v]

Message == [type : {"PREPARE", "REPLY", "DECISION"}, commit : Commits,
            node : Nodes, vote : BOOLEAN]
ToServer(m) == m.type = "REPLY"

\* A handler invocation: where it is, the images its loop has left, and the
\* vote it computes (PREPARE) or was told (DECISION).
Handler == [pc : {"none", "check", "lock", "apply", "done", "dead"},
            todo : SUBSET Images, vote : BOOLEAN]
NotCalled == [pc |-> "none", todo |-> {}, vote |-> FALSE]

Coordinator == [pc : {"idle", "prepare", "decide", "done"},
                todo : SUBSET Nodes, votes : Nat, canCommit : BOOLEAN]

Init ==
    /\ coord = [c \in Commits |-> [pc |-> "idle", todo |-> {}, votes |-> 0,
                                   canCommit |-> TRUE]]
    /\ killed = {}
    /\ inbox = {}
    /\ net = {}
    /\ prep = [c \in Commits |-> [n \in Nodes |-> NotCalled]]
    /\ apply = [c \in Commits |-> [n \in Nodes |-> NotCalled]]
    /\ lockedImgs = {}
    /\ files = Images
    /\ collages = {}
    /\ faults = 0

-----------------------------------------------------------------------------
(* Server.startCommit                                                      *)

Running(c, pc) == coord[c].pc = pc /\ c \notin killed

StartCommit(c) ==
    /\ Running(c, "idle")
    /\ coord' = [coord EXCEPT ![c] = [pc |-> "prepare", todo |-> NodesOf(c),
                                      votes |-> 0, canCommit |-> TRUE]]
    /\ UNCHANGED <<killed, inbox, net, nodeVars, collages, faults>>

SendPrepare(c, n) ==
    /\ Running(c, "prepare")
    /\ n \in coord[c].todo
    /\ coord' = [coord EXCEPT ![c].todo = @ \ {n}]
    /\ net' = net \cup {Prepare(c, n)}
    /\ UNCHANGED <<killed, inbox, nodeVars, collages, faults>>

\* Bug: the last vote is not waited for.
EnoughVotes(c) == coord[c].votes + 1 >= Cardinality(NodesOf(c))
AllVotes(c) == coord[c].votes >= Cardinality(NodesOf(c))

\* The loop that waits for the votes: all PREPAREs are out, some are missing.
Waiting(c) == Running(c, "prepare") /\ coord[c].todo = {} /\ ~AllVotes(c)

\* Bug: replies of other collages are counted too.
AnyCollage(c, m) == TRUE
SameCollage(c, m) == FileName[m.commit] = FileName[c]

CollectVote(c, m) ==
    /\ Waiting(c)
    /\ m \in inbox
    /\ SameCollage(c, m)
    /\ inbox' = inbox \ {m}
    /\ coord' = [coord EXCEPT ![c].votes = @ + 1,
                              ![c].canCommit = @ /\ m.vote]
    /\ UNCHANGED <<killed, net, nodeVars, collages, faults>>

\* A reply for another collage is sent to "Server" again, over the network.
\* Bug: it is dropped.
Discarded(m) == net
Resent(m) == net \cup {m}

Requeue(c, m) ==
    /\ Waiting(c)
    /\ m \in inbox
    /\ ~SameCollage(c, m)
    /\ inbox' = inbox \ {m}
    /\ net' = Resent(m)
    /\ UNCHANGED <<coord, killed, nodeVars, collages, faults>>

Decide(c) ==
    /\ Running(c, "prepare")
    /\ coord[c].todo = {}
    /\ AllVotes(c)
    /\ coord' = [coord EXCEPT ![c].pc = "decide", ![c].todo = NodesOf(c)]
    /\ UNCHANGED <<killed, inbox, net, nodeVars, collages, faults>>

SendDecision(c, n) ==
    /\ Running(c, "decide")
    /\ n \in coord[c].todo
    /\ coord' = [coord EXCEPT ![c].todo = @ \ {n}]
    /\ net' = net \cup {Decision(c, n, coord[c].canCommit)}
    /\ UNCHANGED <<killed, inbox, nodeVars, collages, faults>>

\* Bug: canCommit is not tested.
WrittenAlways(c) == collages \cup {FileName[c]}
Written(c) ==
    IF coord[c].canCommit THEN collages \cup {FileName[c]} ELSE collages

\* The collage is written after the last DECISION was sent.
Finish(c) ==
    /\ Running(c, "decide")
    /\ coord[c].todo = {}
    /\ coord' = [coord EXCEPT ![c].pc = "done"]
    /\ collages' = Written(c)
    /\ UNCHANGED <<killed, inbox, net, nodeVars, faults>>

-----------------------------------------------------------------------------
(* UserNode.deliverMessage, PREPARE                                        *)

DeliverPrepare(c, n) ==
    /\ Prepare(c, n) \in net
    /\ net' = net \ {Prepare(c, n)}
    /\ prep' = [prep EXCEPT ![c][n] = [pc |-> "check", vote |-> TRUE,
                                       todo |-> LocalImages(c, n)]]
    /\ UNCHANGED <<serverVars, apply, lockedImgs, files, faults>>

CheckImage(c, n, i) ==
    /\ prep[c][n].pc = "check"
    /\ i \in prep[c][n].todo
    /\ prep' = [prep EXCEPT ![c][n] =
                  [pc |-> "check", todo |-> @.todo \ {i},
                   vote |-> @.vote /\ i \notin lockedImgs /\ i \in files]]
    /\ UNCHANGED <<serverVars, net, apply, lockedImgs, files, faults>>

Checked(c, n) == prep[c][n].pc = "check" /\ prep[c][n].todo = {}

\* Nothing is locked while the user thinks about it.
AskUser(c, n, answer) ==
    /\ Checked(c, n)
    /\ prep[c][n].vote
    /\ prep' = [prep EXCEPT ![c][n] =
                  IF answer
                  THEN [pc |-> "lock", todo |-> LocalImages(c, n),
                        vote |-> TRUE]
                  ELSE [pc |-> "check", todo |-> {}, vote |-> FALSE]]
    /\ UNCHANGED <<serverVars, net, apply, lockedImgs, files, faults>>

\* Bug: the handler starts a new set.
OnlyLock(i) == {i}
Locked(i) == lockedImgs \cup {i}

LockImage(c, n, i) ==
    /\ prep[c][n].pc = "lock"
    /\ i \in prep[c][n].todo
    /\ prep' = [prep EXCEPT ![c][n].todo = @ \ {i}]
    /\ lockedImgs' = Locked(i)
    /\ UNCHANGED <<serverVars, net, apply, files, faults>>

SendReply(c, n) ==
    /\ \/ Checked(c, n) /\ ~prep[c][n].vote
       \/ prep[c][n].pc = "lock" /\ prep[c][n].todo = {}
    /\ prep' = [prep EXCEPT ![c][n].pc = "done"]
    /\ net' = net \cup {Reply(c, n, prep[c][n].vote)}
    /\ UNCHANGED <<serverVars, apply, lockedImgs, files, faults>>

-----------------------------------------------------------------------------
(* UserNode.deliverMessage, DECISION                                       *)

DeliverDecision(c, n, v) ==
    /\ Decision(c, n, v) \in net
    /\ net' = net \ {Decision(c, n, v)}
    /\ apply' = [apply EXCEPT ![c][n] = [pc |-> "apply", vote |-> v,
                                         todo |-> LocalImages(c, n)]]
    /\ UNCHANGED <<serverVars, prep, lockedImgs, files, faults>>

\* Bug: sources are deleted whatever was decided.
DeletedAlways(v, i) == files \ {i}
\* Bug: the handler forgets to delete.
DeletedNever(v, i) == files
Deleted(v, i) == IF v THEN files \ {i} ELSE files

\* Bug: the lock of an aborted commit is kept.
UnlockedOnCommit(v, i) == IF v THEN lockedImgs \ {i} ELSE lockedImgs
Unlocked(v, i) == lockedImgs \ {i}

\* Delete on commit, then unlock whoever holds the lock.  A concurrent check
\* refuses the image between the two and after both, so they are one step.
ApplyImage(c, n, i) ==
    /\ apply[c][n].pc = "apply"
    /\ i \in apply[c][n].todo
    /\ files' = Deleted(apply[c][n].vote, i)
    /\ lockedImgs' = Unlocked(apply[c][n].vote, i)
    /\ apply' = [apply EXCEPT ![c][n] =
                   [pc |-> IF @.todo = {i} THEN "done" ELSE "apply",
                    todo |-> @.todo \ {i}, vote |-> @.vote]]
    /\ UNCHANGED <<serverVars, net, prep, faults>>

-----------------------------------------------------------------------------
(* The library                                                             *)

DeliverToServer(m) ==
    /\ m \in net
    /\ ToServer(m)
    /\ net' = net \ {m}
    /\ inbox' = inbox \cup {m}
    /\ UNCHANGED <<coord, killed, nodeVars, collages, faults>>

Fault(kind) ==
    /\ kind \in Faults
    /\ faults < MaxFaults
    /\ faults' = faults + 1

Lose(m) ==
    /\ Fault("loss")
    /\ m \in net
    /\ net' = net \ {m}
    /\ UNCHANGED <<serverVars, nodeVars>>

\* A handler of a node process that dies is gone with it.
Kill(h) == IF h.pc \in {"check", "lock", "apply"} THEN [h EXCEPT !.pc = "dead"]
                                                  ELSE h

\* A UserNode goes down and comes up again: main creates an empty lockedImgs.
\* What arrives in between is dropped.
RestartNode(n, dropped) ==
    /\ Fault("restart")
    /\ dropped \subseteq {m \in net : ~ToServer(m) /\ m.node = n}
    /\ net' = net \ dropped
    /\ prep' = [c \in Commits |-> [prep[c] EXCEPT ![n] = Kill(@)]]
    /\ apply' = [c \in Commits |-> [apply[c] EXCEPT ![n] = Kill(@)]]
    /\ lockedImgs' = {i \in lockedImgs : Owner[i] # n}
    /\ UNCHANGED <<serverVars, files>>

\* The Server goes down and comes up again: every running thread and the
\* queue are gone and nothing tells the new process about them.
RestartServer(dropped) ==
    /\ Fault("restart")
    /\ dropped \subseteq {m \in net : ToServer(m)}
    /\ net' = net \ dropped
    /\ inbox' = {}
    /\ killed' = killed \cup {c \in Commits : coord[c].pc \in
                                                {"prepare", "decide"}}
    /\ UNCHANGED <<coord, collages, nodeVars>>

\* Writing the collage throws; the exception is printed and startCommit
\* returns.
FailWrite(c) ==
    /\ Fault("disk")
    /\ Running(c, "decide")
    /\ coord[c].todo = {}
    /\ coord[c].canCommit
    /\ coord' = [coord EXCEPT ![c].pc = "done"]
    /\ UNCHANGED <<killed, inbox, net, nodeVars, collages>>

-----------------------------------------------------------------------------
ServerStep(c) ==
    \/ \E n \in Nodes : SendPrepare(c, n) \/ SendDecision(c, n)
    \/ Decide(c)
    \/ Finish(c)

NodeStep(c, n) ==
    \/ DeliverPrepare(c, n)
    \/ \E v \in BOOLEAN : DeliverDecision(c, n, v)
    \/ \E answer \in BOOLEAN : AskUser(c, n, answer)
    \/ \E i \in Images : \/ CheckImage(c, n, i)
                         \/ LockImage(c, n, i)
                         \/ ApplyImage(c, n, i)
    \/ SendReply(c, n)

FaultStep ==
    \/ \E m \in net : Lose(m)
    \/ \E n \in Nodes, dropped \in SUBSET net : RestartNode(n, dropped)
    \/ \E dropped \in SUBSET net : RestartServer(dropped)
    \/ \E c \in Commits : FailWrite(c)

Next ==
    \/ \E c \in Commits : StartCommit(c)
    \/ \E c \in Commits : ServerStep(c)
    \/ \E c \in Commits, m \in inbox : CollectVote(c, m) \/ Requeue(c, m)
    \/ \E c \in Commits, n \in Nodes : NodeStep(c, n)
    \/ \E m \in net : DeliverToServer(m)
    \/ FaultStep

Spec == Init /\ [][Next]_vars

\* Threads and the network make progress and users answer; nobody has to
\* start a commit and no fault has to happen.  A reply bounces between the
\* threads of two collages for as long as the wrong one takes it first: that
\* its own thread gets it in the end is a property of the delays and of the
\* queue's scheduling, so it takes strong fairness.
Fairness ==
    /\ \A c \in Commits :
         /\ WF_vars(ServerStep(c))
         /\ SF_vars(\E m \in inbox : CollectVote(c, m))
         /\ \A n \in Nodes :
              /\ WF_vars(DeliverPrepare(c, n))
              /\ WF_vars(\E v \in BOOLEAN : DeliverDecision(c, n, v))
              /\ WF_vars(\E answer \in BOOLEAN : AskUser(c, n, answer))
              /\ WF_vars(\E i \in Images : CheckImage(c, n, i))
              /\ WF_vars(\E i \in Images : LockImage(c, n, i))
              /\ WF_vars(\E i \in Images : ApplyImage(c, n, i))
              /\ WF_vars(SendReply(c, n))
    /\ \A c \in Commits, n \in Nodes, v \in BOOLEAN :
         WF_vars(DeliverToServer(Reply(c, n, v)))

FairSpec == Spec /\ Fairness

-----------------------------------------------------------------------------
(* Properties                                                              *)

TypeOK ==
    /\ coord \in [Commits -> Coordinator]
    /\ killed \subseteq Commits
    /\ inbox \subseteq {m \in Message : ToServer(m)}
    /\ net \subseteq Message
    /\ prep \in [Commits -> [Nodes -> Handler]]
    /\ apply \in [Commits -> [Nodes -> Handler]]
    /\ lockedImgs \subseteq Images
    /\ files \subseteq Images
    /\ collages \subseteq Names
    /\ faults \in 0..MaxFaults

\* The comment in startCommit, "receive REPLY votes from all nodes", relies on
\* no two calls having the same file name.
DistinctNames ==
    \A c, d \in Commits : FileName[c] = FileName[d] => c = d

Voted(c, n) == prep[c][n].pc = "done"
VotedYes(c, n) == Voted(c, n) /\ prep[c][n].vote
Decided(c) == coord[c].pc \in {"decide", "done"}
Committed(c) == Decided(c) /\ coord[c].canCommit

\* A decision is made on the votes of all the nodes of this very commit, and
\* a positive one on nothing but YES (Server.java 83-100), although replies
\* are anonymous, pass through the wrong thread and may be lost.
Unanimity ==
    \A c \in Commits : Decided(c) =>
      \A n \in NodesOf(c) : Voted(c, n) /\ (coord[c].canCommit
                                             => VotedYes(c, n))

\* Image i was locked by the PREPARE of c and c's DECISION has not reached it.
Holds(c, i) ==
    /\ i \in Sources[c]
    /\ \/ prep[c][Owner[i]].pc = "lock" /\ i \notin prep[c][Owner[i]].todo
       \/ VotedYes(c, Owner[i])
    /\ \/ apply[c][Owner[i]].pc = "none"
       \/ apply[c][Owner[i]].pc = "apply" /\ i \in apply[c][Owner[i]].todo

\* No lock is left behind: whoever entered an image in lockedImgs still has
\* to take it out (UserNode.java 105-107, 129-130).
LocksHaveOwners == \A i \in lockedImgs : \E c \in Commits : Holds(c, i)

\* A source file disappears only for a commit that was decided positively
\* after every node it involves agreed (UserNode.java 124-128).
SourcesGoOnlyWithConsent ==
    [][\A i \in files \ files' : \E c \in Commits :
         /\ i \in Sources[c]
         /\ Committed(c)
         /\ \A n \in NodesOf(c) : VotedYes(c, n)]_vars

\* A YES is a promise: until the decision arrives the image stays where it
\* is, locked (UserNode.java 82-107), whatever other commits do to the other
\* images of the same nodes.  It takes that nobody else asks for this one.
PromisesKept ==
    \A c \in Commits : \A i \in Sources[c] :
      /\ \A d \in Commits \ {c} : i \notin Sources[d]
      /\ VotedYes(c, Owner[i]) /\ Holds(c, i)
      => i \in lockedImgs /\ i \in files

\* No image becomes part of two collages: "check if source is available"
\* (UserNode.java 82) is there for this, and does not achieve it.
NoImageSoldTwice ==
    \A c, d \in Commits :
      Committed(c) /\ Committed(d) /\ c # d => Sources[c] \cap Sources[d] = {}

\* Every commit that is started is decided, and startCommit returns.
EveryCommitEnds ==
    \A c \in Commits : coord[c].pc = "prepare" ~> coord[c].pc = "done"

\* Locks are held for a bounded time.
LocksAreReleased ==
    \A i \in Images : i \in lockedImgs ~> i \notin lockedImgs

\* A positive decision takes effect on the Server and on every node.
CommitsTakeEffect ==
    \A c \in Commits :
      Committed(c) ~> FileName[c] \in collages /\ Sources[c] \cap files = {}

-----------------------------------------------------------------------------
(* What it implements                                                      *)

Ballot(c, n) == IF ~Voted(c, n) THEN "none"
                ELSE IF prep[c][n].vote THEN "yes" ELSE "no"
Outcome(c) == IF ~Decided(c) THEN "open"
              ELSE IF coord[c].canCommit THEN "commit" ELSE "abort"
Obeyed(c, n) == IF apply[c][n].pc = "none" THEN "open"
                ELSE IF apply[c][n].vote THEN "commit" ELSE "abort"

Abstract == INSTANCE AtomicCommit WITH
    Participants <- [c \in Commits |-> NodesOf(c)],
    ballot <- [c \in Commits |-> [n \in Nodes |-> Ballot(c, n)]],
    outcome <- [c \in Commits |-> Outcome(c)],
    obeyed <- [c \in Commits |-> [n \in Nodes |-> Obeyed(c, n)]],
    published <- {c \in Commits : FileName[c] \in collages}

\* The two-phase commit is an atomic commitment, whatever is lost and
\* whoever restarts.
AtomicCommitment == Abstract!Spec

=============================================================================
