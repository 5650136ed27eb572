----------------------- MODULE TwoPhaseCommit_proofs -----------------------
(***************************************************************************)
(* Theorems about TwoPhaseCommit, for any number of commits, nodes, images *)
(* and faults.                                                             *)
(***************************************************************************)
EXTENDS TwoPhaseCommit, FiniteSetTheorems, TLAPS

\* The nodes a commit asks, and the images of a node, are what they should be.
LEMMA Participants ==
    ASSUME NEW c \in Commits
    PROVE  /\ NodesOf(c) \subseteq Nodes
           /\ IsFiniteSet(NodesOf(c))
           /\ Cardinality(NodesOf(c)) \in Nat
           /\ \A n \in Nodes : LocalImages(c, n) \subseteq Images
<1>1. NodesOf(c) \subseteq Nodes
  BY CommitsAssumption DEF NodesOf
<1>2. IsFiniteSet(NodesOf(c))
  BY <1>1, FS_Subset, CommitsAssumption
<1>3. \A n \in Nodes : LocalImages(c, n) \subseteq Images
  BY CommitsAssumption DEF LocalImages
<1> QED
  BY <1>1, <1>2, <1>3, FS_CardinalityType

\* The shapes of the messages the code builds.
LEMMA MessageShapes ==
    ASSUME NEW c \in Commits, NEW n \in Nodes, NEW v \in BOOLEAN
    PROVE  /\ Prepare(c, n) \in Message
           /\ Decision(c, n, v) \in Message
           /\ Reply(c, n, v) \in {m \in Message : ToServer(m)}
BY DEF Prepare, Decision, Reply, Message, ToServer

\* A handler stays one when a field of it is updated, and so do the tables.
LEMMA HandlerUpdate ==
    ASSUME NEW T, T \in [Commits -> [Nodes -> Handler]],
           NEW c \in Commits, NEW n \in Nodes
    PROVE  /\ T[c][n].pc \in {"none", "check", "lock", "apply", "done", "dead"}
           /\ T[c][n].todo \subseteq Images
           /\ T[c][n].vote \in BOOLEAN
           /\ \A h \in Handler :
                [T EXCEPT ![c][n] = h] \in [Commits -> [Nodes -> Handler]]
           /\ \A i : [T[c][n] EXCEPT !.todo = @ \ {i}] \in Handler
           /\ [T[c][n] EXCEPT !.pc = "done"] \in Handler
<1>1. T[c][n] \in Handler
  OBVIOUS
<1>2. \A h \in Handler :
        [T EXCEPT ![c][n] = h] \in [Commits -> [Nodes -> Handler]]
  OBVIOUS
<1>3. \A i : [T[c][n] EXCEPT !.todo = @ \ {i}] \in Handler
  BY <1>1 DEF Handler
<1>4. [T[c][n] EXCEPT !.pc = "done"] \in Handler
  BY <1>1 DEF Handler
<1> QED
  BY <1>1, <1>2, <1>3, <1>4 DEF Handler

\* The same of the threads of the Server.
LEMMA ThreadUpdate ==
    ASSUME coord \in [Commits -> Coordinator], NEW c \in Commits
    PROVE  /\ coord[c].canCommit \in BOOLEAN /\ coord[c].votes \in Nat
           /\ \A h \in Coordinator : [coord EXCEPT ![c] = h] \in [Commits -> Coordinator]
           /\ \A n : [coord[c] EXCEPT !.todo = @ \ {n}] \in Coordinator
           /\ [coord[c] EXCEPT !.pc = "done"] \in Coordinator
           /\ \A T \in SUBSET Nodes :
                [coord[c] EXCEPT !.pc = "decide", !.todo = T] \in Coordinator
           /\ \A v \in BOOLEAN :
                [coord[c] EXCEPT !.votes = @ + 1, !.canCommit = @ /\ v] \in Coordinator
<1>1. /\ coord[c].pc \in {"idle", "prepare", "decide", "done"}
      /\ coord[c].todo \in SUBSET Nodes
      /\ coord[c].votes \in Nat /\ coord[c].canCommit \in BOOLEAN
      /\ coord[c] = [pc |-> coord[c].pc, todo |-> coord[c].todo,
                     votes |-> coord[c].votes, canCommit |-> coord[c].canCommit]
  <2>1. coord[c] \in Coordinator
    OBVIOUS
  <2> QED BY <2>1 DEF Coordinator
<1>2. \A h \in Coordinator : [coord EXCEPT ![c] = h] \in [Commits -> Coordinator]
  OBVIOUS
<1>3. \A n : [coord[c] EXCEPT !.todo = @ \ {n}] \in Coordinator
  BY <1>1 DEF Coordinator
<1>4. [coord[c] EXCEPT !.pc = "done"] \in Coordinator
  BY <1>1 DEF Coordinator
<1>5. \A T \in SUBSET Nodes :
        [coord[c] EXCEPT !.pc = "decide", !.todo = T] \in Coordinator
  BY <1>1 DEF Coordinator
<1>6. ASSUME NEW v \in BOOLEAN
      PROVE  [coord[c] EXCEPT !.votes = @ + 1, !.canCommit = @ /\ v] \in Coordinator
  <2>1. coord[c].votes + 1 \in Nat /\ (coord[c].canCommit /\ v) \in BOOLEAN
    BY <1>1
  <2> QED BY <1>1, <2>1 DEF Coordinator
<1> QED
  BY <1>1, <1>2, <1>3, <1>4, <1>5, <1>6

\* Type correctness: every step of the Server, a node, the library or a fault
\* leaves all the variables in their types.
LEMMA Typing == TypeOK /\ [Next]_vars => TypeOK'
<1> SUFFICES ASSUME TypeOK, [Next]_vars PROVE TypeOK'
  OBVIOUS
<1> USE DEF TypeOK, serverVars, nodeVars
<1>1. ASSUME NEW c \in Commits, StartCommit(c) PROVE TypeOK'
  BY <1>1, Participants DEF StartCommit, Coordinator
<1>2. ASSUME NEW c \in Commits, NEW n \in Nodes, SendPrepare(c, n)
      PROVE  TypeOK'
  <2>1. coord' = [coord EXCEPT ![c] = [coord[c] EXCEPT !.todo = @ \ {n}]]
    BY <1>2 DEF SendPrepare
  <2>2. coord' \in [Commits -> Coordinator]
    BY <2>1, ThreadUpdate
  <2> QED
    BY <1>2, <2>2, MessageShapes DEF SendPrepare
<1>3. ASSUME NEW c \in Commits, NEW n \in Nodes, SendDecision(c, n)
      PROVE  TypeOK'
  <2>1. Decision(c, n, coord[c].canCommit) \in Message
    BY ThreadUpdate, MessageShapes
  <2>2. coord' = [coord EXCEPT ![c] = [coord[c] EXCEPT !.todo = @ \ {n}]]
    BY <1>3 DEF SendDecision
  <2>3. coord' \in [Commits -> Coordinator]
    BY <2>2, ThreadUpdate
  <2> QED
    BY <1>3, <2>1, <2>3 DEF SendDecision
<1>4. ASSUME NEW c \in Commits, Decide(c) PROVE TypeOK'
  <2>1. coord' = [coord EXCEPT ![c] = [coord[c] EXCEPT !.pc = "decide", !.todo = NodesOf(c)]]
    BY <1>4 DEF Decide
  <2>2. coord' \in [Commits -> Coordinator]
    BY <2>1, Participants, ThreadUpdate
  <2> QED
    BY <1>4, <2>2 DEF Decide
<1>5. ASSUME NEW c \in Commits, Finish(c) PROVE TypeOK'
  <2>1. Written(c) \subseteq Names
    BY CommitsAssumption DEF Written
  <2>2. coord' = [coord EXCEPT ![c] = [coord[c] EXCEPT !.pc = "done"]]
    BY <1>5 DEF Finish
  <2>3. coord' \in [Commits -> Coordinator]
    BY <2>2, ThreadUpdate
  <2> QED
    BY <1>5, <2>1, <2>3 DEF Finish
<1>6. ASSUME NEW c \in Commits, NEW m \in inbox, CollectVote(c, m)
      PROVE  TypeOK'
  <2>1. m.vote \in BOOLEAN
    BY DEF Message
  <2>2. coord' = [coord EXCEPT ![c] = [coord[c] EXCEPT !.votes = @ + 1,
                                                      !.canCommit = @ /\ m.vote]]
    BY <1>6 DEF CollectVote
  <2>3. coord' \in [Commits -> Coordinator]
    BY <2>1, <2>2, ThreadUpdate
  <2> QED
    BY <1>6, <2>3 DEF CollectVote
<1>7. ASSUME NEW c \in Commits, NEW m \in inbox, Requeue(c, m) PROVE TypeOK'
  BY <1>7 DEF Requeue, Resent
<1>8. ASSUME NEW c \in Commits, NEW n \in Nodes, DeliverPrepare(c, n)
      PROVE  TypeOK'
  BY <1>8, Participants DEF DeliverPrepare, Handler
<1>9. ASSUME NEW c \in Commits, NEW n \in Nodes, NEW v \in BOOLEAN,
             DeliverDecision(c, n, v)
      PROVE  TypeOK'
  BY <1>9, Participants DEF DeliverDecision, Handler
<1>10. ASSUME NEW c \in Commits, NEW n \in Nodes, NEW answer \in BOOLEAN,
              AskUser(c, n, answer)
       PROVE  TypeOK'
  BY <1>10, Participants DEF AskUser, Handler
<1>11. ASSUME NEW c \in Commits, NEW n \in Nodes, NEW i \in Images,
              CheckImage(c, n, i)
       PROVE  TypeOK'
  <2> DEFINE h == [pc |-> "check", todo |-> prep[c][n].todo \ {i},
                   vote |-> prep[c][n].vote /\ i \notin lockedImgs
                                            /\ i \in files]
  <2>1. prep[c][n].todo \ {i} \subseteq Images
    BY HandlerUpdate
  <2>2. h \in Handler
    BY <2>1 DEF Handler
  <2>3. prep' = [prep EXCEPT ![c][n] = h]
    BY <1>11 DEF CheckImage
  <2>4. prep' \in [Commits -> [Nodes -> Handler]]
    BY <2>2, <2>3, HandlerUpdate
  <2> QED
    BY <1>11, <2>4 DEF CheckImage
<1>12. ASSUME NEW c \in Commits, NEW n \in Nodes, NEW i \in Images,
              LockImage(c, n, i)
       PROVE  TypeOK'
  <2>1. prep' \in [Commits -> [Nodes -> Handler]]
    BY <1>12, HandlerUpdate DEF LockImage
  <2> QED
    BY <1>12, <2>1 DEF LockImage, Locked
<1>13. ASSUME NEW c \in Commits, NEW n \in Nodes, NEW i \in Images,
              ApplyImage(c, n, i)
       PROVE  TypeOK'
  BY <1>13 DEF ApplyImage, Deleted, Unlocked, Handler
<1>14. ASSUME NEW c \in Commits, NEW n \in Nodes, SendReply(c, n)
       PROVE  TypeOK'
  <2>0. prep[c][n].vote \in BOOLEAN
    BY HandlerUpdate
  <2>1. Reply(c, n, prep[c][n].vote) \in Message
    BY <2>0, MessageShapes
  <2>2. prep' \in [Commits -> [Nodes -> Handler]]
    BY <1>14, HandlerUpdate DEF SendReply
  <2> QED
    BY <1>14, <2>1, <2>2 DEF SendReply
<1>15. ASSUME NEW m \in net, DeliverToServer(m) PROVE TypeOK'
  BY <1>15 DEF DeliverToServer
<1>16. ASSUME NEW m \in net, Lose(m) PROVE TypeOK'
  BY <1>16, CommitsAssumption DEF Lose, Fault
<1>17. ASSUME NEW n \in Nodes, NEW dropped \in SUBSET net,
              RestartNode(n, dropped)
       PROVE  TypeOK'
  <2>1. \A h \in Handler : Kill(h) \in Handler
    BY DEF Handler, Kill
  <2> QED
    BY <1>17, <2>1, CommitsAssumption DEF RestartNode, Fault
<1>18. ASSUME NEW dropped \in SUBSET net, RestartServer(dropped)
       PROVE  TypeOK'
  BY <1>18, CommitsAssumption DEF RestartServer, Fault
<1>19. ASSUME NEW c \in Commits, FailWrite(c) PROVE TypeOK'
  <2>1. coord' \in [Commits -> Coordinator]
    BY <1>19 DEF FailWrite, Coordinator
  <2>2. faults' \in 0..MaxFaults
    BY <1>19, CommitsAssumption DEF FailWrite, Fault
  <2> QED
    BY <1>19, <2>1, <2>2 DEF FailWrite
<1>20. CASE UNCHANGED vars
  BY <1>20 DEF vars
<1> QED
  BY <1>1, <1>2, <1>3, <1>4, <1>5, <1>6, <1>7, <1>8, <1>9, <1>10, <1>11,
     <1>12, <1>13, <1>14, <1>15, <1>16, <1>17, <1>18, <1>19, <1>20
  DEF Next, ServerStep, NodeStep, FaultStep

\* The variables of the protocol always have their types.
THEOREM TypeCorrect == Spec => []TypeOK
<1>1. Init => TypeOK
  BY CommitsAssumption DEF Init, TypeOK, Coordinator, Handler, NotCalled
<1> QED
  BY <1>1, Typing, PTL DEF Spec

-----------------------------------------------------------------------------
(* The inductive invariant behind Unanimity and the refinement.            *)

\* startCommit has sent n its PREPARE, or its DECISION.
PrepareSent(c, n) ==
    /\ n \in NodesOf(c)
    /\ coord[c].pc # "idle"
    /\ coord[c].pc = "prepare" => n \notin coord[c].todo
DecisionSent(c, n) ==
    /\ n \in NodesOf(c)
    /\ Decided(c)
    /\ coord[c].pc = "decide" => n \notin coord[c].todo

\* What is under way was sent once, by whom it says, and not acted on yet.
PreparesGenuine ==
    \A c \in Commits, n \in Nodes :
      /\ Prepare(c, n) \in net => PrepareSent(c, n) /\ prep[c][n].pc = "none"
      /\ prep[c][n].pc # "none" => PrepareSent(c, n)
RepliesGenuine ==
    /\ \A c \in Commits, n \in Nodes, v \in BOOLEAN :
         Reply(c, n, v) \in net \cup inbox => Voted(c, n) /\ prep[c][n].vote = v
    /\ net \cap inbox = {}
DecisionsGenuine ==
    \A c \in Commits, n \in Nodes :
      /\ \A v \in BOOLEAN : Decision(c, n, v) \in net =>
           /\ DecisionSent(c, n)
           /\ v = coord[c].canCommit
           /\ apply[c][n].pc = "none"
      /\ apply[c][n].pc # "none" =>
           DecisionSent(c, n) /\ apply[c][n].vote = coord[c].canCommit

\* The Server has only participants left to write to.
AsksParticipants == \A c \in Commits : coord[c].todo \subseteq NodesOf(c)

Genuine ==
    PreparesGenuine /\ RepliesGenuine /\ DecisionsGenuine /\ AsksParticipants

\* The nodes whose votes c has counted, and those lost on the way.
InTransit(c, n) == \E v \in BOOLEAN : Reply(c, n, v) \in net \cup inbox
Heard(c) == {n \in NodesOf(c) : Voted(c, n) /\ ~InTransit(c, n)}
HeardYes(c) == {n \in Heard(c) : prep[c][n].vote}

\* The count is anonymous, but never ahead of the nodes heard of; while it is
\* positive, never ahead of those that agreed.
CountsRight ==
    \A c \in Commits :
      /\ coord[c].votes <= Cardinality(Heard(c))
      /\ coord[c].canCommit => coord[c].votes <= Cardinality(HeardYes(c))
      /\ ~coord[c].canCommit =>
           \E n \in NodesOf(c) : Voted(c, n) /\ ~prep[c][n].vote
      /\ coord[c].pc = "idle" => coord[c].canCommit
      /\ Decided(c) => AllVotes(c)

-----------------------------------------------------------------------------
\* Messages of different kinds, or about different commits, nodes or votes,
\* are different; what the Server queues are replies.
LEMMA MessageForms ==
    /\ \A c, d \in Commits, n, k \in Nodes : Prepare(c, n) = Prepare(d, k) => c = d /\ n = k
    /\ \A c, d \in Commits, n, k \in Nodes, v, w \in BOOLEAN :
         /\ Reply(c, n, v) = Reply(d, k, w) => c = d /\ n = k /\ v = w
         /\ Decision(c, n, v) = Decision(d, k, w) => c = d /\ n = k /\ v = w
         /\ Prepare(c, n) # Reply(d, k, v)
         /\ Prepare(c, n) # Decision(d, k, v)
         /\ Reply(c, n, v) # Decision(d, k, w)
         /\ ToServer(Reply(c, n, v))
         /\ ~ToServer(Prepare(c, n))
         /\ ~ToServer(Decision(c, n, v))
    /\ \A m \in Message : ToServer(m) => m = Reply(m.commit, m.node, m.vote)
<1>1. \A c, d \in Commits, n, k \in Nodes :
        Prepare(c, n) = Prepare(d, k) => c = d /\ n = k
  BY DEF Prepare
<1>2. ASSUME NEW c \in Commits, NEW d \in Commits, NEW n \in Nodes,
             NEW k \in Nodes, NEW v \in BOOLEAN, NEW w \in BOOLEAN
      PROVE  /\ Reply(c, n, v) = Reply(d, k, w) => c = d /\ n = k /\ v = w
             /\ Decision(c, n, v) = Decision(d, k, w)
                  => c = d /\ n = k /\ v = w
  BY DEF Reply, Decision
<1>3. ASSUME NEW c \in Commits, NEW d \in Commits, NEW n \in Nodes,
             NEW k \in Nodes, NEW v \in BOOLEAN, NEW w \in BOOLEAN
      PROVE  /\ Prepare(c, n) # Reply(d, k, v)
             /\ Prepare(c, n) # Decision(d, k, v)
             /\ Reply(c, n, v) # Decision(d, k, w)
             /\ ToServer(Reply(c, n, v))
             /\ ~ToServer(Prepare(c, n))
             /\ ~ToServer(Decision(c, n, v))
  BY DEF Prepare, Reply, Decision, ToServer
<1>4. ASSUME NEW m \in Message, ToServer(m)
      PROVE  m = Reply(m.commit, m.node, m.vote)
  <2>1. m = [type |-> m.type, commit |-> m.commit, node |-> m.node,
             vote |-> m.vote]
    BY DEF Message
  <2> QED
    BY <1>4, <2>1 DEF ToServer, Reply
<1> QED
  BY <1>1, <1>2, <1>3, <1>4

\* Which steps change the threads of the Server, and which the handlers.
LEMMA Frames ==
    ASSUME [Next]_vars
    PROVE  /\ \/ UNCHANGED coord
              \/ \E d \in Commits : \/ StartCommit(d)
                                    \/ Decide(d)
                                    \/ Finish(d)
                                    \/ FailWrite(d)
              \/ \E d \in Commits, k \in Nodes : \/ SendPrepare(d, k)
                                                 \/ SendDecision(d, k)
              \/ \E d \in Commits, m \in inbox : CollectVote(d, m)
           /\ \/ UNCHANGED prep
              \/ \E d \in Commits, k \in Nodes :
                   \/ DeliverPrepare(d, k)
                   \/ \E w \in BOOLEAN : AskUser(d, k, w)
                   \/ \E i \in Images : CheckImage(d, k, i)
                   \/ \E i \in Images : LockImage(d, k, i)
                   \/ SendReply(d, k)
              \/ \E k \in Nodes, x \in SUBSET net : RestartNode(k, x)
           /\ \/ UNCHANGED apply
              \/ \E d \in Commits, k \in Nodes :
                   \/ \E w \in BOOLEAN : DeliverDecision(d, k, w)
                   \/ \E i \in Images : ApplyImage(d, k, i)
              \/ \E k \in Nodes, x \in SUBSET net : RestartNode(k, x)
<1> USE DEF nodeVars, serverVars
<1>1. CASE UNCHANGED vars
  BY <1>1 DEF vars
<1>2. CASE \E c \in Commits : StartCommit(c) \/ ServerStep(c)
  BY <1>2 DEF ServerStep, StartCommit, SendPrepare, SendDecision, Decide,
              Finish
<1>3. CASE \E c \in Commits, m \in inbox : CollectVote(c, m) \/ Requeue(c, m)
  BY <1>3 DEF CollectVote, Requeue
<1>4. CASE \E c \in Commits, n \in Nodes : NodeStep(c, n)
  <2> PICK c \in Commits, n \in Nodes : NodeStep(c, n)
    BY <1>4
  <2>1. CASE DeliverPrepare(c, n) \/ SendReply(c, n)
    BY <2>1 DEF DeliverPrepare, SendReply
  <2>2. CASE \E v \in BOOLEAN : DeliverDecision(c, n, v) \/ AskUser(c, n, v)
    BY <2>2 DEF DeliverDecision, AskUser
  <2>3. CASE \E i \in Images : CheckImage(c, n, i) \/ LockImage(c, n, i)
    BY <2>3 DEF CheckImage, LockImage
  <2>4. CASE \E i \in Images : ApplyImage(c, n, i)
    BY <2>4 DEF ApplyImage
  <2> QED
    BY <2>1, <2>2, <2>3, <2>4 DEF NodeStep
<1>5. CASE \E m \in net : DeliverToServer(m)
  BY <1>5 DEF DeliverToServer
<1>6. CASE FaultStep
  BY <1>6 DEF FaultStep, Lose, RestartNode, RestartServer, FailWrite
<1> QED
  BY <1>1, <1>2, <1>3, <1>4, <1>5, <1>6 DEF Next

\* The Server only moves forward: what was sent stays sent, and a decision
\* stays what it is.
LEMMA Forward ==
    ASSUME TypeOK, [Next]_vars, NEW c \in Commits, NEW n \in Nodes
    PROVE  /\ PrepareSent(c, n) => PrepareSent(c, n)'
           /\ DecisionSent(c, n) => DecisionSent(c, n)'
           /\ Decided(c) => Decided(c)' /\ coord'[c].canCommit = coord[c].canCommit
                                        /\ coord'[c].votes = coord[c].votes
<1> DEFINE Goal ==
      /\ PrepareSent(c, n) => PrepareSent(c, n)'
      /\ DecisionSent(c, n) => DecisionSent(c, n)'
      /\ Decided(c) => Decided(c)' /\ coord'[c].canCommit = coord[c].canCommit
                                   /\ coord'[c].votes = coord[c].votes
<1> USE DEF PrepareSent, DecisionSent, Decided, NodesOf
<1>0. coord \in [Commits -> Coordinator]
  BY DEF TypeOK
<1>1. ASSUME NEW d \in Commits, StartCommit(d) PROVE Goal
  BY <1>0, <1>1 DEF StartCommit, Running, Coordinator
<1>2. ASSUME NEW d \in Commits, NEW k \in Nodes, SendPrepare(d, k) PROVE Goal
  BY <1>0, <1>2 DEF SendPrepare, Running, Coordinator
<1>3. ASSUME NEW d \in Commits, NEW k \in Nodes, SendDecision(d, k) PROVE Goal
  BY <1>0, <1>3 DEF SendDecision, Running, Coordinator
<1>4. ASSUME NEW d \in Commits, Decide(d) PROVE Goal
  BY <1>0, <1>4 DEF Decide, Running, Coordinator
<1>5. ASSUME NEW d \in Commits, Finish(d) PROVE Goal
  BY <1>0, <1>5 DEF Finish, Running, Coordinator
<1>6. ASSUME NEW d \in Commits, NEW m \in inbox, CollectVote(d, m) PROVE Goal
  BY <1>0, <1>6 DEF CollectVote, Waiting, Running, Coordinator
<1>7. ASSUME NEW d \in Commits, FailWrite(d) PROVE Goal
  BY <1>0, <1>7 DEF FailWrite, Running, Coordinator
<1>8. CASE UNCHANGED coord
  BY <1>8
<1> QED
  BY <1>1, <1>2, <1>3, <1>4, <1>5, <1>6, <1>7, <1>8, Frames

\* Where a message under way, or in the queue, comes from.
LEMMA Sending ==
    ASSUME [Next]_vars, NEW x
    PROVE  /\ x \in net' =>
                \/ x \in net
                \/ \E d \in Commits, k \in Nodes :
                     \/ SendPrepare(d, k) /\ x = Prepare(d, k)
                     \/ /\ SendDecision(d, k)
                        /\ x = Decision(d, k, coord[d].canCommit)
                     \/ /\ SendReply(d, k)
                        /\ x = Reply(d, k, prep[d][k].vote)
                \/ \E d \in Commits : x \in inbox /\ Requeue(d, x)
           /\ x \in inbox' => x \in inbox \/ (x \in net /\ DeliverToServer(x))
<1> USE DEF nodeVars, serverVars
<1>1. CASE UNCHANGED vars
  BY <1>1 DEF vars
<1>2. CASE \E c \in Commits : StartCommit(c) \/ ServerStep(c)
  BY <1>2 DEF ServerStep, StartCommit, SendPrepare, SendDecision, Decide,
              Finish
<1>3. CASE \E c \in Commits, m \in inbox : CollectVote(c, m) \/ Requeue(c, m)
  BY <1>3 DEF CollectVote, Requeue, Resent
<1>4. CASE \E c \in Commits, n \in Nodes : NodeStep(c, n)
  <2> PICK c \in Commits, n \in Nodes : NodeStep(c, n)
    BY <1>4
  <2>1. CASE DeliverPrepare(c, n) \/ SendReply(c, n)
    BY <2>1 DEF DeliverPrepare, SendReply
  <2>2. CASE \E v \in BOOLEAN : DeliverDecision(c, n, v) \/ AskUser(c, n, v)
    BY <2>2 DEF DeliverDecision, AskUser
  <2>3. CASE \E i \in Images : CheckImage(c, n, i) \/ LockImage(c, n, i)
    BY <2>3 DEF CheckImage, LockImage
  <2>4. CASE \E i \in Images : ApplyImage(c, n, i)
    BY <2>4 DEF ApplyImage
  <2> QED
    BY <2>1, <2>2, <2>3, <2>4 DEF NodeStep
<1>5. CASE \E m \in net : DeliverToServer(m)
  BY <1>5 DEF DeliverToServer
<1>6. CASE FaultStep
  BY <1>6 DEF FaultStep, Lose, RestartNode, RestartServer, FailWrite
<1> QED
  BY <1>1, <1>2, <1>3, <1>4, <1>5, <1>6 DEF Next

\* A handler is called once and never starts again.
LEMMA HandlersForward ==
    ASSUME TypeOK, [Next]_vars, NEW c \in Commits, NEW n \in Nodes
    PROVE  /\ prep'[c][n].pc # "none" =>
                prep[c][n].pc # "none" \/ DeliverPrepare(c, n)
           /\ Voted(c, n)' => Voted(c, n) \/ SendReply(c, n)
           /\ prep[c][n].pc # "none" /\ Prepare(c, n) \notin net =>
                prep'[c][n].pc # "none"
           /\ Voted(c, n) /\ Prepare(c, n) \notin net => prep'[c][n] = prep[c][n]
           /\ apply'[c][n].pc # "none" =>
                \/ apply[c][n].pc # "none" /\ apply'[c][n].vote = apply[c][n].vote
                \/ \E w \in BOOLEAN : DeliverDecision(c, n, w)
<1> DEFINE P == /\ prep'[c][n].pc # "none" =>
                     prep[c][n].pc # "none" \/ DeliverPrepare(c, n)
                /\ Voted(c, n)' => Voted(c, n) \/ SendReply(c, n)
                /\ prep[c][n].pc # "none" /\ Prepare(c, n) \notin net =>
                     prep'[c][n].pc # "none"
                /\ Voted(c, n) /\ Prepare(c, n) \notin net =>
                     prep'[c][n] = prep[c][n]
           A == apply'[c][n].pc # "none" =>
                  \/ /\ apply[c][n].pc # "none"
                     /\ apply'[c][n].vote = apply[c][n].vote
                  \/ \E w \in BOOLEAN : DeliverDecision(c, n, w)
<1> USE DEF Voted
<1>0. /\ prep \in [Commits -> [Nodes -> Handler]]
      /\ apply \in [Commits -> [Nodes -> Handler]]
  BY DEF TypeOK
<1>1. ASSUME NEW d \in Commits, NEW k \in Nodes, DeliverPrepare(d, k) PROVE P
  BY <1>0, <1>1 DEF DeliverPrepare
<1>2. ASSUME NEW d \in Commits, NEW k \in Nodes, NEW w \in BOOLEAN,
             AskUser(d, k, w)
      PROVE  P
  BY <1>0, <1>2 DEF AskUser, Checked
<1>3. ASSUME NEW d \in Commits, NEW k \in Nodes, NEW i \in Images,
             CheckImage(d, k, i)
      PROVE  P
  BY <1>0, <1>3 DEF CheckImage
<1>4. ASSUME NEW d \in Commits, NEW k \in Nodes, NEW i \in Images,
             LockImage(d, k, i)
      PROVE  P
  BY <1>0, <1>4 DEF LockImage, Handler
<1>5. ASSUME NEW d \in Commits, NEW k \in Nodes, SendReply(d, k) PROVE P
  <2>1. prep'[d][k].pc = "done" /\ prep[d][k].pc \in {"check", "lock"}
    BY <1>0, <1>5 DEF SendReply, Checked, Handler
  <2>2. d # c \/ k # n => prep'[c][n] = prep[c][n]
    BY <1>0, <1>5 DEF SendReply
  <2>3. CASE d = c /\ k = n
    BY <1>5, <2>1, <2>3
  <2> QED
    BY <2>2, <2>3
<1>6. ASSUME NEW k \in Nodes, NEW x \in SUBSET net, RestartNode(k, x)
      PROVE  P /\ A
  BY <1>0, <1>6 DEF RestartNode, Kill, Handler
<1>7. ASSUME NEW d \in Commits, NEW k \in Nodes, NEW w \in BOOLEAN,
             DeliverDecision(d, k, w)
      PROVE  A
  BY <1>0, <1>7 DEF DeliverDecision
<1>8. ASSUME NEW d \in Commits, NEW k \in Nodes, NEW i \in Images,
             ApplyImage(d, k, i)
      PROVE  A
  BY <1>0, <1>8 DEF ApplyImage
<1>9. P
  BY <1>1, <1>2, <1>3, <1>4, <1>5, <1>6, Frames
<1>10. A
  BY <1>6, <1>7, <1>8, Frames
<1> QED
  BY <1>9, <1>10

\* A PREPARE is handled at most once, after it was sent.
LEMMA PreparesStep ==
    TypeOK /\ Genuine /\ [Next]_vars => PreparesGenuine'
<1> SUFFICES ASSUME TypeOK, Genuine, [Next]_vars,
                    NEW c \in Commits, NEW n \in Nodes
             PROVE  /\ Prepare(c, n) \in net' =>
                         PrepareSent(c, n)' /\ prep'[c][n].pc = "none"
                    /\ prep'[c][n].pc # "none" => PrepareSent(c, n)'
  BY DEF PreparesGenuine, Prepare
<1>0. /\ Prepare(c, n) \in net => PrepareSent(c, n) /\ prep[c][n].pc = "none"
      /\ prep[c][n].pc # "none" => PrepareSent(c, n)
  BY DEF Genuine, PreparesGenuine
<1>1. PrepareSent(c, n) => PrepareSent(c, n)'
  BY Forward
<1>2. prep'[c][n].pc # "none" => PrepareSent(c, n)'
  <2>1. DeliverPrepare(c, n) => Prepare(c, n) \in net
    BY DEF DeliverPrepare
  <2> QED
    BY <1>0, <1>1, <2>1, HandlersForward
<1>3. ASSUME Prepare(c, n) \in net'
      PROVE  PrepareSent(c, n)' /\ prep'[c][n].pc = "none"
  <2>1. ~DeliverPrepare(c, n)
    BY <1>3 DEF DeliverPrepare
  <2>2. CASE Prepare(c, n) \in net
    BY <1>0, <1>1, <2>1, <2>2, HandlersForward
  <2>3. CASE Prepare(c, n) \notin net
    <3>1. SendPrepare(c, n)
      <4>1. ASSUME NEW d \in Commits, NEW k \in Nodes, SendDecision(d, k)
            PROVE  Prepare(c, n) # Decision(d, k, coord[d].canCommit)
        BY DEF Prepare, Decision
      <4>2. ASSUME NEW d \in Commits, NEW k \in Nodes
            PROVE  Prepare(c, n) # Reply(d, k, prep[d][k].vote)
        BY DEF Prepare, Reply
      <4>3. Prepare(c, n) \notin inbox
        BY MessageForms DEF TypeOK
      <4>4. \A d \in Commits, k \in Nodes :
              Prepare(c, n) = Prepare(d, k) => c = d /\ n = k
        BY MessageForms
      <4> QED
        BY <1>3, <2>3, <4>1, <4>2, <4>3, <4>4, Sending
    <3>2. ~PrepareSent(c, n) /\ PrepareSent(c, n)'
      <4>1. coord[c].todo \subseteq NodesOf(c)
        BY DEF Genuine, AsksParticipants
      <4>2. coord \in [Commits -> Coordinator]
        BY DEF TypeOK
      <4> QED
        BY <3>1, <4>1, <4>2
        DEF SendPrepare, PrepareSent, Running, Coordinator, NodesOf
    <3> QED
      BY <1>0, <2>1, <3>2, HandlersForward
  <2> QED
    BY <2>2, <2>3
<1> QED
  BY <1>2, <1>3

\* The Server goes on writing to participants only.
LEMMA AsksStep == TypeOK /\ AsksParticipants /\ [Next]_vars => AsksParticipants'
<1> SUFFICES ASSUME TypeOK, AsksParticipants, [Next]_vars
             PROVE  AsksParticipants'
  OBVIOUS
<1> USE DEF AsksParticipants, Coordinator
<1>0. coord \in [Commits -> Coordinator]
  BY DEF TypeOK
<1>1. ASSUME NEW d \in Commits, StartCommit(d) \/ Decide(d)
      PROVE  AsksParticipants'
  BY <1>0, <1>1 DEF StartCommit, Decide
<1>2. ASSUME NEW d \in Commits, Finish(d) \/ FailWrite(d)
      PROVE  AsksParticipants'
  BY <1>0, <1>2 DEF Finish, FailWrite
<1>3. ASSUME NEW d \in Commits, NEW k \in Nodes,
             SendPrepare(d, k) \/ SendDecision(d, k)
      PROVE  AsksParticipants'
  BY <1>0, <1>3 DEF SendPrepare, SendDecision
<1>4. ASSUME NEW d \in Commits, NEW m \in inbox, CollectVote(d, m)
      PROVE  AsksParticipants'
  BY <1>0, <1>4 DEF CollectVote
<1> QED
  BY <1>1, <1>2, <1>3, <1>4, Frames

\* A reply says what its node voted, and is at one place only.
LEMMA RepliesStep ==
    TypeOK /\ Genuine /\ [Next]_vars => RepliesGenuine'
<1> SUFFICES ASSUME TypeOK, Genuine, [Next]_vars PROVE RepliesGenuine'
  OBVIOUS
<1>1. ASSUME NEW c \in Commits, NEW n \in Nodes, NEW v \in BOOLEAN,
             Reply(c, n, v) \in net' \cup inbox'
      PROVE  Voted(c, n)' /\ prep'[c][n].vote = v
  <2>1. CASE Reply(c, n, v) \in net \cup inbox
    <3>1. Voted(c, n) /\ prep[c][n].vote = v
      BY <2>1 DEF Genuine, RepliesGenuine
    <3>2. Prepare(c, n) \notin net
      BY <3>1 DEF Genuine, PreparesGenuine, Voted
    <3> QED
      BY <3>1, <3>2, HandlersForward DEF Voted
  <2>2. CASE Reply(c, n, v) \notin net \cup inbox
    <3>1. \A d \in Commits, k \in Nodes :
            /\ Reply(c, n, v) # Prepare(d, k)
            /\ Reply(c, n, v) # Decision(d, k, coord[d].canCommit)
      BY DEF Prepare, Decision, Reply
    <3>2. \E d \in Commits, k \in Nodes :
            SendReply(d, k) /\ Reply(c, n, v) = Reply(d, k, prep[d][k].vote)
      BY <1>1, <2>2, <3>1, Sending
    <3>3. SendReply(c, n) /\ v = prep[c][n].vote
      BY <3>2 DEF Reply
    <3> QED
      BY <3>3 DEF SendReply, Voted, TypeOK, Handler
  <2> QED
    BY <2>1, <2>2
<1>2. ASSUME NEW x \in net' \cap inbox' PROVE FALSE
  <2>1. net \cap inbox = {}
    BY DEF Genuine, RepliesGenuine
  <2>2. CASE x \notin inbox
    <3>1. DeliverToServer(x)
      BY <1>2, <2>2, Sending
    <3> QED
      BY <1>2, <3>1 DEF DeliverToServer
  <2>3. CASE x \in inbox
    <3>1. x \notin net /\ x \in Message /\ ToServer(x)
      BY <2>1, <2>3 DEF TypeOK
    <3>2. x = Reply(x.commit, x.node, x.vote) /\ x.commit \in Commits
            /\ x.node \in Nodes /\ x.vote \in BOOLEAN
      BY <3>1, MessageForms DEF Message
    <3>3. Voted(x.commit, x.node)
      BY <2>3, <3>2 DEF Genuine, RepliesGenuine
    <3>4. \A d \in Commits, k \in Nodes :
            /\ x # Prepare(d, k)
            /\ x # Decision(d, k, coord[d].canCommit)
      BY <3>1 DEF Prepare, Decision, ToServer
    <3>5. ASSUME NEW d \in Commits, NEW k \in Nodes, SendReply(d, k),
                 x = Reply(d, k, prep[d][k].vote)
          PROVE  FALSE
      <4>1. x.commit = d /\ x.node = k
        BY <3>5 DEF Reply
      <4> QED
        BY <3>3, <3>5, <4>1 DEF SendReply, Voted, Checked
    <3>6. \A d \in Commits : ~Requeue(d, x)
      BY <1>2 DEF Requeue
    <3> QED
      BY <1>2, <3>1, <3>4, <3>5, <3>6, Sending
  <2> QED
    BY <2>2, <2>3
<1> QED
  BY <1>1, <1>2 DEF RepliesGenuine

\* A DECISION says what was decided and is handled at most once.
LEMMA DecisionsStep ==
    TypeOK /\ Genuine /\ [Next]_vars => DecisionsGenuine'
<1> SUFFICES ASSUME TypeOK, Genuine, [Next]_vars,
                    NEW c \in Commits, NEW n \in Nodes
             PROVE  /\ \A v \in BOOLEAN : Decision(c, n, v) \in net' =>
                         /\ DecisionSent(c, n)'
                         /\ v = coord'[c].canCommit
                         /\ apply'[c][n].pc = "none"
                    /\ apply'[c][n].pc # "none" =>
                         /\ DecisionSent(c, n)'
                         /\ apply'[c][n].vote = coord'[c].canCommit
  BY DEF DecisionsGenuine, Decision
<1>0. /\ \A v \in BOOLEAN : Decision(c, n, v) \in net =>
            /\ DecisionSent(c, n)
            /\ v = coord[c].canCommit
            /\ apply[c][n].pc = "none"
      /\ apply[c][n].pc # "none" =>
            DecisionSent(c, n) /\ apply[c][n].vote = coord[c].canCommit
  BY DEF Genuine, DecisionsGenuine
<1>1. DecisionSent(c, n) => /\ DecisionSent(c, n)'
                            /\ coord'[c].canCommit = coord[c].canCommit
  BY Forward DEF DecisionSent
<1>2. ASSUME NEW v \in BOOLEAN, Decision(c, n, v) \in net'
      PROVE  /\ DecisionSent(c, n)'
             /\ v = coord'[c].canCommit
             /\ apply'[c][n].pc = "none"
  <2>1. CASE Decision(c, n, v) \in net
    <3>1. \A w \in BOOLEAN : ~DeliverDecision(c, n, w)
      BY <1>0, <1>2, <2>1 DEF DeliverDecision
    <3> QED
      BY <1>0, <1>1, <2>1, <3>1, HandlersForward
  <2>2. CASE Decision(c, n, v) \notin net
    <3>1. Decision(c, n, v) \notin inbox
      BY DEF TypeOK, Decision, ToServer
    <3>2. \A d \in Commits, k \in Nodes :
            /\ Decision(c, n, v) # Prepare(d, k)
            /\ Decision(c, n, v) # Reply(d, k, prep[d][k].vote)
      BY DEF Prepare, Decision, Reply
    <3>3. \E d \in Commits, k \in Nodes :
            /\ SendDecision(d, k)
            /\ Decision(c, n, v) = Decision(d, k, coord[d].canCommit)
      BY <1>2, <2>2, <3>1, <3>2, Sending
    <3>4. SendDecision(c, n) /\ v = coord[c].canCommit
      BY <3>3 DEF Decision
    <3>5. coord \in [Commits -> Coordinator] /\ coord[c].todo \subseteq NodesOf(c)
      BY DEF TypeOK, Genuine, AsksParticipants
    <3>6. ~DecisionSent(c, n) /\ DecisionSent(c, n)' /\ v = coord'[c].canCommit
      BY <3>4, <3>5 DEF SendDecision, DecisionSent, Decided, Running,
                        Coordinator, NodesOf
    <3>7. apply[c][n].pc = "none" /\ apply' = apply
      BY <1>0, <3>4, <3>6 DEF SendDecision, nodeVars
    <3> QED
      BY <3>6, <3>7
  <2> QED
    BY <2>1, <2>2
<1>3. ASSUME apply'[c][n].pc # "none"
      PROVE  DecisionSent(c, n)' /\ apply'[c][n].vote = coord'[c].canCommit
  <2>1. CASE apply[c][n].pc # "none" /\ apply'[c][n].vote = apply[c][n].vote
    BY <1>0, <1>1, <2>1
  <2>2. ASSUME NEW w \in BOOLEAN, DeliverDecision(c, n, w)
        PROVE  DecisionSent(c, n)' /\ apply'[c][n].vote = coord'[c].canCommit
    BY <1>0, <1>1, <2>2 DEF DeliverDecision, TypeOK
  <2> QED
    BY <1>3, <2>1, <2>2, HandlersForward
<1> QED
  BY <1>2, <1>3

\* Genuine is inductive.
LEMMA GenuineStep == TypeOK /\ Genuine /\ [Next]_vars => Genuine'
BY PreparesStep, RepliesStep, DecisionsStep, AsksStep DEF Genuine

\* Nothing is under way in the beginning.
LEMMA GenuineInit == Init => Genuine
BY CommitsAssumption DEF Init, Genuine, PreparesGenuine, RepliesGenuine, DecisionsGenuine,
   AsksParticipants, NotCalled, NodesOf

-----------------------------------------------------------------------------
\* A vote that was cast stays.
LEMMA VotesStay ==
    ASSUME TypeOK, Genuine, [Next]_vars, NEW c \in Commits, NEW n \in Nodes,
           Voted(c, n)
    PROVE  Voted(c, n)' /\ prep'[c][n] = prep[c][n]
<1>1. Prepare(c, n) \notin net
  BY DEF Genuine, PreparesGenuine, Voted
<1> QED
  BY <1>1, HandlersForward DEF Voted

\* Nodes that were heard of stay so.
LEMMA HeardGrows ==
    ASSUME TypeOK, Genuine, [Next]_vars, NEW c \in Commits
    PROVE  Heard(c) \subseteq Heard(c)' /\ HeardYes(c) \subseteq HeardYes(c)'
<1>1. ASSUME NEW n \in Heard(c)
      PROVE  n \in Heard(c)' /\ prep'[c][n] = prep[c][n]
  <2>1. n \in Nodes /\ n \in NodesOf(c) /\ Voted(c, n) /\ ~InTransit(c, n)
    BY Participants DEF Heard
  <2>2. Voted(c, n)' /\ prep'[c][n] = prep[c][n]
    BY <2>1, VotesStay
  <2>3. ASSUME NEW v \in BOOLEAN, Reply(c, n, v) \in net' \cup inbox'
        PROVE  FALSE
    <3>1. Reply(c, n, v) \notin net \cup inbox
      BY <2>1 DEF InTransit
    <3>2. \A d \in Commits, k \in Nodes :
            /\ Reply(c, n, v) # Prepare(d, k)
            /\ Reply(c, n, v) # Decision(d, k, coord[d].canCommit)
      BY DEF Prepare, Decision, Reply
    <3>3. \E d \in Commits, k \in Nodes :
            SendReply(d, k) /\ Reply(c, n, v) = Reply(d, k, prep[d][k].vote)
      BY <2>3, <3>1, <3>2, Sending
    <3>4. SendReply(c, n)
      BY <3>3 DEF Reply
    <3> QED
      BY <2>1, <3>4 DEF SendReply, Checked, Voted
  <2>4. NodesOf(c)' = NodesOf(c)
    BY DEF NodesOf
  <2> QED
    BY <2>1, <2>2, <2>3, <2>4 DEF Heard, InTransit
<1> QED
  BY <1>1 DEF HeardYes, Heard

\* How many were heard of is a number.
LEMMA HeardFinite ==
    ASSUME NEW c \in Commits
    PROVE  /\ IsFiniteSet(Heard(c)) /\ Cardinality(Heard(c)) \in Nat
           /\ IsFiniteSet(HeardYes(c)) /\ Cardinality(HeardYes(c)) \in Nat
<1>1. Heard(c) \subseteq NodesOf(c) /\ HeardYes(c) \subseteq NodesOf(c)
  BY DEF Heard, HeardYes
<1> QED
  BY <1>1, Participants, FS_Subset, FS_CardinalityType

\* Taking a vote out of the queue adds its node to those heard of.
LEMMA CollectHeard ==
    ASSUME DistinctNames, TypeOK, Genuine, [Next]_vars,
           NEW c \in Commits, NEW m \in inbox, CollectVote(c, m)
    PROVE  /\ m.node \in NodesOf(c) /\ m.vote \in BOOLEAN
           /\ Voted(c, m.node)' /\ prep'[c][m.node].vote = m.vote
           /\ m.node \notin Heard(c) /\ m.node \in Heard(c)'
<1>1. m \in Message /\ ToServer(m)
  BY DEF TypeOK
<1>2. m = Reply(m.commit, m.node, m.vote)
  BY <1>1, MessageForms
<1>3. m.commit \in Commits /\ m.node \in Nodes /\ m.vote \in BOOLEAN
  BY <1>1 DEF Message
<1>4. m.commit = c
  BY <1>3 DEF CollectVote, SameCollage, DistinctNames
<1> DEFINE k == m.node
<1>5. m = Reply(c, k, m.vote)
  BY <1>2, <1>4
<1>6. Voted(c, k) /\ prep[c][k].vote = m.vote
  BY <1>3, <1>5 DEF Genuine, RepliesGenuine
<1>7. k \in NodesOf(c)
  BY <1>3, <1>6 DEF Genuine, PreparesGenuine, PrepareSent, Voted
<1>8. prep' = prep /\ net' = net /\ inbox' = inbox \ {m}
  BY DEF CollectVote, nodeVars
<1>9. k \notin Heard(c)
  BY <1>3, <1>5 DEF Heard, InTransit
<1>10. ASSUME NEW v \in BOOLEAN, Reply(c, k, v) \in net' \cup inbox'
       PROVE  FALSE
  <2>1. Reply(c, k, v) \in net \cup inbox
    BY <1>8, <1>10
  <2>2. v = m.vote
    BY <1>3, <1>6, <2>1 DEF Genuine, RepliesGenuine
  <2>3. m \in net
    BY <1>5, <1>8, <1>10, <2>2
  <2> QED
    BY <2>3 DEF Genuine, RepliesGenuine
<1>11. k \in Heard(c)'
  BY <1>6, <1>7, <1>8, <1>10 DEF Heard, InTransit, Voted, NodesOf
<1> QED
  BY <1>3, <1>6, <1>7, <1>8, <1>9, <1>11 DEF Voted

\* What the threads count, when the count changes.
LEMMA Counting ==
    ASSUME TypeOK, [Next]_vars, NEW c \in Commits
    PROVE  \/ /\ coord'[c].votes = coord[c].votes
              /\ coord'[c].canCommit = coord[c].canCommit
              /\ coord'[c].pc = "idle" => coord[c].pc = "idle"
              /\ Decided(c)' => Decided(c) \/ AllVotes(c)
           \/ /\ coord'[c].votes = 0
              /\ coord'[c].canCommit
              /\ coord'[c].pc = "prepare"
           \/ \E m \in inbox :
                /\ CollectVote(c, m)
                /\ coord'[c].votes = coord[c].votes + 1
                /\ coord'[c].canCommit = (coord[c].canCommit /\ m.vote)
                /\ coord'[c].pc = "prepare"
<1> DEFINE Same == /\ coord'[c].votes = coord[c].votes
                   /\ coord'[c].canCommit = coord[c].canCommit
                   /\ coord'[c].pc = "idle" => coord[c].pc = "idle"
                   /\ Decided(c)' => Decided(c) \/ AllVotes(c)
           Start == /\ coord'[c].votes = 0
                    /\ coord'[c].canCommit
                    /\ coord'[c].pc = "prepare"
<1> USE DEF Decided
<1>0. coord \in [Commits -> Coordinator]
  BY DEF TypeOK
<1>1. ASSUME NEW d \in Commits, StartCommit(d) PROVE Same \/ Start
  BY <1>0, <1>1 DEF StartCommit, Coordinator
<1>2. ASSUME NEW d \in Commits, Decide(d) PROVE Same
  BY <1>0, <1>2 DEF Decide, Coordinator
<1>3. ASSUME NEW d \in Commits, Finish(d) \/ FailWrite(d) PROVE Same
  BY <1>0, <1>3 DEF Finish, FailWrite, Running, Coordinator
<1>4. ASSUME NEW d \in Commits, NEW k \in Nodes,
             SendPrepare(d, k) \/ SendDecision(d, k)
      PROVE  Same
  BY <1>0, <1>4 DEF SendPrepare, SendDecision, Running, Coordinator
<1>5. ASSUME NEW d \in Commits, NEW m \in inbox, CollectVote(d, m), d # c
      PROVE  Same
  BY <1>0, <1>5 DEF CollectVote, Coordinator
<1>6. ASSUME NEW m \in inbox, CollectVote(c, m)
      PROVE  /\ coord'[c].votes = coord[c].votes + 1
             /\ coord'[c].canCommit = (coord[c].canCommit /\ m.vote)
             /\ coord'[c].pc = "prepare"
  BY <1>0, <1>6 DEF CollectVote, Waiting, Running, Coordinator
<1>7. CASE UNCHANGED coord
  BY <1>7
<1> QED
  BY <1>1, <1>2, <1>3, <1>4, <1>5, <1>6, <1>7, Frames

\* CountsRight is inductive, as long as no two commits share a file name.
LEMMA CountsStep ==
    ASSUME DistinctNames, TypeOK, Genuine, CountsRight, [Next]_vars
    PROVE  CountsRight'
<1> SUFFICES ASSUME NEW c \in Commits
             PROVE  /\ coord'[c].votes <= Cardinality(Heard(c)')
                    /\ coord'[c].canCommit =>
                         coord'[c].votes <= Cardinality(HeardYes(c)')
                    /\ ~coord'[c].canCommit =>
                         \E n \in NodesOf(c) : Voted(c, n)' /\ ~prep'[c][n].vote
                    /\ coord'[c].pc = "idle" => coord'[c].canCommit
                    /\ Decided(c)' => AllVotes(c)'
  BY DEF CountsRight, NodesOf
<1>0. /\ coord[c].votes <= Cardinality(Heard(c))
      /\ coord[c].canCommit => coord[c].votes <= Cardinality(HeardYes(c))
      /\ ~coord[c].canCommit =>
           \E n \in NodesOf(c) : Voted(c, n) /\ ~prep[c][n].vote
      /\ coord[c].pc = "idle" => coord[c].canCommit
      /\ Decided(c) => AllVotes(c)
  BY DEF CountsRight
<1>1. /\ IsFiniteSet(Heard(c)) /\ Cardinality(Heard(c)) \in Nat
      /\ IsFiniteSet(HeardYes(c)) /\ Cardinality(HeardYes(c)) \in Nat
  BY HeardFinite
<1>2. /\ IsFiniteSet(Heard(c)') /\ Cardinality(Heard(c)') \in Nat
      /\ IsFiniteSet(HeardYes(c)') /\ Cardinality(HeardYes(c)') \in Nat
  <2>1. NodesOf(c)' = NodesOf(c)
    BY DEF NodesOf
  <2>2. Heard(c)' \subseteq NodesOf(c) /\ HeardYes(c)' \subseteq NodesOf(c)
    BY <2>1 DEF Heard, HeardYes
  <2> QED
    BY <2>2, Participants, FS_Subset, FS_CardinalityType
<1>3. /\ Cardinality(Heard(c)) <= Cardinality(Heard(c)')
      /\ Cardinality(HeardYes(c)) <= Cardinality(HeardYes(c)')
  BY <1>2, HeardGrows, FS_Subset
<1>4. coord[c].votes \in Nat /\ coord[c].canCommit \in BOOLEAN
  BY DEF TypeOK, Coordinator
<1>5. (\E n \in NodesOf(c) : Voted(c, n) /\ ~prep[c][n].vote) =>
        \E n \in NodesOf(c) : Voted(c, n)' /\ ~prep'[c][n].vote
  BY Participants, VotesStay
<1>6. CASE /\ coord'[c].votes = coord[c].votes
           /\ coord'[c].canCommit = coord[c].canCommit
           /\ coord'[c].pc = "idle" => coord[c].pc = "idle"
           /\ Decided(c)' => Decided(c) \/ AllVotes(c)
  <2>1. AllVotes(c) => AllVotes(c)'
    BY <1>6 DEF AllVotes, NodesOf
  <2> QED
    BY <1>0, <1>1, <1>2, <1>3, <1>4, <1>5, <1>6, <2>1
<1>7. CASE /\ coord'[c].votes = 0
           /\ coord'[c].canCommit
           /\ coord'[c].pc = "prepare"
  BY <1>2, <1>7 DEF Decided
<1>8. ASSUME NEW m \in inbox,
             CollectVote(c, m),
             coord'[c].votes = coord[c].votes + 1,
             coord'[c].canCommit = (coord[c].canCommit /\ m.vote),
             coord'[c].pc = "prepare"
      PROVE  /\ coord'[c].votes <= Cardinality(Heard(c)')
             /\ coord'[c].canCommit =>
                  coord'[c].votes <= Cardinality(HeardYes(c)')
             /\ ~coord'[c].canCommit =>
                  \E n \in NodesOf(c) : Voted(c, n)' /\ ~prep'[c][n].vote
  <2> DEFINE k == m.node
  <2>1. /\ k \in NodesOf(c) /\ m.vote \in BOOLEAN
        /\ Voted(c, k)' /\ prep'[c][k].vote = m.vote
        /\ k \notin Heard(c) /\ k \in Heard(c)'
    BY <1>8, CollectHeard
  <2>2. Cardinality(Heard(c)) + 1 <= Cardinality(Heard(c)')
    <3>1. Cardinality(Heard(c) \cup {k}) = Cardinality(Heard(c)) + 1
      BY <1>1, <2>1, FS_AddElement
    <3>2. Heard(c) \cup {k} \subseteq Heard(c)'
      BY <2>1, HeardGrows
    <3>3. Cardinality(Heard(c) \cup {k}) <= Cardinality(Heard(c)')
      BY <1>2, <3>2, FS_Subset
    <3> QED
      BY <3>1, <3>3
  <2>3. ASSUME m.vote
        PROVE  Cardinality(HeardYes(c)) + 1 <= Cardinality(HeardYes(c)')
    <3>1. k \notin HeardYes(c) /\ k \in HeardYes(c)'
      BY <2>1, <2>3 DEF HeardYes
    <3>2. Cardinality(HeardYes(c) \cup {k}) = Cardinality(HeardYes(c)) + 1
      BY <1>1, <3>1, FS_AddElement
    <3>3. HeardYes(c) \cup {k} \subseteq HeardYes(c)'
      BY <3>1, HeardGrows
    <3>4. Cardinality(HeardYes(c) \cup {k}) <= Cardinality(HeardYes(c)')
      BY <1>2, <3>3, FS_Subset
    <3> QED
      BY <3>2, <3>4
  <2>4. coord'[c].votes <= Cardinality(Heard(c)')
    BY <1>0, <1>1, <1>2, <1>4, <1>8, <2>2
  <2>5. ASSUME coord'[c].canCommit
        PROVE  coord'[c].votes <= Cardinality(HeardYes(c)')
    <3>1. coord[c].canCommit /\ m.vote
      BY <1>8, <2>5
    <3>2. coord[c].votes <= Cardinality(HeardYes(c))
      BY <1>0, <3>1
    <3> QED
      BY <1>1, <1>2, <1>4, <1>8, <2>3, <3>1, <3>2
  <2>6. ASSUME ~coord'[c].canCommit
        PROVE  \E n \in NodesOf(c) : Voted(c, n)' /\ ~prep'[c][n].vote
    BY <1>0, <1>5, <1>8, <2>1, <2>6
  <2> QED
    BY <2>4, <2>5, <2>6
<1> QED
  BY <1>6, <1>7, <1>8, Counting DEF Decided

\* Nothing is counted in the beginning.
LEMMA CountsInit == Init => CountsRight
<1> SUFFICES ASSUME Init, NEW c \in Commits
             PROVE  /\ 0 <= Cardinality(Heard(c))
                    /\ 0 <= Cardinality(HeardYes(c))
  BY DEF Init, CountsRight, Decided
<1> QED
  BY HeardFinite

\* The counts decide for the nodes: all votes counted means all nodes heard.
LEMMA CountsGiveUnanimity == TypeOK /\ CountsRight => Unanimity
<1> SUFFICES ASSUME TypeOK, CountsRight, NEW c \in Commits, Decided(c),
                    NEW n \in NodesOf(c)
             PROVE  Voted(c, n) /\ (coord[c].canCommit => VotedYes(c, n))
  BY DEF Unanimity
<1>1. /\ coord[c].votes <= Cardinality(Heard(c))
      /\ coord[c].canCommit => coord[c].votes <= Cardinality(HeardYes(c))
      /\ coord[c].votes >= Cardinality(NodesOf(c))
      /\ coord[c].votes \in Nat
  BY DEF CountsRight, AllVotes, TypeOK, Coordinator
<1>2. Heard(c) \subseteq NodesOf(c) /\ HeardYes(c) \subseteq NodesOf(c)
  BY DEF Heard, HeardYes
<1>3. /\ Cardinality(Heard(c)) \in Nat /\ Cardinality(HeardYes(c)) \in Nat
      /\ Cardinality(NodesOf(c)) \in Nat /\ IsFiniteSet(NodesOf(c))
  BY HeardFinite, Participants
<1>4. /\ Cardinality(Heard(c)) <= Cardinality(NodesOf(c))
      /\ Cardinality(HeardYes(c)) <= Cardinality(NodesOf(c))
  BY <1>2, <1>3, FS_Subset
<1>5. Heard(c) = NodesOf(c)
  <2>1. Cardinality(NodesOf(c)) = Cardinality(Heard(c))
    BY <1>1, <1>3, <1>4
  <2> QED
    BY <1>2, <1>3, <2>1, FS_Subset
<1>6. coord[c].canCommit => HeardYes(c) = NodesOf(c)
  <2>1. coord[c].canCommit =>
          Cardinality(NodesOf(c)) = Cardinality(HeardYes(c))
    BY <1>1, <1>3, <1>4
  <2> QED
    BY <1>2, <1>3, <2>1, FS_Subset
<1> QED
  BY <1>5, <1>6 DEF Heard, HeardYes, VotedYes

\* The inductive invariant.
IInv == TypeOK /\ Genuine /\ CountsRight

\* It holds in every state.
LEMMA Inductive == ASSUME DistinctNames PROVE Spec => []IInv
<1>1. Init => IInv
  BY CommitsAssumption, GenuineInit, CountsInit
  DEF Init, IInv, TypeOK, Coordinator, Handler, NotCalled
<1>2. IInv /\ [Next]_vars => IInv'
  BY Typing, GenuineStep, CountsStep DEF IInv
<1> QED
  BY <1>1, <1>2, PTL DEF Spec

\* Decisions are unanimous: a commit is decided on the votes of all its own
\* nodes and positively on nothing but YES, whatever is lost or restarted, as
\* long as no two commits have the same file name.
THEOREM UnanimityHolds == ASSUME DistinctNames PROVE Spec => []Unanimity
<1>1. IInv => Unanimity
  BY CountsGiveUnanimity DEF IInv
<1> QED
  BY <1>1, Inductive, PTL

-----------------------------------------------------------------------------
(* Locks                                                                   *)

\* The loops of a handler run over images of its own node and commit, and
\* only a handler that is going to vote YES locks any.
HandlersRight ==
    \A c \in Commits, n \in Nodes :
      /\ prep[c][n].todo \subseteq LocalImages(c, n)
      /\ apply[c][n].todo \subseteq LocalImages(c, n)
      /\ prep[c][n].pc = "lock" => prep[c][n].vote

\* HandlersRight is inductive.
LEMMA HandlersStep ==
    ASSUME TypeOK, HandlersRight, [Next]_vars PROVE HandlersRight'
<1> USE DEF HandlersRight
<1>0. /\ prep \in [Commits -> [Nodes -> Handler]]
      /\ apply \in [Commits -> [Nodes -> Handler]]
      /\ \A c \in Commits, n \in Nodes : LocalImages(c, n)' = LocalImages(c, n)
  BY DEF TypeOK, LocalImages
<1> DEFINE P(c, n) == /\ prep'[c][n].todo \subseteq LocalImages(c, n)
                      /\ prep'[c][n].pc = "lock" => prep'[c][n].vote
           A(c, n) == apply'[c][n].todo \subseteq LocalImages(c, n)
<1> SUFFICES ASSUME NEW c \in Commits, NEW n \in Nodes
             PROVE  P(c, n) /\ A(c, n)
  BY <1>0
<1>1. ASSUME NEW d \in Commits, NEW k \in Nodes, DeliverPrepare(d, k)
      PROVE  P(c, n)
  BY <1>0, <1>1 DEF DeliverPrepare
<1>2. ASSUME NEW d \in Commits, NEW k \in Nodes, NEW w \in BOOLEAN,
             AskUser(d, k, w)
      PROVE  P(c, n)
  BY <1>0, <1>2 DEF AskUser
<1>3. ASSUME NEW d \in Commits, NEW k \in Nodes, NEW i \in Images,
             CheckImage(d, k, i)
      PROVE  P(c, n)
  BY <1>0, <1>3 DEF CheckImage
<1>4. ASSUME NEW d \in Commits, NEW k \in Nodes, NEW i \in Images,
             LockImage(d, k, i)
      PROVE  P(c, n)
  BY <1>0, <1>4 DEF LockImage, Handler
<1>5. ASSUME NEW d \in Commits, NEW k \in Nodes, SendReply(d, k)
      PROVE  P(c, n)
  BY <1>0, <1>5 DEF SendReply, Handler
<1>6. ASSUME NEW k \in Nodes, NEW x \in SUBSET net, RestartNode(k, x)
      PROVE  P(c, n) /\ A(c, n)
  BY <1>0, <1>6 DEF RestartNode, Kill, Handler
<1>7. ASSUME NEW d \in Commits, NEW k \in Nodes, NEW w \in BOOLEAN,
             DeliverDecision(d, k, w)
      PROVE  A(c, n)
  BY <1>0, <1>7 DEF DeliverDecision
<1>8. ASSUME NEW d \in Commits, NEW k \in Nodes, NEW i \in Images,
             ApplyImage(d, k, i)
      PROVE  A(c, n)
  BY <1>0, <1>8 DEF ApplyImage
<1>9. P(c, n)
  BY <1>1, <1>2, <1>3, <1>4, <1>5, <1>6, Frames
<1>10. A(c, n)
  BY <1>6, <1>7, <1>8, Frames
<1> QED
  BY <1>9, <1>10

\* Who holds a lock goes on holding it until the image is unlocked.
LEMMA HoldersStay ==
    ASSUME IInv, Unanimity, HandlersRight, [Next]_vars,
           NEW c \in Commits, NEW i \in lockedImgs, i \in lockedImgs', Holds(c, i)
    PROVE  Holds(c, i)'
<1> DEFINE n == Owner[i]
           Locking == prep[c][n].pc = "lock" /\ i \notin prep[c][n].todo
           Applying == apply[c][n].pc = "apply" /\ i \in apply[c][n].todo
<1>0. /\ i \in Images /\ n \in Nodes /\ i \in Sources[c]
      /\ prep \in [Commits -> [Nodes -> Handler]]
      /\ apply \in [Commits -> [Nodes -> Handler]]
      /\ i \in LocalImages(c, n)
  BY CommitsAssumption DEF IInv, TypeOK, Holds, LocalImages
<1>1. Locking \/ VotedYes(c, n)
  BY DEF Holds
<1>2. Locking' \/ VotedYes(c, n)'
  <2>1. Prepare(c, n) \notin net
    BY <1>0, <1>1 DEF IInv, Genuine, PreparesGenuine, VotedYes, Voted
  <2>2. CASE VotedYes(c, n)
    BY <1>0, <2>2, VotesStay DEF VotedYes, IInv
  <2>3. CASE Locking
    <3>1. ASSUME NEW d \in Commits, NEW k \in Nodes, DeliverPrepare(d, k)
          PROVE  Locking'
      BY <1>0, <2>1, <2>3, <3>1 DEF DeliverPrepare
    <3>2. ASSUME NEW d \in Commits, NEW k \in Nodes, NEW w \in BOOLEAN,
                 AskUser(d, k, w)
          PROVE  Locking'
      BY <1>0, <2>3, <3>2 DEF AskUser, Checked
    <3>3. ASSUME NEW d \in Commits, NEW k \in Nodes, NEW j \in Images,
                 CheckImage(d, k, j)
          PROVE  Locking'
      BY <1>0, <2>3, <3>3 DEF CheckImage
    <3>4. ASSUME NEW d \in Commits, NEW k \in Nodes, NEW j \in Images,
                 LockImage(d, k, j)
          PROVE  Locking'
      BY <1>0, <2>3, <3>4 DEF LockImage, Handler
    <3>5. ASSUME NEW d \in Commits, NEW k \in Nodes, SendReply(d, k)
          PROVE  Locking' \/ VotedYes(c, n)'
      BY <1>0, <2>3, <3>5 DEF SendReply, Handler, VotedYes, Voted, HandlersRight
    <3>6. ASSUME NEW k \in Nodes, NEW x \in SUBSET net, RestartNode(k, x)
          PROVE  Locking'
      BY <1>0, <2>3, <3>6 DEF RestartNode, Kill, Handler
    <3>7. CASE UNCHANGED prep
      BY <2>3, <3>7
    <3> QED
      BY <3>1, <3>2, <3>3, <3>4, <3>5, <3>6, <3>7, Frames
  <2> QED
    BY <1>1, <2>2, <2>3
<1>3. apply[c][n].pc = "none" \/ Applying
  BY DEF Holds
<1>4. apply'[c][n].pc = "none" \/ Applying'
  <2>1. ASSUME NEW d \in Commits, NEW k \in Nodes, NEW w \in BOOLEAN,
               DeliverDecision(d, k, w)
        PROVE  apply'[c][n].pc = "none" \/ Applying'
    BY <1>0, <1>3, <2>1 DEF DeliverDecision
  <2>2. ASSUME NEW d \in Commits, NEW k \in Nodes, NEW j \in Images,
               ApplyImage(d, k, j)
        PROVE  apply'[c][n].pc = "none" \/ Applying'
    <3>1. j # i
      BY <2>2 DEF ApplyImage, Unlocked
    <3> QED
      BY <1>0, <1>3, <2>2, <3>1 DEF ApplyImage
  <2>3. ASSUME NEW k \in Nodes, NEW x \in SUBSET net, RestartNode(k, x)
        PROVE  apply'[c][n].pc = "none" \/ Applying'
    BY <1>0, <1>3, <2>3 DEF RestartNode, Kill, Handler
  <2>4. CASE UNCHANGED apply
    BY <1>3, <2>4
  <2> QED
    BY <2>1, <2>2, <2>3, <2>4, Frames
<1> QED
  BY <1>0, <1>2, <1>4 DEF Holds

\* Where a lock comes from.
LEMMA Locking ==
    ASSUME [Next]_vars, NEW i \in lockedImgs', i \notin lockedImgs
    PROVE  \E c \in Commits, n \in Nodes : LockImage(c, n, i)
<1> USE DEF nodeVars, serverVars
<1>1. CASE UNCHANGED vars
  BY <1>1 DEF vars
<1>2. CASE \E c \in Commits : StartCommit(c) \/ ServerStep(c)
  BY <1>2 DEF ServerStep, StartCommit, SendPrepare, SendDecision, Decide,
              Finish
<1>3. CASE \E c \in Commits, m \in inbox : CollectVote(c, m) \/ Requeue(c, m)
  BY <1>3 DEF CollectVote, Requeue
<1>4. CASE \E c \in Commits, n \in Nodes : NodeStep(c, n)
  <2> PICK c \in Commits, n \in Nodes : NodeStep(c, n)
    BY <1>4
  <2>1. CASE DeliverPrepare(c, n) \/ SendReply(c, n)
    BY <2>1 DEF DeliverPrepare, SendReply
  <2>2. CASE \E v \in BOOLEAN : DeliverDecision(c, n, v) \/ AskUser(c, n, v)
    BY <2>2 DEF DeliverDecision, AskUser
  <2>3. CASE \E j \in Images : CheckImage(c, n, j) \/ LockImage(c, n, j)
    BY <2>3 DEF CheckImage, LockImage, Locked
  <2>4. CASE \E j \in Images : ApplyImage(c, n, j)
    BY <2>4 DEF ApplyImage, Unlocked
  <2> QED
    BY <2>1, <2>2, <2>3, <2>4 DEF NodeStep
<1>5. CASE \E m \in net : DeliverToServer(m)
  BY <1>5 DEF DeliverToServer
<1>6. CASE FaultStep
  BY <1>6 DEF FaultStep, Lose, RestartNode, RestartServer, FailWrite
<1> QED
  BY <1>1, <1>2, <1>3, <1>4, <1>5, <1>6 DEF Next

\* LocksHaveOwners is preserved.
LEMMA LocksStep ==
    ASSUME IInv, Unanimity, HandlersRight, LocksHaveOwners, [Next]_vars
    PROVE  LocksHaveOwners'
<1> SUFFICES ASSUME NEW i \in lockedImgs'
             PROVE  \E c \in Commits : Holds(c, i)'
  BY DEF LocksHaveOwners
<1>1. CASE i \in lockedImgs
  BY <1>1, HoldersStay DEF LocksHaveOwners
<1>2. CASE i \notin lockedImgs
  <2>1. PICK c \in Commits, n \in Nodes : LockImage(c, n, i)
    BY <1>2, Locking
  <2>2. /\ prep \in [Commits -> [Nodes -> Handler]]
        /\ apply \in [Commits -> [Nodes -> Handler]]
    BY DEF IInv, TypeOK
  <2>3. i \in LocalImages(c, n) /\ prep[c][n].pc = "lock"
    BY <2>1 DEF LockImage, HandlersRight
  <2>4. i \in Sources[c] /\ Owner[i] = n
    BY <2>3 DEF LocalImages
  <2>5. apply[c][n].pc = "none"
    <3>1. n \in NodesOf(c)
      BY <2>4 DEF NodesOf
    <3>2. Decided(c) => prep[c][n].pc = "done"
      BY <3>1 DEF Unanimity, Voted
    <3> QED
      BY <2>3, <3>2 DEF IInv, Genuine, DecisionsGenuine, DecisionSent
  <2>6. apply' = apply /\ prep'[c][n].pc = "lock" /\ i \notin prep'[c][n].todo
    BY <2>1, <2>2, <2>3 DEF LockImage, Handler
  <2> QED
    BY <2>4, <2>5, <2>6 DEF Holds
<1> QED
  BY <1>1, <1>2

\* No lock is left behind: every locked image has a commit that will take it
\* out, even when nodes restart and messages are lost.
THEOREM LocksHaveOwnersHolds ==
    ASSUME DistinctNames PROVE Spec => []LocksHaveOwners
<1>1. Init => HandlersRight /\ LocksHaveOwners
  BY DEF Init, HandlersRight, LocksHaveOwners, NotCalled
<1>2. IInv => TypeOK /\ Unanimity
  BY CountsGiveUnanimity DEF IInv
<1>3. IInv /\ HandlersRight /\ LocksHaveOwners /\ [Next]_vars
        => HandlersRight' /\ LocksHaveOwners'
  BY <1>2, HandlersStep, LocksStep
<1> QED
  BY <1>1, <1>3, Inductive, PTL DEF Spec

\* HandlersRight holds in every state.
LEMMA HandlersRightHolds == Spec => []HandlersRight
<1>1. Init => HandlersRight
  BY DEF Init, HandlersRight, NotCalled
<1>2. TypeOK /\ HandlersRight /\ [Next]_vars => HandlersRight'
  BY HandlersStep
<1> QED
  BY <1>1, <1>2, TypeCorrect, PTL DEF Spec

\* Who deletes an image.
LEMMA Deleting ==
    ASSUME [Next]_vars, NEW i \in files \ files'
    PROVE  \E c \in Commits, n \in Nodes :
             ApplyImage(c, n, i) /\ apply[c][n].vote
<1> USE DEF nodeVars, serverVars
<1>1. CASE UNCHANGED vars
  BY <1>1 DEF vars
<1>2. CASE \E c \in Commits : StartCommit(c) \/ ServerStep(c)
  BY <1>2 DEF ServerStep, StartCommit, SendPrepare, SendDecision, Decide,
              Finish
<1>3. CASE \E c \in Commits, m \in inbox : CollectVote(c, m) \/ Requeue(c, m)
  BY <1>3 DEF CollectVote, Requeue
<1>4. CASE \E c \in Commits, n \in Nodes : NodeStep(c, n)
  <2> PICK c \in Commits, n \in Nodes : NodeStep(c, n)
    BY <1>4
  <2>1. CASE DeliverPrepare(c, n) \/ SendReply(c, n)
    BY <2>1 DEF DeliverPrepare, SendReply
  <2>2. CASE \E v \in BOOLEAN : DeliverDecision(c, n, v) \/ AskUser(c, n, v)
    BY <2>2 DEF DeliverDecision, AskUser
  <2>3. CASE \E j \in Images : CheckImage(c, n, j) \/ LockImage(c, n, j)
    BY <2>3 DEF CheckImage, LockImage
  <2>4. CASE \E j \in Images : ApplyImage(c, n, j)
    BY <2>4 DEF ApplyImage, Deleted
  <2> QED
    BY <2>1, <2>2, <2>3, <2>4 DEF NodeStep
<1>5. CASE \E m \in net : DeliverToServer(m)
  BY <1>5 DEF DeliverToServer
<1>6. CASE FaultStep
  BY <1>6 DEF FaultStep, Lose, RestartNode, RestartServer, FailWrite
<1> QED
  BY <1>1, <1>2, <1>3, <1>4, <1>5, <1>6 DEF Next

\* A source is deleted only for a commit every one of its nodes agreed to.
THEOREM ConsentHolds ==
    ASSUME DistinctNames PROVE Spec => SourcesGoOnlyWithConsent
<1>1. ASSUME IInv, HandlersRight, [Next]_vars, NEW i \in files \ files'
      PROVE  \E c \in Commits : /\ i \in Sources[c]
                                /\ Committed(c)
                                /\ \A n \in NodesOf(c) : VotedYes(c, n)
  <2>1. PICK c \in Commits, n \in Nodes :
          ApplyImage(c, n, i) /\ apply[c][n].vote
    BY <1>1, Deleting
  <2>2. i \in Sources[c]
    BY <1>1, <2>1 DEF ApplyImage, HandlersRight, LocalImages
  <2>3. Committed(c)
    BY <1>1, <2>1
    DEF ApplyImage, IInv, Genuine, DecisionsGenuine, DecisionSent, Committed
  <2>4. Unanimity
    BY <1>1, CountsGiveUnanimity DEF IInv
  <2> QED
    BY <2>2, <2>3, <2>4 DEF Unanimity, Committed
<1>2. IInv /\ HandlersRight /\ [Next]_vars =>
        [\A i \in files \ files' : \E c \in Commits :
           /\ i \in Sources[c]
           /\ Committed(c)
           /\ \A n \in NodesOf(c) : VotedYes(c, n)]_vars
  BY <1>1
<1> QED
  BY <1>2, Inductive, HandlersRightHolds, PTL
  DEF Spec, SourcesGoOnlyWithConsent

-----------------------------------------------------------------------------
(* The protocol is an atomic commitment                                    *)


\* Which steps the abstract commitment sees: a vote is cast by the reply that
\* carries it, decided on by Decide, obeyed when the DECISION is delivered.
LEMMA Visible ==
    ASSUME IInv, [Next]_vars
    PROVE  /\ \A c \in Commits, n \in Nodes :
                \/ Ballot(c, n)' = Ballot(c, n)
                \/ SendReply(c, n)
           /\ \A c \in Commits, n \in Nodes :
                \/ Obeyed(c, n)' = Obeyed(c, n)
                \/ \E w \in BOOLEAN : DeliverDecision(c, n, w)
           /\ \A c \in Commits : Outcome(c)' = Outcome(c) \/ Decide(c)
           /\ collages' = collages \/ \E c \in Commits : Finish(c)
<1>0. /\ coord \in [Commits -> Coordinator]
      /\ prep \in [Commits -> [Nodes -> Handler]]
      /\ apply \in [Commits -> [Nodes -> Handler]]
  BY DEF IInv, TypeOK
<1>1. ASSUME NEW c \in Commits, NEW n \in Nodes
      PROVE  Ballot(c, n)' = Ballot(c, n) \/ SendReply(c, n)
  <2>1. CASE Voted(c, n)
    BY <2>1, VotesStay DEF IInv, Ballot
  <2>2. CASE ~Voted(c, n)
    BY <2>2, HandlersForward DEF IInv, Ballot
  <2> QED
    BY <2>1, <2>2
<1>2. ASSUME NEW c \in Commits, NEW n \in Nodes
      PROVE  \/ Obeyed(c, n)' = Obeyed(c, n)
             \/ \E w \in BOOLEAN : DeliverDecision(c, n, w)
  <2>1. ASSUME NEW d \in Commits, NEW k \in Nodes, NEW w \in BOOLEAN,
               DeliverDecision(d, k, w)
        PROVE  (d = c /\ k = n) \/ Obeyed(c, n)' = Obeyed(c, n)
    BY <1>0, <2>1 DEF DeliverDecision, Obeyed
  <2>2. ASSUME NEW d \in Commits, NEW k \in Nodes, NEW i \in Images,
               ApplyImage(d, k, i)
        PROVE  Obeyed(c, n)' = Obeyed(c, n)
    BY <1>0, <2>2 DEF ApplyImage, Obeyed
  <2>3. ASSUME NEW k \in Nodes, NEW x \in SUBSET net, RestartNode(k, x)
        PROVE  Obeyed(c, n)' = Obeyed(c, n)
    BY <1>0, <2>3 DEF RestartNode, Kill, Handler, Obeyed
  <2>4. CASE UNCHANGED apply
    BY <2>4 DEF Obeyed
  <2> QED
    BY <2>1, <2>2, <2>3, <2>4, Frames
<1>3. ASSUME NEW c \in Commits
      PROVE  Outcome(c)' = Outcome(c) \/ Decide(c)
  <2> DEFINE Same == /\ Decided(c)' <=> Decided(c)
                     /\ Decided(c) => coord'[c].canCommit = coord[c].canCommit
  <2> USE DEF Decided
  <2>1. ASSUME NEW d \in Commits, StartCommit(d) PROVE Same
    BY <1>0, <2>1 DEF StartCommit, Running, Coordinator
  <2>2. ASSUME NEW d \in Commits, Finish(d) \/ FailWrite(d) PROVE Same
    <3>1. coord[d].pc = "decide" /\ coord' = [coord EXCEPT ![d].pc = "done"]
      BY <2>2 DEF Finish, FailWrite, Running
    <3>2. coord[d] \in Coordinator /\ (d # c => coord'[c] = coord[c])
      BY <1>0, <3>1
    <3>3. coord'[d].pc = "done" /\ coord'[d].canCommit = coord[d].canCommit
      BY <1>0, <3>1, <3>2 DEF Coordinator
    <3> QED
      BY <3>1, <3>2, <3>3
  <2>3. ASSUME NEW d \in Commits, Decide(d) PROVE d = c \/ Same
    <3>1. d # c => coord'[c] = coord[c]
      BY <1>0, <2>3 DEF Decide
    <3> QED
      BY <3>1
  <2>4. ASSUME NEW d \in Commits, NEW k \in Nodes,
               SendPrepare(d, k) \/ SendDecision(d, k)
        PROVE  Same
    <3>1. coord' = [coord EXCEPT ![d].todo = @ \ {k}]
      BY <2>4 DEF SendPrepare, SendDecision
    <3> QED
      BY <1>0, <3>1 DEF Coordinator
  <2>5. ASSUME NEW d \in Commits, NEW m \in inbox, CollectVote(d, m) PROVE Same
    BY <1>0, <2>5 DEF CollectVote, Waiting, Running, Coordinator
  <2>6. ASSUME UNCHANGED coord PROVE Same
    BY <2>6
  <2>7. Same \/ Decide(c)
    BY <2>1, <2>2, <2>3, <2>4, <2>5, <2>6, Frames
  <2> QED
    BY <2>7 DEF Outcome
<1>4. collages' = collages \/ \E c \in Commits : Finish(c)
  <2> USE DEF nodeVars, serverVars
  <2>1. CASE UNCHANGED vars
    BY <2>1 DEF vars
  <2>2. CASE \E c \in Commits : StartCommit(c) \/ ServerStep(c)
    BY <2>2 DEF ServerStep, StartCommit, SendPrepare, SendDecision, Decide
  <2>3. CASE \E c \in Commits, m \in inbox : CollectVote(c, m) \/ Requeue(c, m)
    BY <2>3 DEF CollectVote, Requeue
  <2>4. CASE \E c \in Commits, n \in Nodes : NodeStep(c, n)
    <3> PICK c \in Commits, n \in Nodes : NodeStep(c, n)
      BY <2>4
    <3>1. CASE DeliverPrepare(c, n) \/ SendReply(c, n)
      BY <3>1 DEF DeliverPrepare, SendReply
    <3>2. CASE \E v \in BOOLEAN : DeliverDecision(c, n, v) \/ AskUser(c, n, v)
      BY <3>2 DEF DeliverDecision, AskUser
    <3>3. CASE \E i \in Images : CheckImage(c, n, i) \/ LockImage(c, n, i)
      BY <3>3 DEF CheckImage, LockImage
    <3>4. CASE \E i \in Images : ApplyImage(c, n, i)
      BY <3>4 DEF ApplyImage
    <3> QED
      BY <3>1, <3>2, <3>3, <3>4 DEF NodeStep
  <2>5. CASE \E m \in net : DeliverToServer(m)
    BY <2>5 DEF DeliverToServer
  <2>6. CASE FaultStep
    BY <2>6 DEF FaultStep, Lose, RestartNode, RestartServer, FailWrite
  <2> QED
    BY <2>1, <2>2, <2>3, <2>4, <2>5, <2>6 DEF Next
<1> QED
  BY <1>1, <1>2, <1>3, <1>4

\* A step of the protocol is a step of the abstract commitment, or none.
LEMMA CommitmentStep ==
    ASSUME DistinctNames, IInv, IInv', [Next]_vars
    PROVE  [Abstract!Next]_(Abstract!vars)
<1> DEFINE ballots == [c \in Commits |-> [n \in Nodes |-> Ballot(c, n)]]
           outcomes == [c \in Commits |-> Outcome(c)]
           orders == [c \in Commits |-> [n \in Nodes |-> Obeyed(c, n)]]
           written == {c \in Commits : FileName[c] \in collages}
<1> USE DEF nodeVars, serverVars
<1>0. Unanimity /\ Unanimity'
  <2>1. Unanimity
    BY CountsGiveUnanimity DEF IInv
  <2>2. (TypeOK /\ CountsRight => Unanimity)'
    BY CountsGiveUnanimity, PTL
  <2> QED
    BY <2>1, <2>2 DEF IInv
<1>1. ASSUME NEW d \in Commits, NEW k \in Nodes, SendReply(d, k)
      PROVE  Abstract!Next
  <2>1. /\ prep \in [Commits -> [Nodes -> Handler]]
        /\ prep[d][k].pc \in {"check", "lock"}
        /\ prep' = [prep EXCEPT ![d][k].pc = "done"]
    BY <1>1 DEF IInv, TypeOK, SendReply, Checked
  <2>2. k \in NodesOf(d) /\ ~Voted(d, k)
    BY <2>1 DEF IInv, Genuine, PreparesGenuine, PrepareSent, Voted
  <2>3. Ballot(d, k) = "none" /\ Outcome(d) = "open"
    BY <1>0, <2>2 DEF Ballot, Outcome, Unanimity
  <2>4. /\ Ballot(d, k)' \in {"yes", "no"}
        /\ \A c \in Commits, n \in Nodes :
             (c = d /\ n = k) \/ Ballot(c, n)' = Ballot(c, n)
    BY <2>1 DEF Ballot, Voted, Handler
  <2>5. ballots' = [ballots EXCEPT ![d][k] = Ballot(d, k)']
    BY <2>4
  <2>6. coord' = coord /\ apply' = apply /\ collages' = collages
    BY <1>1 DEF SendReply
  <2>7. outcomes' = outcomes /\ orders' = orders /\ written' = written
    BY <2>6 DEF Outcome, Decided, Obeyed
  <2>8. Abstract!Vote(d, k, Ballot(d, k)')
    BY <2>2, <2>3, <2>5, <2>7 DEF Abstract!Vote
  <2> QED
    BY <2>4, <2>8 DEF Abstract!Next
<1>2. ASSUME NEW d \in Commits, Decide(d)
      PROVE  Abstract!Next
  <2>1. /\ coord \in [Commits -> Coordinator]
        /\ coord[d].pc = "prepare"
        /\ coord' = [coord EXCEPT ![d].pc = "decide", ![d].todo = NodesOf(d)]
        /\ prep' = prep /\ apply' = apply /\ collages' = collages
    BY <1>2 DEF IInv, TypeOK, Decide, Running
  <2>2. /\ Decided(d)' /\ coord'[d].canCommit = coord[d].canCommit
        /\ ~Decided(d)
    BY <2>1 DEF Decided, Coordinator
  <2>3. \A c \in Commits : c = d \/ Outcome(c)' = Outcome(c)
    BY <2>1 DEF Outcome, Decided
  <2>4. outcomes' = [outcomes EXCEPT ![d] = Outcome(d)']
    BY <2>3
  <2>5. ballots' = ballots /\ orders' = orders /\ written' = written
    BY <2>1 DEF Ballot, Voted, Obeyed
  <2>6. \A n \in NodesOf(d) : Voted(d, n)' /\ (coord'[d].canCommit
                                              => VotedYes(d, n)')
    BY <1>0, <2>2 DEF Unanimity, NodesOf
  <2>7. \A n \in NodesOf(d) : /\ n \in Nodes /\ Ballot(d, n) # "none"
                              /\ coord[d].canCommit => Ballot(d, n) = "yes"
    BY <2>1, <2>2, <2>6, Participants DEF Ballot, Voted, VotedYes
  <2>8. ~coord[d].canCommit => \E n \in NodesOf(d) : Ballot(d, n) = "no"
    BY DEF IInv, CountsRight, Ballot
  <2>9. Outcome(d) = "open" /\ Outcome(d)' = IF coord[d].canCommit
                                             THEN "commit" ELSE "abort"
    BY <2>2 DEF Outcome
  <2>10. Abstract!Settle(d, Outcome(d)')
    BY <2>4, <2>5, <2>7, <2>8, <2>9, Participants DEF Abstract!Settle
  <2> QED
    BY <2>9, <2>10 DEF Abstract!Next
<1>3. ASSUME NEW d \in Commits, NEW k \in Nodes, NEW w \in BOOLEAN,
             DeliverDecision(d, k, w)
      PROVE  Abstract!Next
  <2>1. /\ apply \in [Commits -> [Nodes -> Handler]]
        /\ apply' = [apply EXCEPT ![d][k] = [pc |-> "apply", vote |-> w,
                                             todo |-> LocalImages(d, k)]]
        /\ prep' = prep /\ coord' = coord /\ collages' = collages
    BY <1>3 DEF IInv, TypeOK, DeliverDecision
  <2>2. k \in NodesOf(d) /\ Decided(d) /\ w = coord[d].canCommit
          /\ apply[d][k].pc = "none"
    BY <1>3 DEF DeliverDecision, IInv, Genuine, DecisionsGenuine, DecisionSent
  <2>3. Outcome(d) # "open" /\ Obeyed(d, k) = "open"
    BY <2>2 DEF Outcome, Obeyed
  <2>4. /\ Obeyed(d, k)' = Outcome(d)
        /\ \A c \in Commits, n \in Nodes :
             (c = d /\ n = k) \/ Obeyed(c, n)' = Obeyed(c, n)
    BY <2>1, <2>2 DEF Obeyed, Outcome
  <2>5. orders' = [orders EXCEPT ![d][k] = Outcome(d)]
    BY <2>4
  <2>6. ballots' = ballots /\ outcomes' = outcomes /\ written' = written
    BY <2>1 DEF Ballot, Voted, Outcome, Decided
  <2>7. Abstract!Obey(d, k)
    BY <2>2, <2>3, <2>5, <2>6 DEF Abstract!Obey
  <2> QED
    BY <2>7 DEF Abstract!Next
<1>4. ASSUME NEW d \in Commits, Finish(d)
      PROVE  Abstract!Next \/ UNCHANGED Abstract!vars
  <2>1. prep' = prep /\ apply' = apply /\ collages' = Written(d)
    BY <1>4 DEF Finish
  <2>2. outcomes' = outcomes
    <3>1. \A c \in Commits : ~Decide(c) \/ Outcome(c)' = Outcome(c)
      BY <1>4 DEF Decide, Finish, Running, Outcome, Decided, IInv, TypeOK,
                  Coordinator
    <3> QED
      BY <3>1, Visible
  <2>3. ballots' = ballots /\ orders' = orders
    BY <2>1 DEF Ballot, Voted, Obeyed
  <2>4. CASE ~coord[d].canCommit
    BY <2>1, <2>2, <2>3, <2>4 DEF Written, Abstract!vars
  <2>5. CASE coord[d].canCommit
    <3>1. Outcome(d) = "commit"
      BY <1>4, <2>5 DEF Finish, Running, Outcome, Decided
    <3>2. written' = written \cup {d}
      BY <2>1, <2>5, CommitsAssumption DEF Written, DistinctNames
    <3> QED
      BY <2>2, <2>3, <3>1, <3>2 DEF Abstract!Publish, Abstract!Next
  <2> QED
    BY <2>4, <2>5
<1>5. CASE /\ \A c \in Commits, n \in Nodes :
                Ballot(c, n)' = Ballot(c, n) /\ Obeyed(c, n)' = Obeyed(c, n)
           /\ \A c \in Commits : Outcome(c)' = Outcome(c)
           /\ collages' = collages
  <2>1. ballots' = ballots /\ orders' = orders
    BY <1>5
  <2>2. outcomes' = outcomes /\ written' = written
    BY <1>5
  <2> QED
    BY <2>1, <2>2 DEF Abstract!vars
<1> QED
  BY <1>1, <1>2, <1>3, <1>4, <1>5, Visible

\* The protocol implements the atomic commitment: whatever is lost and
\* whoever restarts, a commit has one outcome, decided by all its nodes,
\* obeyed by each of them and published only if positive.
THEOREM AtomicCommitmentHolds ==
    ASSUME DistinctNames PROVE Spec => AtomicCommitment
<1>1. Init => Abstract!Init
  BY CommitsAssumption
  DEF Init, Abstract!Init, Ballot, Outcome, Obeyed, Voted, Decided, NotCalled
<1>2. IInv /\ IInv' /\ [Next]_vars => [Abstract!Next]_(Abstract!vars)
  BY CommitmentStep
<1> QED
  BY <1>1, <1>2, Inductive, PTL DEF Spec, AtomicCommitment, Abstract!Spec

-----------------------------------------------------------------------------
(* What a YES promises                                                     *)

Alone(c, i) == \A d \in Commits \ {c} : i \notin Sources[d]

\* c's DECISION has not reached image i.
Untouched(c, i) ==
    \/ apply[c][Owner[i]].pc = "none"
    \/ apply[c][Owner[i]].pc = "apply" /\ i \in apply[c][Owner[i]].todo

\* From the moment it is checked, an image that nobody else asks for stays;
\* from the moment it is locked, it stays locked.
Promised(c, i) ==
    LET h == prep[c][Owner[i]]
    IN  /\ h.pc = "check" /\ h.vote /\ i \notin h.todo => i \in files
        /\ h.pc = "lock" => i \in files /\ (i \notin h.todo => i \in lockedImgs)
        /\ h.pc = "done" /\ h.vote => i \in files /\ i \in lockedImgs

Promises ==
    \A c \in Commits : \A i \in Sources[c] :
      Alone(c, i) /\ Untouched(c, i) => Promised(c, i)

\* A DECISION reaches an image once: it touches what nobody touched before.
LEMMA UntouchedBefore ==
    ASSUME TypeOK, Genuine, [Next]_vars, "restart" \notin Faults,
           NEW c \in Commits, NEW i \in Sources[c], Untouched(c, i)'
    PROVE  Untouched(c, i)
<1>0. /\ apply \in [Commits -> [Nodes -> Handler]]
      /\ i \in Images /\ Owner[i] \in Nodes
  BY CommitsAssumption DEF TypeOK
<1>1. ASSUME NEW d \in Commits, NEW k \in Nodes, NEW w \in BOOLEAN,
             DeliverDecision(d, k, w)
      PROVE  Untouched(c, i)
  <2>1. apply[d][k].pc = "none"
    BY <1>1 DEF DeliverDecision, Genuine, DecisionsGenuine
  <2>2. d # c \/ k # Owner[i] => apply'[c][Owner[i]] = apply[c][Owner[i]]
    BY <1>0, <1>1 DEF DeliverDecision
  <2> QED
    BY <2>1, <2>2 DEF Untouched
<1>2. ASSUME NEW d \in Commits, NEW k \in Nodes, NEW j \in Images,
             ApplyImage(d, k, j)
      PROVE  Untouched(c, i)
  BY <1>0, <1>2 DEF ApplyImage, Untouched
<1>3. CASE UNCHANGED apply
  BY <1>3 DEF Untouched
<1>4. ~\E k \in Nodes, x \in SUBSET net : RestartNode(k, x)
  BY DEF RestartNode, Fault
<1> QED
  BY <1>1, <1>2, <1>3, <1>4, Frames

\* As long as no node restarts, every step keeps the promises.
LEMMA PromisesStep ==
    ASSUME TypeOK, Genuine, HandlersRight, Promises, [Next]_vars,
           "restart" \notin Faults
    PROVE  Promises'
<1> SUFFICES ASSUME NEW c \in Commits, NEW i \in Sources[c], Alone(c, i),
                    Untouched(c, i)'
             PROVE  Promised(c, i)'
  BY DEF Promises, Alone
<1> DEFINE n == Owner[i]
<1>0. /\ prep \in [Commits -> [Nodes -> Handler]]
      /\ apply \in [Commits -> [Nodes -> Handler]]
      /\ i \in Images /\ n \in Nodes /\ i \in LocalImages(c, n)
  BY CommitsAssumption DEF TypeOK, LocalImages
<1>1. Promised(c, i)
  BY UntouchedBefore DEF Promises
<1> HIDE DEF n
<1>2. n = Owner[i]
  BY DEF n
<1>3. ASSUME UNCHANGED <<prep, files, lockedImgs>> PROVE Promised(c, i)'
  BY <1>1, <1>3 DEF Promised
<1>4. ASSUME NEW d \in Commits, NEW k \in Nodes, DeliverPrepare(d, k)
      PROVE  Promised(c, i)'
  <2>1. /\ prep' = [prep EXCEPT ![d][k] = [pc |-> "check", vote |-> TRUE,
                                           todo |-> LocalImages(d, k)]]
        /\ UNCHANGED <<files, lockedImgs>>
    BY <1>4 DEF DeliverPrepare
  <2> QED
    BY <1>0, <1>1, <1>2, <2>1 DEF Promised
<1>5. ASSUME NEW d \in Commits, NEW k \in Nodes, NEW j \in Images,
             CheckImage(d, k, j)
      PROVE  Promised(c, i)'
  <2>1. /\ UNCHANGED <<files, lockedImgs>>
        /\ d # c \/ k # n => prep'[c][n] = prep[c][n]
        /\ d = c /\ k = n =>
             /\ prep[c][n].pc = "check" /\ prep'[c][n].pc = "check"
             /\ prep'[c][n].todo = prep[c][n].todo \ {j}
             /\ prep'[c][n].vote => prep[c][n].vote /\ j \in files
    BY <1>0, <1>5 DEF CheckImage
  <2> QED
    BY <1>1, <1>2, <2>1 DEF Promised
<1>6. ASSUME NEW d \in Commits, NEW k \in Nodes, NEW w \in BOOLEAN,
             AskUser(d, k, w)
      PROVE  Promised(c, i)'
  <2>1. /\ UNCHANGED <<files, lockedImgs>>
        /\ d # c \/ k # n => prep'[c][n] = prep[c][n]
        /\ d = c /\ k = n =>
             /\ prep[c][n].pc = "check" /\ prep[c][n].vote
             /\ prep[c][n].todo = {}
             /\ \/ prep'[c][n].pc = "lock" /\ prep'[c][n].todo = LocalImages(c, n)
                \/ prep'[c][n].pc = "check" /\ ~prep'[c][n].vote
    BY <1>0, <1>6 DEF AskUser, Checked
  <2> QED
    BY <1>0, <1>1, <1>2, <2>1 DEF Promised
<1>7. ASSUME NEW d \in Commits, NEW k \in Nodes, NEW j \in Images,
             LockImage(d, k, j)
      PROVE  Promised(c, i)'
  <2>1. /\ files' = files /\ lockedImgs' = lockedImgs \cup {j}
        /\ d # c \/ k # n => prep'[c][n] = prep[c][n]
        /\ d = c /\ k = n =>
             /\ prep[c][n].pc = "lock" /\ prep'[c][n].pc = "lock"
             /\ prep'[c][n].todo = prep[c][n].todo \ {j}
    BY <1>0, <1>7 DEF LockImage, Locked
  <2> QED
    BY <1>1, <1>2, <2>1 DEF Promised
<1>8. ASSUME NEW d \in Commits, NEW k \in Nodes, SendReply(d, k)
      PROVE  Promised(c, i)'
  <2>1. /\ UNCHANGED <<files, lockedImgs>>
        /\ d # c \/ k # n => prep'[c][n] = prep[c][n]
        /\ d = c /\ k = n =>
             /\ \/ ~prep[c][n].vote
                \/ prep[c][n].pc = "lock" /\ prep[c][n].todo = {}
             /\ prep'[c][n].pc = "done"
             /\ prep'[c][n].vote = prep[c][n].vote
    BY <1>0, <1>8 DEF SendReply, Checked
  <2> QED
    BY <1>1, <1>2, <2>1 DEF Promised
<1>9. ASSUME NEW d \in Commits, NEW k \in Nodes, NEW j \in Images,
             ApplyImage(d, k, j)
      PROVE  Promised(c, i)'
  <2>1. /\ prep' = prep
        /\ files \ {j} \subseteq files' /\ lockedImgs' = lockedImgs \ {j}
        /\ j \in apply[d][k].todo
        /\ j \notin apply'[d][k].todo /\ apply'[d][k].pc # "none"
    BY <1>0, <1>9 DEF ApplyImage, Deleted, Unlocked
  <2>2. j # i
    <3>1. SUFFICES ASSUME j = i PROVE FALSE
      OBVIOUS
    <3>2. i \in Sources[d] /\ k = Owner[i]
      BY <2>1, <3>1 DEF HandlersRight, LocalImages
    <3>3. d = c
      BY <3>2 DEF Alone
    <3> QED
      BY <2>1, <3>1, <3>2, <3>3 DEF Untouched
  <2> QED
    BY <1>1, <2>1, <2>2 DEF Promised
<1>10. CASE \E d \in Commits, k \in Nodes : NodeStep(d, k)
  <2>1. ASSUME NEW d \in Commits, NEW k \in Nodes, NEW w \in BOOLEAN,
               DeliverDecision(d, k, w)
        PROVE  Promised(c, i)'
    BY <1>3, <2>1 DEF DeliverDecision
  <2> QED
    BY <1>4, <1>5, <1>6, <1>7, <1>8, <1>9, <1>10, <2>1 DEF NodeStep
<1>11. CASE FaultStep
  BY <1>3, <1>11 DEF FaultStep, Lose, RestartNode, RestartServer, FailWrite,
                     Fault, nodeVars
<1>12. CASE \/ \E d \in Commits : StartCommit(d) \/ ServerStep(d)
            \/ \E d \in Commits, m \in inbox : CollectVote(d, m) \/ Requeue(d, m)
            \/ \E m \in net : DeliverToServer(m)
            \/ UNCHANGED vars
  <2>1. UNCHANGED <<prep, files, lockedImgs>>
    BY <1>12 DEF ServerStep, StartCommit, SendPrepare, SendDecision, Decide,
                 Finish, CollectVote, Requeue, DeliverToServer, vars, nodeVars
  <2> QED
    BY <1>3, <2>1
<1> QED
  BY <1>10, <1>11, <1>12 DEF Next

\* A YES is a promise, whoever else commits on the same nodes and whatever is
\* lost or cannot be written, as long as no node restarts: one that does has
\* forgotten its locks.  Names may be equal, for a DECISION that comes too
\* early touches the image.
THEOREM PromisesKeptHolds ==
    ASSUME "restart" \notin Faults PROVE Spec => []PromisesKept
<1>1. Init => Promises
  BY CommitsAssumption DEF Init, Promises, Promised, NotCalled
<1>2. TypeOK /\ Genuine /\ [Next]_vars => Genuine'
  BY GenuineStep
<1>3. TypeOK /\ Genuine /\ HandlersRight /\ Promises /\ [Next]_vars => Promises'
  BY PromisesStep
<1>4. Promises => PromisesKept
  BY DEF Promises, Promised, PromisesKept, Alone, Untouched, VotedYes, Voted,
         Holds
<1> QED
  BY <1>1, <1>2, <1>3, <1>4, GenuineInit, TypeCorrect, HandlersRightHolds, PTL
  DEF Spec
=============================================================================
