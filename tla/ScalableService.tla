--------------------------- MODULE ScalableService ---------------------------
(***************************************************************************)
(* Project 3 (src/15440-p3/handin/Server.java): a web service whose master *)
(* VM starts and ends the VMs of a front and of a middle tier, accepts     *)
(* requests like a front VM and, at first, processes them like a middle    *)
(* VM.                                                                     *)
(*                                                                         *)
(* The Cloud is external: startVM returns the next id at once and the VM   *)
(* comes up some 5 s later, endVM stops a VM wherever it is, clients reach *)
(* any front end that has registered.  Remote calls run on the master next *)
(* to its main loop, so a step here is one access to a queue the VMs       *)
(* share, or one branch of the main loop between two of them.              *)
(***************************************************************************)
EXTENDS Integers, Sequences, FiniteSets

CONSTANTS
    MaxRequests,    \* bound: requests 1, 2, ... that clients send
    MaxVMs,         \* bound: VM ids
    TickMs,         \* resolution of the clock, in ms
    MaxMs           \* bound: how long the clock runs

ASSUME ServiceAssumption ==
    /\ MaxRequests \in Nat
    /\ MaxVMs \in Nat /\ MaxVMs >= 2
    /\ TickMs \in Nat \ {0}
    /\ MaxMs \in Nat

INITIAL_TIME == 1500
MASTER_PROCESS_TIME == 5000
BETWEEN_TIME == 5000

Master == 1
VMIds == 1..MaxVMs
Requests == 1..MaxRequests
Idle == 0           \* no request in hand

VARIABLES
    vms,        \* the Cloud's VMs: their state and the request in their hand
    VMroles,    \* the master's map, "absent" where there is no entry
    frontVMs, middleVMs,    \* the master's lists
    lastVM,     \* the last id startVM returned
    queue,      \* the Cloud's queue at each front end
    reqs,       \* the queue for the middle tier
    master,     \* where the master's loop is and the times it has read
    scale,      \* scaleDone, lastTime and the two previous lengths
    count,      \* requests the master accepted
    now,        \* the clock
    arrived,    \* requests sent so far
    answered    \* requests processed to the end

loopVars == <<master, scale, count>>
tierVars == <<vms, VMroles, frontVMs, middleVMs, lastVM>>
requestVars == <<queue, reqs, arrived, answered>>
vars == <<tierVars, requestVars, loopVars, now>>

VM == [state : {"none", "booting", "running", "ended"},
       hand : Requests \cup {Idle}]
Roles == {"absent", "MASTER", "FRONT", "MIDDLE"}

\* The master has started one middle VM before its loop begins.
Init ==
    /\ vms = [v \in VMIds |->
                [state |-> CASE v = Master -> "running"
                             [] v = 2 -> "booting"
                             [] OTHER -> "none",
                 hand |-> Idle]]
    /\ VMroles = [v \in VMIds |-> CASE v = Master -> "MASTER"
                                    [] v = 2 -> "MIDDLE"
                                    [] OTHER -> "absent"]
    /\ frontVMs = <<>>
    /\ middleVMs = <<2>>
    /\ lastVM = 2
    /\ queue = [v \in VMIds |-> <<>>]
    /\ reqs = <<>>
    /\ master = [pc |-> "top", currTime |-> 0, elapsed |-> 0]
    /\ scale = [done |-> FALSE, lastTime |-> 0, prevLen |-> 0,
                prevReqLen |-> 0]
    /\ count = 0
    /\ now = 0
    /\ arrived = 0
    /\ answered = {}

-----------------------------------------------------------------------------
(* Clients, clock and Cloud                                                *)

Running(v) == vms[v].state = "running"
RunningAs(v, role) == Running(v) /\ VMroles[v] = role

Arrive(v) ==
    /\ RunningAs(v, "MASTER") \/ RunningAs(v, "FRONT")
    /\ arrived < MaxRequests
    /\ arrived' = arrived + 1
    /\ queue' = [queue EXCEPT ![v] = Append(@, arrived')]
    /\ UNCHANGED <<tierVars, reqs, answered, loopVars, now>>

Tick ==
    /\ now + TickMs <= MaxMs
    /\ now' = now + TickMs
    /\ UNCHANGED <<tierVars, requestVars, loopVars>>

\* main of a VM that is not the master: getRole, register_frontend.
Boot(v) ==
    /\ vms[v].state = "booting"
    /\ vms' = [vms EXCEPT ![v].state = "running"]
    /\ UNCHANGED <<VMroles, frontVMs, middleVMs, lastVM, requestVars,
                   loopVars, now>>

\* startVM for ms middle VMs, then for fs front VMs: ids, lists and roles.
\* A VM takes seconds to boot, so none of them runs before it has its role.
Launch(ms, fs) ==
    LET middles == [i \in 1..ms |-> lastVM + i]
        fronts == [i \in 1..fs |-> lastVM + ms + i]
        IsMiddle(v) == lastVM < v /\ v <= lastVM + ms
        IsFront(v) == lastVM + ms < v /\ v <= lastVM + ms + fs
    IN  /\ lastVM + ms + fs <= MaxVMs
        /\ lastVM' = lastVM + ms + fs
        /\ middleVMs' = middleVMs \o middles
        /\ frontVMs' = frontVMs \o fronts
        /\ VMroles' = [v \in VMIds |-> IF IsMiddle(v) THEN "MIDDLE"
                                       ELSE IF IsFront(v) THEN "FRONT"
                                       ELSE VMroles[v]]
        /\ vms' = [v \in VMIds |-> IF IsMiddle(v) \/ IsFront(v)
                                   THEN [state |-> "booting", hand |-> Idle]
                                   ELSE vms[v]]

-----------------------------------------------------------------------------
(* The master's loop: the clock and the initial scaling                    *)

At(pc) == master.pc = pc

ReadClock ==
    /\ At("top")
    /\ master' = [pc |-> "initial", currTime |-> now,
                  elapsed |-> now - scale.lastTime]
    /\ UNCHANGED <<tierVars, requestVars, scale, count, now>>

InitialDue == ~scale.done /\ master.elapsed > INITIAL_TIME

Seconds(ms) == (ms + 500) \div 1000     \* Math.round(ms / 1000.0)
\* floor(n / s + 0.45)
ArrivalInt(n, s) == (100 * n + 45 * s) \div (100 * s)

Fronts(rate) == IF rate <= 3 THEN 1 ELSE rate \div 2
Middles(rate) == IF rate < 1 THEN 1
                 ELSE IF rate <= 3 THEN rate + 1
                 ELSE 3 * (rate \div 2) + (rate % 2)

\* Bug: the cooldown is counted in advance.
CooledDownAt == master.currTime + BETWEEN_TIME
ScaledAt == master.currTime

InitialScale ==
    LET queueLen == Len(queue[Master])
        rate == ArrivalInt(queueLen + count, Seconds(master.elapsed))
    IN  /\ At("initial")
        /\ InitialDue
        /\ Launch(Middles(rate) - 1, Fronts(rate) - 1)
        /\ scale' = [done |-> TRUE, lastTime |-> ScaledAt,
                     prevLen |-> queueLen, prevReqLen |-> Len(reqs)]
        /\ master' = [master EXCEPT !.pc = "fronts"]
        /\ UNCHANGED <<requestVars, count, now>>

NoInitialScale ==
    /\ At("initial")
    /\ ~InitialDue
    /\ master' = [master EXCEPT !.pc = "fronts"]
    /\ UNCHANGED <<tierVars, requestVars, scale, count, now>>

-----------------------------------------------------------------------------
(* The master's loop: dynamic scaling.  elapsed is still the time since    *)
(* the lastTime from before the initial scaling.                           *)

DynamicDue == scale.done /\ master.elapsed > BETWEEN_TIME

FrontsGrow(currLen) ==
    /\ scale.prevLen # 0
    /\ 100 * currLen > 175 * scale.prevLen
    /\ Len(frontVMs) + 1 < 2

\* lastTime and prevLen get their values at the end of the block, but nobody
\* reads them before it.
ScaleFronts ==
    LET currLen == Len(queue[Master])
    IN  /\ At("fronts")
        /\ DynamicDue
        /\ Launch(0, IF FrontsGrow(currLen) THEN 1 ELSE 0)
        /\ scale' = [scale EXCEPT !.prevLen = currLen,
                                  !.lastTime = ScaledAt]
        /\ master' = [master EXCEPT !.pc = "middles"]
        /\ UNCHANGED <<requestVars, count, now>>

NoDynamicScale ==
    /\ At("fronts")
    /\ ~DynamicDue
    /\ master' = [master EXCEPT !.pc = "accept"]
    /\ UNCHANGED <<tierVars, requestVars, scale, count, now>>

MiddlesGrow == 100 * Len(reqs) >= 185 * scale.prevReqLen
MiddlesShrink == 2 * Len(reqs) < scale.prevReqLen

NumVMs == IF Len(middleVMs) >= 10 THEN 0
          ELSE IF scale.prevReqLen = 0 THEN Len(reqs) \div 2
          ELSE (Len(reqs) \div scale.prevReqLen) - 1

\* Bug: the last middle VM may be ended too.
SomeToSpare == Len(middleVMs) > 0
OneToSpare == Len(middleVMs) > 1

\* Bug: remove(int) takes the element, not the index.
OthersKept == Tail(middleVMs)
RestKept == SubSeq(middleVMs, 1, Len(middleVMs) - 1)

MiddlesScaled ==
    /\ scale' = [scale EXCEPT !.prevReqLen = Len(reqs)]
    /\ master' = [master EXCEPT !.pc = "accept"]
    /\ UNCHANGED <<requestVars, count, now>>

MiddleScaleUp ==
    /\ At("middles")
    /\ MiddlesGrow
    /\ Launch(NumVMs, 0)
    /\ MiddlesScaled

\* The VM started last goes, with the request in its hand.
MiddleScaleDown ==
    LET v == middleVMs[Len(middleVMs)]
    IN  /\ At("middles")
        /\ ~MiddlesGrow /\ MiddlesShrink /\ OneToSpare
        /\ middleVMs' = RestKept
        /\ VMroles' = [VMroles EXCEPT ![v] = "absent"]
        /\ vms' = [vms EXCEPT ![v].state = "ended"]
        /\ UNCHANGED <<frontVMs, lastVM>>
        /\ MiddlesScaled

MiddleStays ==
    /\ At("middles")
    /\ ~MiddlesGrow /\ ~(MiddlesShrink /\ OneToSpare)
    /\ MiddlesScaled
    /\ UNCHANGED tierVars

-----------------------------------------------------------------------------
(* The master's loop: requests                                             *)

Hand(v, r) == vms' = [vms EXCEPT ![v].hand = r]

\* getNextRequest blocks until there is one: no scaling in the meantime.
MasterAccept ==
    /\ At("accept")
    /\ queue[Master] # <<>>
    /\ Hand(Master, Head(queue[Master]))
    /\ queue' = [queue EXCEPT ![Master] = Tail(@)]
    /\ count' = count + 1
    /\ master' = [master EXCEPT !.pc = "add"]
    /\ UNCHANGED <<VMroles, frontVMs, middleVMs, lastVM, reqs, arrived,
                   answered, scale, now>>

\* The test uses the time read before getNextRequest blocked.
ActsAsMiddle ==
    \/ middleVMs = <<>>
    \/ master.currTime < MASTER_PROCESS_TIME

MasterAdd ==
    /\ At("add")
    /\ reqs' = Append(reqs, vms[Master].hand)
    /\ Hand(Master, Idle)
    /\ master' = [master EXCEPT !.pc = IF ActsAsMiddle THEN "poll" ELSE "top"]
    /\ UNCHANGED <<VMroles, frontVMs, middleVMs, lastVM, queue, arrived,
                   answered, scale, count, now>>

\* Bug: the queue is read, not polled.
Peeked == reqs
Polled == IF reqs = <<>> THEN <<>> ELSE Tail(reqs)

\* Another VM may have emptied the queue since: processRequest(null) returns.
MasterPoll ==
    /\ At("poll")
    /\ Hand(Master, IF reqs = <<>> THEN Idle ELSE Head(reqs))
    /\ reqs' = Polled
    /\ master' = [master EXCEPT !.pc = "process"]
    /\ UNCHANGED <<VMroles, frontVMs, middleVMs, lastVM, queue, arrived,
                   answered, scale, count, now>>

Answer(v) ==
    /\ answered' = answered \cup ({vms[v].hand} \ {Idle})
    /\ Hand(v, Idle)
    /\ UNCHANGED <<VMroles, frontVMs, middleVMs, lastVM, queue, reqs, arrived,
                   scale, count, now>>

MasterProcess ==
    /\ At("process")
    /\ Answer(Master)
    /\ master' = [master EXCEPT !.pc = "top"]

-----------------------------------------------------------------------------
(* The loops of the other VMs                                              *)

Free(v, role) == RunningAs(v, role) /\ vms[v].hand = Idle
Busy(v, role) == RunningAs(v, role) /\ vms[v].hand # Idle

FrontAccept(v) ==
    /\ Free(v, "FRONT")
    /\ queue[v] # <<>>
    /\ Hand(v, Head(queue[v]))
    /\ queue' = [queue EXCEPT ![v] = Tail(@)]
    /\ UNCHANGED <<VMroles, frontVMs, middleVMs, lastVM, reqs, arrived,
                   answered, loopVars, now>>

\* addRequest
FrontForward(v) ==
    /\ Busy(v, "FRONT")
    /\ reqs' = Append(reqs, vms[v].hand)
    /\ Hand(v, Idle)
    /\ UNCHANGED <<VMroles, frontVMs, middleVMs, lastVM, queue, arrived,
                   answered, loopVars, now>>

\* getRequest; polling an empty queue changes nothing.
MiddlePoll(v) ==
    /\ Free(v, "MIDDLE")
    /\ reqs # <<>>
    /\ Hand(v, Head(reqs))
    /\ reqs' = Polled
    /\ UNCHANGED <<VMroles, frontVMs, middleVMs, lastVM, queue, arrived,
                   answered, loopVars, now>>

MiddleProcess(v) ==
    /\ Busy(v, "MIDDLE")
    /\ Answer(v)
    /\ UNCHANGED master

-----------------------------------------------------------------------------
MasterStep ==
    \/ ReadClock
    \/ InitialScale \/ NoInitialScale
    \/ ScaleFronts \/ NoDynamicScale
    \/ MiddleScaleUp \/ MiddleScaleDown \/ MiddleStays
    \/ MasterAccept \/ MasterAdd \/ MasterPoll \/ MasterProcess

VMStep(v) ==
    \/ Boot(v)
    \/ FrontAccept(v) \/ FrontForward(v)
    \/ MiddlePoll(v) \/ MiddleProcess(v)

Next ==
    \/ \E v \in VMIds : Arrive(v)
    \/ Tick
    \/ MasterStep
    \/ \E v \in VMIds : VMStep(v)

Spec == Init /\ [][Next]_vars

\* Every process keeps running; clients and the clock need not.
FairSpec == Spec /\ WF_vars(MasterStep) /\ \A v \in VMIds : WF_vars(VMStep(v))

-----------------------------------------------------------------------------
(* Properties                                                              *)

TypeOK ==
    /\ vms \in [VMIds -> VM]
    /\ VMroles \in [VMIds -> Roles]
    /\ frontVMs \in Seq(VMIds)
    /\ middleVMs \in Seq(VMIds)
    /\ lastVM \in VMIds
    /\ queue \in [VMIds -> Seq(Requests)]
    /\ reqs \in Seq(Requests)
    /\ master \in [pc : {"top", "initial", "fronts", "middles", "accept",
                         "add", "poll", "process"},
                   currTime : Nat, elapsed : Nat]
    /\ scale \in [done : BOOLEAN, lastTime : Nat, prevLen : Nat,
                  prevReqLen : Nat]
    /\ count \in 0..MaxRequests
    /\ now \in 0..MaxMs
    /\ arrived \in 0..MaxRequests
    /\ answered \subseteq Requests

Elements(s) == {s[i] : i \in DOMAIN s}

\* Where request r is: positions in queues, hands (also of an ended VM) and
\* among the answered ones.
QueuePlaces(r) ==
    UNION {{<<"queue", v, i>> : i \in {i \in DOMAIN queue[v] : queue[v][i] = r}} :
             v \in VMIds}
ReqsPlaces(r) == {<<"reqs", 0, i>> : i \in {i \in DOMAIN reqs : reqs[i] = r}}
HandPlaces(r) == {<<"hand", v, 0>> : v \in {v \in VMIds : vms[v].hand = r}}
AnswerPlaces(r) == {<<"answered", 0, 0>> : x \in answered \cap {r}}

Places(r) == QueuePlaces(r) \cup ReqsPlaces(r) \cup HandPlaces(r)
               \cup AnswerPlaces(r)

\* A request that has arrived is in exactly one place: two VMs never process
\* the same one, and none gets lost but in the hand of a VM that is ended
\* (Server.java 243-263, 280-287), although the master, the front VMs and
\* the middle VMs use the same queue without a lock.
OnePlace == \A r \in 1..arrived : Cardinality(Places(r)) = 1

\* "should always have 1 middle VM" (Server.java 226): whatever the order of
\* scaling, there is always one, and the master's lists, its map of roles and
\* the Cloud agree about who it is.
MiddleTierStands ==
    /\ middleVMs # <<>>
    /\ Elements(middleVMs) = {v \in VMIds : VMroles[v] = "MIDDLE"}
    /\ \A v \in Elements(middleVMs) \cup Elements(frontVMs) :
         vms[v].state \in {"booting", "running"}

\* A request is answered in the end, unless the VM that works on it is ended.
EveryRequestEnds ==
    \A r \in Requests :
      r <= arrived ~> \/ r \in answered
                      \/ \E v \in VMIds : vms[v].hand = r
                                          /\ vms[v].state = "ended"

=============================================================================
