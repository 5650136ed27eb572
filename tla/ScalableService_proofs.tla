----------------------- MODULE ScalableService_proofs -----------------------
(***************************************************************************)
(* Theorems about ScalableService, for any number of requests and VMs, any *)
(* clock and any load.                                                     *)
(***************************************************************************)
EXTENDS ScalableService, FiniteSetTheorems, SequenceTheorems, TLAPS

-----------------------------------------------------------------------------
(* How many VMs the loop starts                                            *)

LEMMA QuotientIsPositive ==
  ASSUME NEW a \in Nat, NEW b \in Nat, b > 0, a >= b
  PROVE  a \div b \in Nat /\ a \div b >= 1
OBVIOUS

LEMMA QuotientIsInteger ==
  ASSUME NEW a \in Int, NEW b \in Nat, b > 0
  PROVE  a \div b \in Int
OBVIOUS

LEMMA InitialNumbers ==
  ASSUME NEW rate \in Int
  PROVE  Middles(rate) - 1 \in Nat /\ Fronts(rate) - 1 \in Nat
BY DEF Middles, Fronts

LEMMA RateIsInteger ==
  ASSUME NEW n \in Nat, NEW ms \in Nat, ms > INITIAL_TIME
  PROVE  ArrivalInt(n, Seconds(ms)) \in Int
<1>1. Seconds(ms) \in Nat /\ Seconds(ms) > 0
      BY DEF Seconds, INITIAL_TIME
<1>2. 100 * Seconds(ms) \in Nat /\ 100 * Seconds(ms) > 0
      BY <1>1
<1>3. 100 * n + 45 * Seconds(ms) \in Int
      BY <1>1
<1>4. QED
      BY <1>2, <1>3, QuotientIsInteger DEF ArrivalInt

LEMMA GrowthIsNatural ==
  ASSUME TypeOK, MiddlesGrow
  PROVE  NumVMs \in Nat
<1>1. Len(reqs) \in Nat /\ scale.prevReqLen \in Nat /\ Len(middleVMs) \in Nat
      BY DEF TypeOK
<1>2. CASE scale.prevReqLen = 0
      BY <1>1, <1>2 DEF NumVMs
<1>3. CASE scale.prevReqLen # 0
  <2>1. Len(reqs) >= scale.prevReqLen /\ scale.prevReqLen > 0
        BY <1>1, <1>3 DEF MiddlesGrow
  <2>2. Len(reqs) \div scale.prevReqLen \in Nat
          /\ Len(reqs) \div scale.prevReqLen >= 1
        BY <1>1, <2>1, QuotientIsPositive
  <2>3. QED
        BY <1>1, <1>3, <2>2 DEF NumVMs
<1>4. QED
      BY <1>2, <1>3

-----------------------------------------------------------------------------
(* Launch: the ids after lastVM go to the ends of the lists                *)

LEMMA Concatenation ==
  ASSUME NEW S, NEW s \in Seq(S), NEW t \in Seq(S)
  PROVE  /\ s \o t \in Seq(S) /\ Len(s \o t) = Len(s) + Len(t)
         /\ \A i \in 1..Len(s) : (s \o t)[i] = s[i]
         /\ \A i \in Len(s) + 1..Len(s) + Len(t) : (s \o t)[i] = t[i - Len(s)]
<1>1. /\ s \o t \in Seq(S) /\ Len(s \o t) = Len(s) + Len(t)
      /\ \A i \in 1..Len(s) + Len(t) :
           (s \o t)[i] = IF i <= Len(s) THEN s[i] ELSE t[i - Len(s)]
      BY ConcatProperties
<1>2. Len(s) \in Nat /\ Len(t) \in Nat
      OBVIOUS
<1>3. QED
      BY <1>1, <1>2

LEMMA LaunchLists ==
  ASSUME NEW ms \in Nat, NEW fs \in Nat, Launch(ms, fs),
         lastVM \in VMIds, middleVMs \in Seq(VMIds), frontVMs \in Seq(VMIds)
  PROVE  /\ lastVM' \in VMIds /\ lastVM' = lastVM + ms + fs
         /\ middleVMs' \in Seq(VMIds) /\ frontVMs' \in Seq(VMIds)
         /\ Len(middleVMs') = Len(middleVMs) + ms
         /\ \A i \in 1..Len(middleVMs) : middleVMs'[i] = middleVMs[i]
         /\ \A i \in Len(middleVMs) + 1..Len(middleVMs) + ms :
              middleVMs'[i] = lastVM + (i - Len(middleVMs))
         /\ Len(frontVMs') = Len(frontVMs) + fs
         /\ \A i \in 1..Len(frontVMs) : frontVMs'[i] = frontVMs[i]
         /\ \A i \in Len(frontVMs) + 1..Len(frontVMs) + fs :
              frontVMs'[i] = lastVM + ms + (i - Len(frontVMs))
<1> DEFINE middles == [i \in 1..ms |-> lastVM + i]
           fronts == [i \in 1..fs |-> lastVM + ms + i]
<1>1. /\ lastVM + ms + fs <= MaxVMs /\ lastVM' = lastVM + ms + fs
      /\ middleVMs' = middleVMs \o middles /\ frontVMs' = frontVMs \o fronts
      BY DEF Launch
<1>2. lastVM' \in VMIds
      BY <1>1, ServiceAssumption DEF VMIds
<1>3. middles \in Seq(VMIds) /\ Len(middles) = ms
      BY <1>1, ServiceAssumption DEF VMIds
<1>4. fronts \in Seq(VMIds) /\ Len(fronts) = fs
      BY <1>1, ServiceAssumption DEF VMIds
<1>5. \A i \in 1..ms : middles[i] = lastVM + i
      OBVIOUS
<1>6. \A i \in 1..fs : fronts[i] = lastVM + ms + i
      OBVIOUS
<1> HIDE DEF middles, fronts
<1>7. /\ middleVMs' \in Seq(VMIds) /\ Len(middleVMs') = Len(middleVMs) + ms
      /\ \A i \in 1..Len(middleVMs) : middleVMs'[i] = middleVMs[i]
      /\ \A i \in Len(middleVMs) + 1..Len(middleVMs) + ms :
           middleVMs'[i] = middles[i - Len(middleVMs)]
      BY <1>1, <1>3, Concatenation
<1>8. /\ frontVMs' \in Seq(VMIds) /\ Len(frontVMs') = Len(frontVMs) + fs
      /\ \A i \in 1..Len(frontVMs) : frontVMs'[i] = frontVMs[i]
      /\ \A i \in Len(frontVMs) + 1..Len(frontVMs) + fs :
           frontVMs'[i] = fronts[i - Len(frontVMs)]
      BY <1>1, <1>4, Concatenation
<1>9. \A i \in Len(middleVMs) + 1..Len(middleVMs) + ms :
        i - Len(middleVMs) \in 1..ms
      OBVIOUS
<1>10. \A i \in Len(frontVMs) + 1..Len(frontVMs) + fs :
         i - Len(frontVMs) \in 1..fs
       OBVIOUS
<1>11. QED
       BY <1>1, <1>2, <1>5, <1>6, <1>7, <1>8, <1>9, <1>10

LEMMA LaunchTables ==
  ASSUME NEW ms \in Nat, NEW fs \in Nat, Launch(ms, fs), lastVM \in VMIds,
         vms \in [VMIds -> VM], VMroles \in [VMIds -> Roles]
  PROVE  /\ vms' \in [VMIds -> VM] /\ VMroles' \in [VMIds -> Roles]
         /\ \A v \in VMIds : v <= lastVM \/ v > lastVM + ms + fs =>
              vms'[v] = vms[v] /\ VMroles'[v] = VMroles[v]
         /\ \A v \in VMIds : lastVM < v /\ v <= lastVM + ms =>
              VMroles'[v] = "MIDDLE"
         /\ \A v \in VMIds : lastVM + ms < v /\ v <= lastVM + ms + fs =>
              VMroles'[v] = "FRONT"
         /\ \A v \in VMIds : lastVM < v /\ v <= lastVM + ms + fs =>
              vms'[v] = [state |-> "booting", hand |-> Idle]
<1>1. [state |-> "booting", hand |-> Idle] \in VM
      BY DEF VM
<1>2. \A v \in VMIds : v \in Int
      BY DEF VMIds
<1>3. vms' = [v \in VMIds |->
                IF lastVM < v /\ v <= lastVM + ms + fs
                THEN [state |-> "booting", hand |-> Idle] ELSE vms[v]]
      BY <1>2 DEF Launch
<1>4. VMroles' = [v \in VMIds |->
                    IF lastVM < v /\ v <= lastVM + ms THEN "MIDDLE"
                    ELSE IF lastVM + ms < v /\ v <= lastVM + ms + fs
                    THEN "FRONT" ELSE VMroles[v]]
      BY DEF Launch
<1>5. vms' \in [VMIds -> VM]
      BY <1>1, <1>3
<1>6. VMroles' \in [VMIds -> Roles]
      BY <1>4 DEF Roles
<1>7. QED
      BY <1>2, <1>3, <1>4, <1>5, <1>6

-----------------------------------------------------------------------------
(* Types                                                                   *)

\* The clock is never behind what was read of it, and the master has counted
\* no more requests than have arrived and left its queue.
ClockForward == master.currTime <= now /\ scale.lastTime <= now
CountedArrived == count + Len(queue[Master]) <= arrived

\* Between taking a request and passing it on, the master has it in its hand;
\* otherwise its hand is empty, or may be while it processes.
MasterHand ==
  /\ master.pc = "add" => vms[Master].hand # Idle
  /\ master.pc \notin {"add", "process"} => vms[Master].hand = Idle

\* The master is never one of the middle VMs it may end.
MasterRole ==
  /\ VMroles[Master] = "MASTER"
  /\ \A i \in DOMAIN middleVMs : middleVMs[i] # Master

TypeInv ==
  TypeOK /\ ClockForward /\ CountedArrived /\ MasterHand /\ MasterRole

LEMMA MasterIsAVM == Master \in VMIds /\ 2 \in VMIds /\ VMIds \subseteq Nat
BY ServiceAssumption DEF Master, VMIds

LEMMA InitialTypes == Init => TypeInv
<1> SUFFICES ASSUME Init PROVE TypeInv
    OBVIOUS
<1> USE MasterIsAVM, ServiceAssumption
<1>1. vms \in [VMIds -> VM] /\ vms[Master].hand = Idle
      BY DEF Init, VM
<1>2. VMroles \in [VMIds -> Roles]
      BY DEF Init, Roles
<1>3. middleVMs \in Seq(VMIds) /\ frontVMs \in Seq(VMIds) /\ reqs \in Seq(Requests)
      BY DEF Init
<1>4. queue \in [VMIds -> Seq(Requests)] /\ Len(queue[Master]) = 0
      BY DEF Init
<1>5. TypeOK
      BY <1>1, <1>2, <1>3, <1>4 DEF Init, TypeOK
<1>6. QED
      BY <1>1, <1>4, <1>5
      DEF Init, TypeInv, ClockForward, CountedArrived, MasterHand, MasterRole,
          Master

\* What changing the request in the hand of one VM leaves alone.
LEMMA HandTables ==
  ASSUME NEW v \in VMIds, NEW r \in Requests \cup {Idle}, Hand(v, r),
         vms \in [VMIds -> VM]
  PROVE  /\ vms' \in [VMIds -> VM]
         /\ vms'[v].hand = r /\ vms'[v].state = vms[v].state
         /\ \A w \in VMIds \ {v} : vms'[w] = vms[w]
BY DEF Hand, VM

LEMMA QueueTables ==
  ASSUME NEW v \in VMIds, queue \in [VMIds -> Seq(Requests)], queue[v] # <<>>,
         queue' = [queue EXCEPT ![v] = Tail(@)]
  PROVE  /\ queue' \in [VMIds -> Seq(Requests)]
         /\ Len(queue'[v]) = Len(queue[v]) - 1
         /\ Head(queue[v]) \in Requests
         /\ \A w \in VMIds \ {v} : queue'[w] = queue[w]
<1>1. /\ Tail(queue[v]) \in Seq(Requests)
      /\ Len(Tail(queue[v])) = Len(queue[v]) - 1
      /\ Head(queue[v]) \in Requests
      BY HeadTailProperties
<1>2. QED
      BY <1>1

LEMMA TypesArrive ==
  ASSUME TypeInv, NEW v \in VMIds, Arrive(v)
  PROVE  TypeInv'
<1>1. arrived' = arrived + 1 /\ arrived' \in Requests
      BY ServiceAssumption DEF Arrive, TypeInv, TypeOK, Requests
<1>2. /\ Append(queue[v], arrived') \in Seq(Requests)
      /\ Len(Append(queue[v], arrived')) = Len(queue[v]) + 1
      BY <1>1, AppendProperties DEF TypeInv, TypeOK
<1>3. /\ queue' = [queue EXCEPT ![v] = Append(queue[v], arrived')]
      /\ queue \in [VMIds -> Seq(Requests)]
      BY DEF Arrive, TypeInv, TypeOK
<1>4. queue' \in [VMIds -> Seq(Requests)]
      BY <1>2, <1>3
<1>5. TypeOK'
      BY <1>1, <1>4
      DEF Arrive, TypeInv, TypeOK, Requests, tierVars, loopVars
<1>6. CountedArrived'
  <2>1. /\ count' = count /\ count + Len(queue[Master]) <= arrived
        /\ count \in Nat /\ arrived \in Nat /\ Len(queue[Master]) \in Nat
        BY MasterIsAVM, <1>3
        DEF Arrive, TypeInv, TypeOK, CountedArrived, loopVars
  <2>2. CASE v = Master
        BY <1>1, <1>2, <1>3, <2>1, <2>2, MasterIsAVM DEF CountedArrived
  <2>3. CASE v # Master
        BY <1>1, <1>3, <2>1, <2>3, MasterIsAVM DEF CountedArrived
  <2>4. QED
        BY <2>2, <2>3
<1>7. QED
      BY <1>5, <1>6
      DEF Arrive, TypeInv, ClockForward, MasterHand, MasterRole, tierVars, loopVars

LEMMA TypesTick ==
  ASSUME TypeInv, Tick
  PROVE  TypeInv'
BY ServiceAssumption
DEF Tick, TypeInv, TypeOK, ClockForward, CountedArrived, MasterHand, MasterRole,
    tierVars, requestVars, loopVars

LEMMA TypesBoot ==
  ASSUME TypeInv, NEW v \in VMIds, Boot(v)
  PROVE  TypeInv'
<1>1. vms' \in [VMIds -> VM] /\ vms'[Master].hand = vms[Master].hand
      BY MasterIsAVM DEF Boot, TypeInv, TypeOK, VM
<1>2. TypeOK'
      BY <1>1 DEF Boot, TypeInv, TypeOK, requestVars, loopVars
<1>3. QED
      BY <1>1, <1>2
      DEF Boot, TypeInv, ClockForward, CountedArrived, MasterHand, MasterRole,
          requestVars, loopVars

LEMMA TypesReadClock ==
  ASSUME TypeInv, ReadClock
  PROVE  TypeInv'
<1>1. now - scale.lastTime \in Nat /\ now \in Nat
      BY DEF TypeInv, TypeOK, ClockForward
<1>2. master' \in [pc : {"top", "initial", "fronts", "middles", "accept",
                         "add", "poll", "process"},
                   currTime : Nat, elapsed : Nat]
      BY <1>1 DEF ReadClock
<1>3. TypeOK'
      BY <1>2 DEF ReadClock, TypeInv, TypeOK, tierVars, requestVars
<1>4. QED
      BY <1>1, <1>3
      DEF ReadClock, At, TypeInv, TypeOK, ClockForward, CountedArrived, MasterHand,
          MasterRole, tierVars, requestVars

\* Launch gives ids nobody has, so neither list gets the master's.
LEMMA TypesLaunch ==
  ASSUME TypeInv, NEW ms \in Nat, NEW fs \in Nat, Launch(ms, fs)
  PROVE  /\ vms' \in [VMIds -> VM] /\ VMroles' \in [VMIds -> Roles]
         /\ frontVMs' \in Seq(VMIds) /\ middleVMs' \in Seq(VMIds)
         /\ lastVM' \in VMIds
         /\ vms'[Master] = vms[Master]
         /\ MasterRole'
<1>1. /\ vms \in [VMIds -> VM] /\ VMroles \in [VMIds -> Roles]
      /\ lastVM \in VMIds /\ lastVM \in Nat /\ lastVM >= 1
      /\ middleVMs \in Seq(VMIds) /\ frontVMs \in Seq(VMIds)
      BY DEF TypeInv, TypeOK, VMIds
<1>2. Master \in VMIds /\ Master <= lastVM
      BY <1>1, MasterIsAVM DEF Master
<1>3. /\ vms' \in [VMIds -> VM] /\ VMroles' \in [VMIds -> Roles]
      /\ vms'[Master] = vms[Master] /\ VMroles'[Master] = VMroles[Master]
      BY <1>1, <1>2, LaunchTables
<1>4. /\ lastVM' \in VMIds
      /\ middleVMs' \in Seq(VMIds) /\ frontVMs' \in Seq(VMIds)
      /\ Len(middleVMs') = Len(middleVMs) + ms
      /\ \A i \in 1..Len(middleVMs) : middleVMs'[i] = middleVMs[i]
      /\ \A i \in Len(middleVMs) + 1..Len(middleVMs) + ms :
           middleVMs'[i] = lastVM + (i - Len(middleVMs))
      BY <1>1, LaunchLists
<1>5. ASSUME NEW i \in DOMAIN middleVMs'
      PROVE  middleVMs'[i] # Master
  <2>1. i \in 1..Len(middleVMs) + ms /\ Len(middleVMs) \in Nat
        BY <1>1, <1>4
  <2>2. CASE i <= Len(middleVMs)
        BY <1>1, <1>4, <2>1, <2>2 DEF TypeInv, MasterRole
  <2>3. CASE i > Len(middleVMs)
        BY <1>1, <1>4, <2>1, <2>3 DEF Master
  <2>4. QED
        BY <2>1, <2>2, <2>3
<1>6. QED
      BY <1>3, <1>4, <1>5 DEF TypeInv, MasterRole

\* A step of the scaling part of the loop: only the tier changes, and scale.
LEMMA TypesScale ==
  ASSUME TypeInv,
         vms' \in [VMIds -> VM], VMroles' \in [VMIds -> Roles],
         frontVMs' \in Seq(VMIds), middleVMs' \in Seq(VMIds), lastVM' \in VMIds,
         vms'[Master].hand = vms[Master].hand, MasterRole',
         scale' \in [done : BOOLEAN, lastTime : Nat, prevLen : Nat,
                     prevReqLen : Nat],
         scale'.lastTime <= now,
         NEW p \in {"fronts", "middles", "accept"},
         master' = [master EXCEPT !.pc = p],
         master.pc \in {"initial", "fronts", "middles"},
         UNCHANGED <<requestVars, count, now>>
  PROVE  TypeInv'
<1>1. /\ master' \in [pc : {"top", "initial", "fronts", "middles", "accept",
                            "add", "poll", "process"},
                      currTime : Nat, elapsed : Nat]
      /\ master'.currTime = master.currTime /\ master'.pc = p
      BY DEF TypeInv, TypeOK
<1>2. TypeOK'
      BY <1>1 DEF TypeInv, TypeOK, requestVars
<1>3. MasterHand'
      BY <1>1 DEF TypeInv, MasterHand
<1>4. QED
      BY <1>1, <1>2, <1>3
      DEF TypeInv, ClockForward, CountedArrived, requestVars

\* The initial scaling starts some numbers of VMs, neither of them negative.
LEMMA InitialLaunch ==
  ASSUME TypeInv, InitialScale
  PROVE  \E ms, fs \in Nat : Launch(ms, fs)
<1> DEFINE rate == ArrivalInt(Len(queue[Master]) + count,
                              Seconds(master.elapsed))
<1>1. Launch(Middles(rate) - 1, Fronts(rate) - 1)
      BY DEF InitialScale
<1>2. Len(queue[Master]) + count \in Nat /\ master.elapsed \in Nat
      BY MasterIsAVM DEF TypeInv, TypeOK
<1>3. master.elapsed > INITIAL_TIME
      BY DEF InitialScale, InitialDue
<1>4. rate \in Int
      BY <1>2, <1>3, RateIsInteger
<1>5. Middles(rate) - 1 \in Nat /\ Fronts(rate) - 1 \in Nat
      BY <1>4, InitialNumbers
<1>6. QED
      BY <1>1, <1>5

LEMMA TypesInitialScale ==
  ASSUME TypeInv, InitialScale
  PROVE  TypeInv'
<1>1. /\ Len(queue[Master]) \in Nat /\ Len(reqs) \in Nat
      /\ master.currTime \in Nat
      BY MasterIsAVM DEF TypeInv, TypeOK
<1>2. /\ scale' = [done |-> TRUE, lastTime |-> ScaledAt,
                   prevLen |-> Len(queue[Master]), prevReqLen |-> Len(reqs)]
      /\ master' = [master EXCEPT !.pc = "fronts"]
      /\ master.pc = "initial"
      /\ UNCHANGED <<requestVars, count, now>>
      BY DEF InitialScale, At
<1>3. /\ vms' \in [VMIds -> VM] /\ VMroles' \in [VMIds -> Roles]
      /\ frontVMs' \in Seq(VMIds) /\ middleVMs' \in Seq(VMIds)
      /\ lastVM' \in VMIds /\ vms'[Master].hand = vms[Master].hand /\ MasterRole'
      BY InitialLaunch, TypesLaunch
<1>4. /\ scale' \in [done : BOOLEAN, lastTime : Nat, prevLen : Nat,
                     prevReqLen : Nat]
      /\ scale'.lastTime <= now
      BY <1>1, <1>2 DEF ScaledAt, TypeInv, ClockForward
<1>5. QED
      BY <1>2, <1>3, <1>4, TypesScale

LEMMA TypesScaleFronts ==
  ASSUME TypeInv, ScaleFronts
  PROVE  TypeInv'
<1>1. Len(queue[Master]) \in Nat /\ master.currTime \in Nat
      BY MasterIsAVM DEF TypeInv, TypeOK
<1>2. PICK n \in Nat : Launch(0, n)
      BY DEF ScaleFronts
<1>3. /\ vms' \in [VMIds -> VM] /\ VMroles' \in [VMIds -> Roles]
      /\ frontVMs' \in Seq(VMIds) /\ middleVMs' \in Seq(VMIds)
      /\ lastVM' \in VMIds /\ vms'[Master].hand = vms[Master].hand /\ MasterRole'
      BY <1>2, TypesLaunch
<1>4. /\ scale' \in [done : BOOLEAN, lastTime : Nat, prevLen : Nat,
                     prevReqLen : Nat]
      /\ scale'.lastTime <= now
      BY <1>1 DEF ScaleFronts, ScaledAt, TypeInv, TypeOK, ClockForward
<1>5. QED
      BY <1>3, <1>4, TypesScale DEF ScaleFronts, At

LEMMA TypesMiddlesScaled ==
  ASSUME TypeInv, MiddlesScaled, At("middles"),
         vms' \in [VMIds -> VM], VMroles' \in [VMIds -> Roles],
         frontVMs' \in Seq(VMIds), middleVMs' \in Seq(VMIds), lastVM' \in VMIds,
         vms'[Master].hand = vms[Master].hand, MasterRole'
  PROVE  TypeInv'
<1>1. /\ scale' \in [done : BOOLEAN, lastTime : Nat, prevLen : Nat,
                     prevReqLen : Nat]
      /\ scale'.lastTime <= now
  <2>1. scale' = [scale EXCEPT !.prevReqLen = Len(reqs)]
        BY DEF MiddlesScaled
  <2>2. /\ scale \in [done : BOOLEAN, lastTime : Nat, prevLen : Nat,
                      prevReqLen : Nat]
        /\ Len(reqs) \in Nat /\ scale.lastTime <= now
        BY DEF TypeInv, TypeOK, ClockForward
  <2>3. QED
        BY <2>1, <2>2
<1>2. QED
      BY <1>1, TypesScale DEF MiddlesScaled, At

LEMMA TypesMiddleScaleUp ==
  ASSUME TypeInv, MiddleScaleUp
  PROVE  TypeInv'
<1>1. NumVMs \in Nat
      BY GrowthIsNatural DEF MiddleScaleUp, TypeInv
<1>2. Launch(NumVMs, 0) /\ MiddlesScaled /\ At("middles")
      BY DEF MiddleScaleUp
<1>3. /\ vms' \in [VMIds -> VM] /\ VMroles' \in [VMIds -> Roles]
      /\ frontVMs' \in Seq(VMIds) /\ middleVMs' \in Seq(VMIds)
      /\ lastVM' \in VMIds /\ vms'[Master].hand = vms[Master].hand /\ MasterRole'
      BY <1>1, <1>2, TypesLaunch
<1>4. QED
      BY <1>2, <1>3, TypesMiddlesScaled

\* What the list is without its last VM.
LEMMA AllButTheLast ==
  ASSUME middleVMs \in Seq(VMIds), OneToSpare
  PROVE  /\ RestKept \in Seq(VMIds) /\ Len(RestKept) = Len(middleVMs) - 1
         /\ \A i \in 1..Len(middleVMs) - 1 : RestKept[i] = middleVMs[i]
<1>1. Len(middleVMs) \in Nat /\ Len(middleVMs) > 1
      BY DEF OneToSpare
<1>2. Len(middleVMs) - 1 \in 1..Len(middleVMs)
      BY <1>1
<1>3. QED
      BY <1>1, <1>2, SubSeqProperties DEF RestKept

LEMMA TypesMiddleScaleDown ==
  ASSUME TypeInv, MiddleScaleDown
  PROVE  TypeInv'
<1> DEFINE v == middleVMs[Len(middleVMs)]
<1>1. /\ middleVMs \in Seq(VMIds) /\ frontVMs \in Seq(VMIds) /\ OneToSpare
      /\ Len(middleVMs) \in Nat /\ lastVM \in VMIds
      /\ vms \in [VMIds -> VM] /\ VMroles \in [VMIds -> Roles]
      BY DEF MiddleScaleDown, TypeInv, TypeOK
<1>2. v \in VMIds /\ v # Master
      BY <1>1 DEF OneToSpare, TypeInv, MasterRole
<1>3. /\ middleVMs' = RestKept
      /\ VMroles' = [VMroles EXCEPT ![v] = "absent"]
      /\ vms' = [vms EXCEPT ![v].state = "ended"]
      /\ UNCHANGED <<frontVMs, lastVM>> /\ MiddlesScaled /\ At("middles")
      BY DEF MiddleScaleDown
<1> HIDE DEF v
<1>4. vms' \in [VMIds -> VM] /\ vms'[Master] = vms[Master]
      BY <1>1, <1>2, <1>3, MasterIsAVM DEF VM
<1>5. VMroles' \in [VMIds -> Roles] /\ VMroles'[Master] = VMroles[Master]
      BY <1>1, <1>2, <1>3, MasterIsAVM DEF Roles
<1>6. middleVMs' \in Seq(VMIds) /\ \A i \in DOMAIN middleVMs' : middleVMs'[i] # Master
  <2>1. /\ middleVMs' \in Seq(VMIds) /\ Len(middleVMs') = Len(middleVMs) - 1
        /\ \A i \in 1..Len(middleVMs) - 1 : middleVMs'[i] = middleVMs[i]
        BY <1>1, <1>3, AllButTheLast
  <2>2. \A i \in 1..Len(middleVMs) : middleVMs[i] # Master
        BY <1>1 DEF TypeInv, MasterRole
  <2>3. Len(middleVMs) \in Nat /\ DOMAIN middleVMs' = 1..Len(middleVMs) - 1
        BY <1>1, <2>1
  <2>4. ASSUME NEW i \in 1..Len(middleVMs) - 1 PROVE middleVMs'[i] # Master
        <3>1. i \in 1..Len(middleVMs)
              BY <2>3
        <3>2. QED
              BY <2>1, <2>2, <3>1
  <2>5. QED
        BY <2>1, <2>3, <2>4
<1>7. MasterRole'
      BY <1>5, <1>6 DEF TypeInv, MasterRole
<1>8. QED
      BY <1>1, <1>3, <1>4, <1>5, <1>6, <1>7, TypesMiddlesScaled

LEMMA TypesMiddleStays ==
  ASSUME TypeInv, MiddleStays
  PROVE  TypeInv'
<1>1. MiddlesScaled /\ At("middles") /\ UNCHANGED tierVars
      BY DEF MiddleStays
<1>2. MasterRole'
      BY <1>1 DEF tierVars, TypeInv, MasterRole
<1>3. QED
      BY <1>1, <1>2, TypesMiddlesScaled DEF tierVars, TypeInv, TypeOK

LEMMA TypesNoScale ==
  ASSUME TypeInv, NoInitialScale \/ NoDynamicScale
  PROVE  TypeInv'
<1>1. PICK p \in {"fronts", "accept"} :
        /\ master' = [master EXCEPT !.pc = p]
        /\ master.pc \in {"initial", "fronts"}
        /\ UNCHANGED <<tierVars, requestVars, scale, count, now>>
      BY DEF NoInitialScale, NoDynamicScale, At
<1>2. MasterRole'
      BY <1>1 DEF tierVars, TypeInv, MasterRole
<1>3. QED
      BY <1>1, <1>2, TypesScale DEF tierVars, TypeInv, TypeOK, ClockForward

\* Polling the queue for the middle tier.
LEMMA PolledQueue ==
  ASSUME reqs \in Seq(Requests)
  PROVE  /\ Polled \in Seq(Requests)
         /\ reqs # <<>> => Head(reqs) \in Requests
BY HeadTailProperties DEF Polled

LEMMA IdleIsNoRequest == Idle \notin Requests
BY DEF Idle, Requests

LEMMA TypesMasterAccept ==
  ASSUME TypeInv, MasterAccept
  PROVE  TypeInv'
<1>1. /\ queue \in [VMIds -> Seq(Requests)] /\ queue[Master] # <<>>
      /\ queue' = [queue EXCEPT ![Master] = Tail(@)]
      BY DEF MasterAccept, TypeInv, TypeOK
<1>2. /\ queue' \in [VMIds -> Seq(Requests)]
      /\ Len(queue'[Master]) = Len(queue[Master]) - 1
      /\ Head(queue[Master]) \in Requests
      BY <1>1, QueueTables, MasterIsAVM
<1>3. vms' \in [VMIds -> VM] /\ vms'[Master].hand = Head(queue[Master])
      BY <1>2, HandTables, MasterIsAVM DEF MasterAccept, TypeInv, TypeOK
<1>4. /\ Len(queue[Master]) \in Nat /\ Len(queue'[Master]) \in Nat
      /\ count' = count + 1 /\ count \in Nat /\ arrived' = arrived
      /\ arrived \in 0..MaxRequests
      /\ count + Len(queue[Master]) <= arrived
      BY <1>1, <1>2, MasterIsAVM
      DEF MasterAccept, TypeInv, TypeOK, CountedArrived
<1>5. CountedArrived' /\ count' \in 0..MaxRequests
  <2>1. ASSUME NEW l \in Nat, NEW k \in Nat, l = k - 1,
               count + k <= arrived
        PROVE  count' + l <= arrived' /\ count' \in 0..MaxRequests
        BY <2>1, <1>4, ServiceAssumption
  <2>2. QED
        BY <1>2, <1>4, <2>1 DEF CountedArrived
<1>6. /\ master' \in [pc : {"top", "initial", "fronts", "middles", "accept",
                            "add", "poll", "process"},
                      currTime : Nat, elapsed : Nat]
      /\ master'.currTime = master.currTime /\ master'.pc = "add"
      BY DEF MasterAccept, TypeInv, TypeOK
<1>7. TypeOK'
      BY <1>2, <1>3, <1>5, <1>6 DEF MasterAccept, TypeInv, TypeOK
<1>8. MasterHand'
      BY <1>2, <1>3, <1>6, IdleIsNoRequest DEF MasterHand
<1>9. QED
      BY <1>5, <1>6, <1>7, <1>8
      DEF MasterAccept, TypeInv, ClockForward, MasterRole

LEMMA TypesMasterAdd ==
  ASSUME TypeInv, MasterAdd
  PROVE  TypeInv'
<1>1. /\ vms \in [VMIds -> VM] /\ reqs \in Seq(Requests)
      /\ vms[Master].hand # Idle
      BY DEF MasterAdd, At, TypeInv, TypeOK, MasterHand
<1>2. vms[Master].hand \in Requests
      BY <1>1, MasterIsAVM DEF VM
<1>3. reqs' \in Seq(Requests)
      BY <1>1, <1>2, AppendProperties DEF MasterAdd
<1>4. vms' \in [VMIds -> VM] /\ vms'[Master].hand = Idle
      BY <1>1, HandTables, MasterIsAVM DEF MasterAdd
<1>5. /\ master' \in [pc : {"top", "initial", "fronts", "middles", "accept",
                            "add", "poll", "process"},
                      currTime : Nat, elapsed : Nat]
      /\ master'.currTime = master.currTime /\ master'.pc \in {"poll", "top"}
      BY DEF MasterAdd, TypeInv, TypeOK
<1>6. TypeOK'
      BY <1>3, <1>4, <1>5 DEF MasterAdd, TypeInv, TypeOK
<1>7. QED
      BY <1>4, <1>5, <1>6
      DEF MasterAdd, TypeInv, ClockForward, CountedArrived, MasterHand, MasterRole

LEMMA TypesMasterPoll ==
  ASSUME TypeInv, MasterPoll
  PROVE  TypeInv'
<1>1. vms \in [VMIds -> VM] /\ reqs \in Seq(Requests)
      BY DEF TypeInv, TypeOK
<1>2. reqs' \in Seq(Requests)
        /\ (IF reqs = <<>> THEN Idle ELSE Head(reqs)) \in Requests \cup {Idle}
      BY <1>1, PolledQueue DEF MasterPoll
<1>3. vms' \in [VMIds -> VM]
      BY <1>1, <1>2, HandTables, MasterIsAVM DEF MasterPoll
<1>4. /\ master' \in [pc : {"top", "initial", "fronts", "middles", "accept",
                            "add", "poll", "process"},
                      currTime : Nat, elapsed : Nat]
      /\ master'.currTime = master.currTime /\ master'.pc = "process"
      BY DEF MasterPoll, TypeInv, TypeOK
<1>5. TypeOK'
      BY <1>2, <1>3, <1>4 DEF MasterPoll, TypeInv, TypeOK
<1>6. QED
      BY <1>4, <1>5
      DEF MasterPoll, TypeInv, ClockForward, CountedArrived, MasterHand, MasterRole

LEMMA AnswerTypes ==
  ASSUME TypeInv, NEW v \in VMIds, Answer(v)
  PROVE  /\ vms' \in [VMIds -> VM] /\ vms'[v].hand = Idle
         /\ \A w \in VMIds \ {v} : vms'[w] = vms[w]
         /\ answered' \subseteq Requests
<1>1. vms \in [VMIds -> VM] /\ answered \subseteq Requests
      BY DEF TypeInv, TypeOK
<1>2. vms[v].hand \in Requests \cup {Idle}
      BY <1>1 DEF VM
<1>3. QED
      BY <1>1, <1>2, HandTables DEF Answer

LEMMA TypesMasterProcess ==
  ASSUME TypeInv, MasterProcess
  PROVE  TypeInv'
<1>1. /\ vms' \in [VMIds -> VM] /\ vms'[Master].hand = Idle
      /\ answered' \subseteq Requests
      BY AnswerTypes, MasterIsAVM DEF MasterProcess
<1>2. /\ master' \in [pc : {"top", "initial", "fronts", "middles", "accept",
                            "add", "poll", "process"},
                      currTime : Nat, elapsed : Nat]
      /\ master'.currTime = master.currTime /\ master'.pc = "top"
      BY DEF MasterProcess, TypeInv, TypeOK
<1>3. TypeOK'
      BY <1>1, <1>2 DEF MasterProcess, Answer, TypeInv, TypeOK
<1>4. QED
      BY <1>1, <1>2, <1>3
      DEF MasterProcess, Answer, TypeInv, ClockForward, CountedArrived, MasterHand,
          MasterRole

\* The loops of the other VMs never touch the master's hand, nor its queue.
LEMMA OthersAreNotMaster ==
  ASSUME TypeInv, NEW v \in VMIds, VMroles[v] \in {"FRONT", "MIDDLE"}
  PROVE  v # Master
BY DEF TypeInv, MasterRole

LEMMA TypesFrontAccept ==
  ASSUME TypeInv, NEW v \in VMIds, FrontAccept(v)
  PROVE  TypeInv'
<1>1. v # Master
      BY OthersAreNotMaster DEF FrontAccept, Free, RunningAs
<1>2. /\ queue \in [VMIds -> Seq(Requests)] /\ queue[v] # <<>>
      /\ queue' = [queue EXCEPT ![v] = Tail(@)]
      /\ vms \in [VMIds -> VM]
      BY DEF FrontAccept, TypeInv, TypeOK
<1>3. /\ queue' \in [VMIds -> Seq(Requests)]
      /\ queue'[Master] = queue[Master]
      /\ Head(queue[v]) \in Requests
      BY <1>1, <1>2, QueueTables, MasterIsAVM
<1>4. vms' \in [VMIds -> VM] /\ vms'[Master] = vms[Master]
      BY <1>1, <1>2, <1>3, HandTables, MasterIsAVM DEF FrontAccept
<1>5. TypeOK'
      BY <1>3, <1>4 DEF FrontAccept, TypeInv, TypeOK, loopVars
<1>6. QED
      BY <1>3, <1>4, <1>5
      DEF FrontAccept, TypeInv, ClockForward, CountedArrived, MasterHand,
          MasterRole, loopVars

LEMMA TypesFrontForward ==
  ASSUME TypeInv, NEW v \in VMIds, FrontForward(v)
  PROVE  TypeInv'
<1>1. v # Master
      BY OthersAreNotMaster DEF FrontForward, Busy, RunningAs
<1>2. /\ vms \in [VMIds -> VM] /\ reqs \in Seq(Requests)
      /\ vms[v].hand # Idle
      BY DEF FrontForward, Busy, TypeInv, TypeOK
<1>3. vms[v].hand \in Requests
      BY <1>2 DEF VM
<1>4. reqs' \in Seq(Requests)
      BY <1>2, <1>3, AppendProperties DEF FrontForward
<1>5. vms' \in [VMIds -> VM] /\ vms'[Master] = vms[Master]
      BY <1>1, <1>2, HandTables, MasterIsAVM DEF FrontForward
<1>6. TypeOK'
      BY <1>4, <1>5 DEF FrontForward, TypeInv, TypeOK, loopVars
<1>7. QED
      BY <1>5, <1>6
      DEF FrontForward, TypeInv, ClockForward, CountedArrived, MasterHand,
          MasterRole, loopVars

LEMMA TypesMiddlePoll ==
  ASSUME TypeInv, NEW v \in VMIds, MiddlePoll(v)
  PROVE  TypeInv'
<1>1. v # Master
      BY OthersAreNotMaster DEF MiddlePoll, Free, RunningAs
<1>2. vms \in [VMIds -> VM] /\ reqs \in Seq(Requests) /\ reqs # <<>>
      BY DEF MiddlePoll, TypeInv, TypeOK
<1>3. reqs' \in Seq(Requests) /\ Head(reqs) \in Requests
      BY <1>2, PolledQueue DEF MiddlePoll
<1>4. vms' \in [VMIds -> VM] /\ vms'[Master] = vms[Master]
      BY <1>1, <1>2, <1>3, HandTables, MasterIsAVM DEF MiddlePoll
<1>5. TypeOK'
      BY <1>3, <1>4 DEF MiddlePoll, TypeInv, TypeOK, loopVars
<1>6. QED
      BY <1>4, <1>5
      DEF MiddlePoll, TypeInv, ClockForward, CountedArrived, MasterHand,
          MasterRole, loopVars

LEMMA TypesMiddleProcess ==
  ASSUME TypeInv, NEW v \in VMIds, MiddleProcess(v)
  PROVE  TypeInv'
<1>1. v # Master
      BY OthersAreNotMaster DEF MiddleProcess, Busy, RunningAs
<1>2. /\ vms' \in [VMIds -> VM] /\ vms'[Master] = vms[Master]
      /\ answered' \subseteq Requests
      BY <1>1, AnswerTypes, MasterIsAVM DEF MiddleProcess
<1>3. TypeOK'
      BY <1>2 DEF MiddleProcess, Answer, TypeInv, TypeOK
<1>4. QED
      BY <1>2, <1>3
      DEF MiddleProcess, Answer, TypeInv, ClockForward, CountedArrived, MasterHand,
          MasterRole

LEMMA TypesStep == TypeInv /\ [Next]_vars => TypeInv'
<1> SUFFICES ASSUME TypeInv, [Next]_vars PROVE TypeInv'
    OBVIOUS
<1>1. CASE \E v \in VMIds : Arrive(v)
      BY <1>1, TypesArrive
<1>2. CASE Tick
      BY <1>2, TypesTick
<1>3. CASE MasterStep
      BY <1>3, TypesReadClock, TypesInitialScale, TypesNoScale, TypesScaleFronts,
         TypesMiddleScaleUp, TypesMiddleScaleDown, TypesMiddleStays,
         TypesMasterAccept, TypesMasterAdd, TypesMasterPoll, TypesMasterProcess
      DEF MasterStep
<1>4. CASE \E v \in VMIds : VMStep(v)
      BY <1>4, TypesBoot, TypesFrontAccept, TypesFrontForward, TypesMiddlePoll,
         TypesMiddleProcess
      DEF VMStep
<1>5. CASE UNCHANGED vars
      BY <1>5
      DEF vars, tierVars, requestVars, loopVars, TypeInv, TypeOK, ClockForward,
          CountedArrived, MasterHand, MasterRole
<1>6. QED
      BY <1>1, <1>2, <1>3, <1>4, <1>5 DEF Next

LEMMA TypesInvariant == Spec => []TypeInv
BY InitialTypes, TypesStep, PTL DEF Spec

\* The variables keep their types: no length, count or time the loop of the
\* master works with is ever negative, no id is beyond what startVM returned,
\* and null is never added to the queue of the middle tier
\* (Server.java 170-297).
THEOREM TypesHold == Spec => []TypeOK
<1>1. TypeInv => TypeOK
      BY DEF TypeInv
<1>2. QED
      BY <1>1, TypesInvariant, PTL

-----------------------------------------------------------------------------
(* The tiers                                                               *)

MiddlesDistinct ==
  \A i, j \in DOMAIN middleVMs : middleVMs[i] = middleVMs[j] => i = j

MiddlesListed ==
  \A v \in VMIds :
    VMroles[v] = "MIDDLE" <=> \E i \in DOMAIN middleVMs : middleVMs[i] = v

FrontsListed == \A i \in DOMAIN frontVMs : VMroles[frontVMs[i]] = "FRONT"

\* A VM with a role in a tier has been started and is not ended.
TiersUp ==
  \A v \in VMIds : VMroles[v] \in {"FRONT", "MIDDLE"} =>
                     vms[v].state \in {"booting", "running"}

\* The ids startVM has not returned yet have no role.
IdsFresh == \A v \in VMIds : v > lastVM => VMroles[v] = "absent"

\* Ending the last VM of the list leaves the others MIDDLE only because no id
\* is listed twice, and that is so only because fresh ids have no role.
TierInv ==
  /\ Len(middleVMs) >= 1 /\ MiddlesDistinct /\ MiddlesListed
  /\ FrontsListed /\ TiersUp /\ IdsFresh

LEMMA InitialTier == Init => TierInv
<1> SUFFICES ASSUME Init PROVE TierInv
    OBVIOUS
<1> USE MasterIsAVM
<1>1. middleVMs = <<2>> /\ Len(middleVMs) = 1 /\ DOMAIN middleVMs = {1}
        /\ middleVMs[1] = 2
      BY DEF Init
<1>2. MiddlesDistinct
      BY <1>1 DEF MiddlesDistinct
<1>3. \A v \in VMIds : /\ VMroles[v] = "MIDDLE" <=> v = 2
                       /\ VMroles[v] = "FRONT" <=> FALSE
                       /\ v > 2 => VMroles[v] = "absent"
                       /\ v = 2 => vms[v].state = "booting"
      BY DEF Init, Master
<1>4. MiddlesListed /\ TiersUp
      BY <1>1, <1>3 DEF MiddlesListed, TiersUp
<1>5. IdsFresh
      BY <1>3 DEF Init, IdsFresh
<1>6. FrontsListed
      BY DEF Init, FrontsListed
<1>7. QED
      BY <1>1, <1>2, <1>4, <1>5, <1>6 DEF TierInv

\* Steps that start and end no VM.
LEMMA TierStays ==
  ASSUME TierInv, UNCHANGED <<VMroles, frontVMs, middleVMs, lastVM>>,
         \A v \in VMIds : \/ vms'[v].state = vms[v].state
                          \/ vms'[v].state = "running"
  PROVE  TierInv'
<1>1. TiersUp'
      BY DEF TierInv, TiersUp
<1>2. QED
      BY <1>1
      DEF TierInv, MiddlesDistinct, MiddlesListed, FrontsListed, IdsFresh

LEMMA TierLaunch ==
  ASSUME TypeInv, TierInv, NEW ms \in Nat, NEW fs \in Nat, Launch(ms, fs)
  PROVE  TierInv'
<1> DEFINE last == lastVM
           m == Len(middleVMs)
           f == Len(frontVMs)
<1>1. /\ vms \in [VMIds -> VM] /\ VMroles \in [VMIds -> Roles]
      /\ lastVM \in VMIds /\ last \in Nat
      /\ middleVMs \in Seq(VMIds) /\ frontVMs \in Seq(VMIds)
      /\ m \in Nat /\ f \in Nat /\ m >= 1
      BY DEF TypeInv, TypeOK, VMIds, TierInv
<1>2. /\ lastVM' = last + ms + fs
      /\ middleVMs' \in Seq(VMIds) /\ frontVMs' \in Seq(VMIds)
      /\ DOMAIN middleVMs' = 1..m + ms /\ Len(middleVMs') = m + ms
      /\ \A i \in 1..m : middleVMs'[i] = middleVMs[i]
      /\ \A i \in m + 1..m + ms : middleVMs'[i] = last + (i - m)
      /\ DOMAIN frontVMs' = 1..f + fs
      /\ \A i \in 1..f : frontVMs'[i] = frontVMs[i]
      /\ \A i \in f + 1..f + fs : frontVMs'[i] = last + ms + (i - f)
      BY <1>1, LaunchLists
<1>3. /\ \A v \in VMIds : v <= last \/ v > last + ms + fs =>
           vms'[v] = vms[v] /\ VMroles'[v] = VMroles[v]
      /\ \A v \in VMIds : last < v /\ v <= last + ms => VMroles'[v] = "MIDDLE"
      /\ \A v \in VMIds : last + ms < v /\ v <= last + ms + fs =>
           VMroles'[v] = "FRONT"
      /\ \A v \in VMIds : last < v /\ v <= last + ms + fs =>
           vms'[v] = [state |-> "booting", hand |-> Idle]
      BY <1>1, LaunchTables
<1>4. VMIds \subseteq Nat
      BY DEF VMIds
<1>5. \A i \in 1..m : middleVMs[i] \in VMIds /\ middleVMs[i] <= last
  <2>1. ASSUME NEW i \in 1..m
        PROVE  middleVMs[i] \in VMIds /\ VMroles[middleVMs[i]] = "MIDDLE"
    <3>1. middleVMs[i] \in VMIds /\ i \in DOMAIN middleVMs
          BY <1>1
    <3>2. QED
          BY <3>1 DEF TierInv, MiddlesListed
  <2>2. \A v \in VMIds : VMroles[v] = "MIDDLE" => v <= last
        BY <1>1, <1>4 DEF TierInv, IdsFresh
  <2>3. QED
        BY <2>1, <2>2
<1>6. \A i \in 1..f : /\ frontVMs[i] \in VMIds /\ VMroles[frontVMs[i]] = "FRONT"
                      /\ frontVMs[i] <= last
  <2>1. \A i \in 1..f : /\ frontVMs[i] \in VMIds
                        /\ VMroles[frontVMs[i]] = "FRONT"
        BY <1>1 DEF TierInv, FrontsListed
  <2>2. \A v \in VMIds : VMroles[v] = "FRONT" => v <= last
        BY <1>1, <1>4 DEF TierInv, IdsFresh
  <2>3. QED
        BY <2>1, <2>2
<1>7. DOMAIN middleVMs = 1..m /\ DOMAIN frontVMs = 1..f
      BY <1>1
<1>8. last \in Nat /\ m \in Nat /\ f \in Nat
      BY <1>1
<1> HIDE DEF last, m, f
<1>9. \A i \in 1..m + ms : /\ i \in Nat
                           /\ i <= m => i \in 1..m
                           /\ i > m => i \in m + 1..m + ms
      BY <1>8
<1>10. MiddlesDistinct'
  <2> SUFFICES ASSUME NEW i \in 1..m + ms, NEW j \in 1..m + ms,
                      middleVMs'[i] = middleVMs'[j]
               PROVE  i = j
      BY <1>2 DEF MiddlesDistinct
  <2>1. CASE i <= m /\ j <= m
    <3>1. i \in 1..m /\ j \in 1..m /\ middleVMs[i] = middleVMs[j]
          BY <1>2, <1>9, <2>1
    <3>2. QED
          BY <1>7, <3>1 DEF TierInv, MiddlesDistinct
  <2>2. CASE i > m /\ j > m
    <3>1. last + (i - m) = last + (j - m)
          BY <1>2, <1>8, <1>9, <2>2
    <3>2. i \in Nat /\ j \in Nat
          BY <1>9
    <3>3. QED
          BY <1>8, <3>1, <3>2
  <2>3. CASE i <= m /\ j > m
    <3>1. middleVMs'[i] <= last /\ middleVMs'[j] = last + (j - m)
          BY <1>2, <1>5, <1>8, <1>9, <2>3
    <3>2. QED
          BY <1>8, <1>9, <2>3, <3>1
  <2>4. CASE i > m /\ j <= m
    <3>1. middleVMs'[j] <= last /\ middleVMs'[i] = last + (i - m)
          BY <1>2, <1>5, <1>8, <1>9, <2>4
    <3>2. QED
          BY <1>8, <1>9, <2>4, <3>1
  <2>5. QED
        BY <1>8, <1>9, <2>1, <2>2, <2>3, <2>4
<1>11. MiddlesListed'
  <2> SUFFICES ASSUME NEW v \in VMIds
               PROVE  VMroles'[v] = "MIDDLE" <=>
                        \E i \in 1..m + ms : middleVMs'[i] = v
      BY <1>2 DEF MiddlesListed
  <2>1. CASE v <= last
    <3>1. VMroles'[v] = "MIDDLE" <=> \E i \in 1..m : middleVMs[i] = v
          BY <1>3, <1>7, <2>1 DEF TierInv, MiddlesListed
    <3>2. \A i \in m + 1..m + ms : middleVMs'[i] # v
          BY <1>1, <1>2, <1>4, <2>1
    <3>3. QED
          BY <1>1, <1>2, <3>1, <3>2
  <2>2. CASE last < v /\ v <= last + ms
    <3>1. m + (v - last) \in m + 1..m + ms
          BY <1>1, <1>4, <2>2
    <3>2. middleVMs'[m + (v - last)] = v
          BY <1>1, <1>2, <1>4, <3>1
    <3>3. QED
          BY <1>1, <1>3, <2>2, <3>1, <3>2
  <2>3. CASE v > last + ms
    <3>1. VMroles'[v] # "MIDDLE"
          BY <1>1, <1>3, <1>4, <2>3 DEF TierInv, IdsFresh, last
    <3>2. ASSUME NEW i \in 1..m + ms PROVE middleVMs'[i] # v
      <4>1. CASE i <= m
            BY <1>2, <1>5, <1>4, <1>8, <1>9, <2>3, <4>1
      <4>2. CASE i > m
        <5>1. middleVMs'[i] = last + (i - m)
              BY <1>2, <1>8, <1>9, <4>2
        <5>2. QED
              BY <1>4, <1>8, <1>9, <2>3, <4>2, <5>1
      <4>3. QED
            BY <1>8, <1>9, <4>1, <4>2
    <3>3. QED
          BY <3>1, <3>2
  <2>4. QED
        BY <1>1, <1>4, <2>1, <2>2, <2>3
<1>12. FrontsListed'
  <2> SUFFICES ASSUME NEW i \in 1..f + fs
               PROVE  VMroles'[frontVMs'[i]] = "FRONT"
      BY <1>2 DEF FrontsListed
  <2>1. CASE i <= f
    <3>1. i \in 1..f /\ frontVMs'[i] = frontVMs[i]
          BY <1>2, <1>8, <2>1
    <3>2. QED
          BY <1>3, <1>6, <3>1
  <2>2. CASE i > f
    <3>1. frontVMs'[i] = last + ms + (i - f) /\ frontVMs'[i] \in VMIds
          BY <1>1, <1>2, <2>2
    <3>2. QED
          BY <1>1, <1>3, <2>2, <3>1
  <2>3. QED
        BY <1>1, <2>1, <2>2
<1>13. TiersUp'
  <2> SUFFICES ASSUME NEW v \in VMIds, VMroles'[v] \in {"FRONT", "MIDDLE"}
               PROVE  vms'[v].state \in {"booting", "running"}
      BY DEF TiersUp
  <2>1. CASE last < v /\ v <= last + ms + fs
        BY <1>3, <2>1
  <2>2. CASE v <= last \/ v > last + ms + fs
        BY <1>3, <2>2 DEF TierInv, TiersUp
  <2>3. QED
        BY <1>1, <1>4, <2>1, <2>2
<1>14. IdsFresh'
       BY <1>1, <1>2, <1>3, <1>4 DEF TierInv, IdsFresh, last
<1>15. QED
       BY <1>1, <1>2, <1>10, <1>11, <1>12, <1>13, <1>14 DEF TierInv

LEMMA TierShrink ==
  ASSUME TypeInv, TierInv, MiddleScaleDown
  PROVE  TierInv'
<1> DEFINE m == Len(middleVMs)
           v == middleVMs[m]
<1>1. /\ vms \in [VMIds -> VM] /\ VMroles \in [VMIds -> Roles]
      /\ middleVMs \in Seq(VMIds) /\ frontVMs \in Seq(VMIds) /\ OneToSpare
      /\ m \in Nat /\ m > 1
      BY DEF MiddleScaleDown, OneToSpare, TypeInv, TypeOK
<1>2. /\ VMroles' = [VMroles EXCEPT ![v] = "absent"]
      /\ vms' = [vms EXCEPT ![v].state = "ended"]
      /\ UNCHANGED <<frontVMs, lastVM>>
      BY DEF MiddleScaleDown
<1>3. /\ DOMAIN middleVMs' = 1..m - 1 /\ Len(middleVMs') = m - 1
      /\ \A i \in 1..m - 1 : middleVMs'[i] = middleVMs[i]
      BY <1>1, AllButTheLast DEF MiddleScaleDown
<1>4. v \in VMIds /\ VMroles[v] = "MIDDLE" /\ DOMAIN middleVMs = 1..m
      BY <1>1 DEF TierInv, MiddlesListed
<1>5. v = middleVMs[m] /\ m \in 1..m /\ Len(middleVMs') >= 1
      BY <1>1, <1>3
<1> HIDE DEF v, m
<1>6. MiddlesDistinct'
      BY <1>1, <1>3, <1>4 DEF TierInv, MiddlesDistinct
<1>7. MiddlesListed'
  <2> SUFFICES ASSUME NEW w \in VMIds
               PROVE  VMroles'[w] = "MIDDLE" <=>
                        \E i \in 1..m - 1 : middleVMs'[i] = w
      BY <1>3 DEF MiddlesListed
  <2>1. CASE w = v
    <3>1. VMroles'[w] # "MIDDLE"
          BY <1>1, <1>2, <1>4, <2>1
    <3>2. \A i \in 1..m - 1 : middleVMs[i] # v
          BY <1>1, <1>4, <1>5 DEF TierInv, MiddlesDistinct
    <3>3. QED
          BY <1>3, <2>1, <3>1, <3>2
  <2>2. CASE w # v
    <3>1. VMroles'[w] = VMroles[w]
          BY <1>1, <1>2, <1>4, <2>2
    <3>2. VMroles[w] = "MIDDLE" <=> \E i \in 1..m : middleVMs[i] = w
          BY <1>4 DEF TierInv, MiddlesListed
    <3>3. \A i \in 1..m : middleVMs[i] = w => i \in 1..m - 1
          BY <1>1, <1>5, <2>2
    <3>4. 1..m - 1 \subseteq 1..m
          BY <1>1
    <3>5. QED
          BY <1>3, <3>1, <3>2, <3>3, <3>4
  <2>3. QED
        BY <2>1, <2>2
<1>8. FrontsListed'
  <2>1. \A i \in DOMAIN frontVMs : frontVMs[i] \in VMIds /\ frontVMs[i] # v
        BY <1>1, <1>4 DEF TierInv, FrontsListed
  <2>2. QED
        BY <1>1, <1>2, <2>1 DEF TierInv, FrontsListed
<1>9. TiersUp'
  <2>1. VMroles'[v] = "absent" /\ \A w \in VMIds \ {v} :
          VMroles'[w] = VMroles[w] /\ vms'[w] = vms[w]
        BY <1>1, <1>2, <1>4
  <2>2. QED
        BY <2>1 DEF TierInv, TiersUp
<1>10. IdsFresh'
       BY <1>1, <1>2, <1>4 DEF TierInv, IdsFresh
<1>11. QED
       BY <1>2, <1>5, <1>6, <1>7, <1>8, <1>9, <1>10 DEF TierInv

LEMMA TierStep == TypeInv /\ TierInv /\ [Next]_vars => TierInv'
<1> SUFFICES ASSUME TypeInv, TierInv, [Next]_vars PROVE TierInv'
    OBVIOUS
<1>1. vms \in [VMIds -> VM]
      BY DEF TypeInv, TypeOK
<1>2. \A v, w \in VMIds : \A r : Hand(v, r) => vms'[w].state = vms[w].state
      BY <1>1 DEF Hand, VM
<1>3. CASE \E v \in VMIds : Arrive(v)
      BY <1>3, TierStays DEF Arrive, tierVars
<1>4. CASE Tick
      BY <1>4, TierStays DEF Tick, tierVars
<1>5. CASE MasterStep
  <2>1. CASE ReadClock \/ NoInitialScale \/ NoDynamicScale \/ MiddleStays
        BY <2>1, TierStays
        DEF ReadClock, NoInitialScale, NoDynamicScale, MiddleStays, tierVars
  <2>2. CASE InitialScale
        BY <2>2, InitialLaunch, TierLaunch
  <2>3. CASE ScaleFronts
        BY <2>3, TierLaunch DEF ScaleFronts
  <2>4. CASE MiddleScaleUp
        BY <2>4, GrowthIsNatural, TierLaunch DEF MiddleScaleUp, TypeInv
  <2>5. CASE MiddleScaleDown
        BY <2>5, TierShrink
  <2>6. CASE MasterAccept \/ MasterAdd \/ MasterPoll \/ MasterProcess
        BY <2>6, <1>2, TierStays, MasterIsAVM
        DEF MasterAccept, MasterAdd, MasterPoll, MasterProcess, Answer
  <2>7. QED
        BY <1>5, <2>1, <2>2, <2>3, <2>4, <2>5, <2>6 DEF MasterStep
<1>6. CASE \E v \in VMIds : VMStep(v)
  <2> PICK v \in VMIds : VMStep(v)
      BY <1>6
  <2>1. CASE Boot(v)
    <3>1. \A w \in VMIds : \/ vms'[w].state = vms[w].state
                           \/ vms'[w].state = "running"
          BY <1>1, <2>1 DEF Boot, VM
    <3>2. QED
          BY <2>1, <3>1, TierStays DEF Boot
  <2>2. CASE FrontAccept(v) \/ FrontForward(v) \/ MiddlePoll(v) \/ MiddleProcess(v)
        BY <2>2, <1>2, TierStays
        DEF FrontAccept, FrontForward, MiddlePoll, MiddleProcess, Answer
  <2>3. QED
        BY <2>1, <2>2 DEF VMStep
<1>7. CASE UNCHANGED vars
      BY <1>7, TierStays DEF vars, tierVars
<1>8. QED
      BY <1>3, <1>4, <1>5, <1>6, <1>7 DEF Next

LEMMA TierInvariant == Spec => []TierInv
BY InitialTypes, InitialTier, TypesStep, TierStep, PTL DEF Spec

LEMMA TierStands == TypeInv /\ TierInv => MiddleTierStands
<1> SUFFICES ASSUME TypeInv, TierInv PROVE MiddleTierStands
    OBVIOUS
<1>1. /\ middleVMs \in Seq(VMIds) /\ frontVMs \in Seq(VMIds)
      /\ \A i \in DOMAIN middleVMs : middleVMs[i] \in VMIds
      /\ \A i \in DOMAIN frontVMs : frontVMs[i] \in VMIds
      BY DEF TypeInv, TypeOK
<1>2. middleVMs # <<>>
      BY <1>1, EmptySeq DEF TierInv
<1>3. Elements(middleVMs) = {v \in VMIds : VMroles[v] = "MIDDLE"}
      BY <1>1 DEF Elements, TierInv, MiddlesListed
<1>4. \A v \in Elements(frontVMs) : v \in VMIds /\ VMroles[v] = "FRONT"
      BY <1>1 DEF Elements, TierInv, FrontsListed
<1>5. \A v \in Elements(middleVMs) \cup Elements(frontVMs) :
        vms[v].state \in {"booting", "running"}
      BY <1>3, <1>4 DEF TierInv, TiersUp
<1>6. QED
      BY <1>2, <1>3, <1>5 DEF MiddleTierStands

\* "should always have 1 middle VM" (Server.java 226): however the load makes
\* the loop grow and shrink the tier, for any number of VMs, and the lists,
\* the map of roles and the Cloud agree about who is in it.
THEOREM MiddleTierHolds == Spec => []MiddleTierStands
BY TypesInvariant, TierInvariant, TierStands, PTL

-----------------------------------------------------------------------------
(* Requests: the elements of the queues and how they move                  *)

Distinct(s) == \A i, j \in DOMAIN s : s[i] = s[j] => i = j

LEMMA AppendElements ==
  ASSUME NEW S, NEW s \in Seq(S), NEW x \in S
  PROVE  /\ Elements(Append(s, x)) = Elements(s) \cup {x}
         /\ Distinct(s) /\ x \notin Elements(s) => Distinct(Append(s, x))
<1> DEFINE n == Len(s)
           t == Append(s, x)
<1>1. /\ n \in Nat /\ DOMAIN s = 1..n /\ DOMAIN t = 1..n + 1
      /\ \A i \in 1..n : t[i] = s[i]
      /\ t[n + 1] = x
      BY AppendProperties
<1> HIDE DEF n, t
<1>2. \A i \in 1..n + 1 : i \in 1..n \/ i = n + 1
      BY <1>1
<1>3. 1..n \subseteq 1..n + 1 /\ n + 1 \in 1..n + 1
      BY <1>1
<1>4. Elements(t) = Elements(s) \cup {x}
  <2>1. ASSUME NEW y \in Elements(t) PROVE y \in Elements(s) \cup {x}
        BY <1>1, <1>2, <2>1 DEF Elements
  <2>2. ASSUME NEW y \in Elements(s) \cup {x} PROVE y \in Elements(t)
        BY <1>1, <1>3, <2>2 DEF Elements
  <2>3. QED
        BY <2>1, <2>2
<1>5. Distinct(s) /\ x \notin Elements(s) => Distinct(t)
      BY <1>1, <1>2 DEF Distinct, Elements
<1>6. QED
      BY <1>4, <1>5 DEF t

LEMMA TailElements ==
  ASSUME NEW S, NEW s \in Seq(S), s # <<>>
  PROVE  /\ Head(s) \in S /\ Tail(s) \in Seq(S)
         /\ Elements(s) = Elements(Tail(s)) \cup {Head(s)}
         /\ Distinct(s) => Distinct(Tail(s)) /\ Head(s) \notin Elements(Tail(s))
<1> DEFINE n == Len(s)
           t == Tail(s)
<1>1. /\ n \in Nat /\ DOMAIN s = 1..n
      /\ t \in Seq(S) /\ Len(t) = n - 1 /\ Head(s) = s[1] /\ Head(s) \in S
      /\ \A i \in 1..n - 1 : t[i] = s[i + 1]
      BY HeadTailProperties
<1>2. n >= 1
      BY <1>1, EmptySeq
<1>3. DOMAIN t = 1..n - 1
      BY <1>1
<1> HIDE DEF n, t
<1>4. /\ \A i \in 1..n - 1 : i + 1 \in 1..n /\ i + 1 # 1
      /\ \A i \in 1..n : i = 1 \/ (i - 1 \in 1..n - 1 /\ (i - 1) + 1 = i)
      /\ \A i, j \in 1..n - 1 : i + 1 = j + 1 => i = j
      /\ 1 \in 1..n
      BY <1>1, <1>2
<1>5. Elements(s) = Elements(t) \cup {Head(s)}
  <2>1. ASSUME NEW i \in 1..n PROVE s[i] \in Elements(t) \cup {Head(s)}
    <3>1. CASE i = 1
          BY <1>1, <3>1
    <3>2. CASE i # 1
      <4>1. i - 1 \in 1..n - 1 /\ s[i] = t[i - 1]
            BY <1>1, <1>4, <3>2
      <4>2. QED
            BY <1>3, <4>1 DEF Elements
    <3>3. QED
          BY <3>1, <3>2
  <2>2. ASSUME NEW i \in 1..n - 1 PROVE t[i] \in Elements(s)
        BY <1>1, <1>4 DEF Elements
  <2>3. Head(s) \in Elements(s)
        BY <1>1, <1>4 DEF Elements
  <2>4. QED
        BY <1>1, <1>3, <2>1, <2>2, <2>3 DEF Elements
<1>6. ASSUME Distinct(s)
      PROVE  Distinct(t) /\ Head(s) \notin Elements(t)
  <2>1. ASSUME NEW i \in 1..n - 1, NEW j \in 1..n - 1, t[i] = t[j]
        PROVE  i = j
    <3>1. s[i + 1] = s[j + 1] /\ i + 1 \in 1..n /\ j + 1 \in 1..n
          BY <1>1, <1>4, <2>1
    <3>2. i + 1 = j + 1
          BY <1>1, <1>6, <3>1 DEF Distinct
    <3>3. QED
          BY <1>4, <3>2
  <2>2. ASSUME NEW i \in 1..n - 1 PROVE t[i] # Head(s)
    <3>1. t[i] = s[i + 1] /\ i + 1 \in 1..n /\ i + 1 # 1 /\ 1 \in 1..n
          BY <1>1, <1>4
    <3>2. QED
          BY <1>1, <1>6, <3>1 DEF Distinct
  <2>3. QED
        BY <1>3, <2>1, <2>2 DEF Distinct, Elements
<1>7. QED
      BY <1>1, <1>5, <1>6 DEF t

-----------------------------------------------------------------------------
(* Requests: each one is in one place                                      *)

Queued(v) == Elements(queue[v])
Waiting == Elements(reqs)
InHand(v) == vms[v].hand

\* The places of different kinds have no request in common ...
PlacesApart ==
  /\ \A v, w \in VMIds : \A r \in Queued(v) : r \in Queued(w) => v = w
  /\ \A v, w \in VMIds : InHand(v) = InHand(w) /\ InHand(v) # Idle => v = w
  /\ \A v, w \in VMIds : InHand(w) \notin Queued(v)
  /\ \A v \in VMIds : \A r \in Queued(v) : r \notin Waiting /\ r \notin answered
  /\ \A v \in VMIds : InHand(v) \notin Waiting /\ InHand(v) \notin answered
  /\ \A r \in Waiting : r \notin answered

\* ... no queue has one twice ...
QueuesDistinct == Distinct(reqs) /\ \A v \in VMIds : Distinct(queue[v])

\* ... and what arrived is what has a place.
Placed(r) ==
  \/ \E v \in VMIds : r \in Queued(v) \/ InHand(v) = r
  \/ r \in Waiting \cup answered
ArrivedPlaced == \A r \in Requests : r <= arrived <=> Placed(r)

\* Launch overwrites no hand with a request in it.
HandsFresh == \A v \in VMIds : v > lastVM => InHand(v) = Idle

PlaceInv == PlacesApart /\ QueuesDistinct /\ ArrivedPlaced /\ HandsFresh

LEMMA InitialPlaces == Init => PlaceInv
<1> SUFFICES ASSUME Init PROVE PlaceInv
    OBVIOUS
<1>1. /\ \A v \in VMIds : Queued(v) = {} /\ InHand(v) = Idle
      /\ Waiting = {} /\ answered = {} /\ arrived = 0
      BY DEF Init, Queued, InHand, Waiting, Elements
<1>2. QueuesDistinct
      BY DEF Init, QueuesDistinct, Distinct
<1>3. ArrivedPlaced
  <2>1. \A r \in Requests : ~(r <= 0) /\ r # Idle
        BY DEF Requests, Idle
  <2>2. QED
        BY <1>1, <2>1 DEF ArrivedPlaced, Placed
<1>4. QED
      BY <1>1, <1>2, <1>3 DEF PlaceInv, PlacesApart, HandsFresh

\* Steps that move no request.
LEMMA PlacesStay ==
  ASSUME PlaceInv, UNCHANGED requestVars, HandsFresh',
         \A v \in VMIds : InHand(v)' = InHand(v)
  PROVE  PlaceInv'
<1>1. /\ \A v \in VMIds : Queued(v)' = Queued(v)
      /\ Waiting' = Waiting /\ answered' = answered /\ arrived' = arrived
      BY DEF requestVars, Queued, Waiting
<1>2. PlacesApart'
      BY <1>1 DEF PlaceInv, PlacesApart
<1>3. QueuesDistinct'
      BY DEF requestVars, PlaceInv, QueuesDistinct
<1>4. ArrivedPlaced'
      BY <1>1 DEF PlaceInv, ArrivedPlaced, Placed
<1>5. QED
      BY <1>2, <1>3, <1>4 DEF PlaceInv

\* A client's request goes to the end of the queue of a front end.
LEMMA PlacesArrive ==
  ASSUME TypeInv, PlaceInv, NEW v \in VMIds, Arrive(v)
  PROVE  PlaceInv'
<1> DEFINE r == arrived + 1
<1>1. /\ arrived' = r /\ r \in Requests /\ arrived \in Nat
      /\ queue' = [queue EXCEPT ![v] = Append(queue[v], r)]
      /\ queue \in [VMIds -> Seq(Requests)] /\ queue[v] \in Seq(Requests)
      /\ UNCHANGED <<tierVars, reqs, answered>>
      BY ServiceAssumption DEF Arrive, TypeInv, TypeOK, Requests
<1>2. r # Idle /\ \A q \in Requests : q <= r <=> q <= arrived \/ q = r
      BY <1>1 DEF Requests, Idle
<1>3. ~Placed(r)
      BY <1>1 DEF PlaceInv, ArrivedPlaced
<1> HIDE DEF r
<1>4. /\ Elements(Append(queue[v], r)) = Queued(v) \cup {r}
      /\ Distinct(Append(queue[v], r))
      BY <1>1, <1>3, AppendElements
      DEF Placed, PlaceInv, QueuesDistinct, Queued
<1>5. /\ Queued(v)' = Queued(v) \cup {r} /\ Distinct(queue'[v])
      /\ \A w \in VMIds \ {v} : queue'[w] = queue[w] /\ Queued(w)' = Queued(w)
      /\ Waiting' = Waiting /\ answered' = answered
      /\ \A w \in VMIds : InHand(w)' = InHand(w)
      /\ lastVM' = lastVM /\ reqs' = reqs
      BY <1>1, <1>4 DEF Queued, Waiting, InHand, tierVars
<1>6. PlacesApart'
      BY <1>3, <1>5 DEF PlaceInv, PlacesApart, Placed
<1>7. QueuesDistinct'
      BY <1>5 DEF PlaceInv, QueuesDistinct
<1>8. ArrivedPlaced'
  <2>1. \A q \in Requests : Placed(q)' <=> Placed(q) \/ q = r
        BY <1>5 DEF Placed
  <2>2. QED
        BY <1>1, <1>2, <2>1 DEF PlaceInv, ArrivedPlaced
<1>9. QED
      BY <1>5, <1>6, <1>7, <1>8 DEF PlaceInv, HandsFresh

\* getNextRequest: from the queue of a front end to its hand.
LEMMA PlacesAccept ==
  ASSUME TypeInv, PlaceInv, NEW v \in VMIds, v <= lastVM, InHand(v) = Idle,
         queue[v] # <<>>, Hand(v, Head(queue[v])),
         queue' = [queue EXCEPT ![v] = Tail(@)],
         UNCHANGED <<lastVM, reqs, arrived, answered>>
  PROVE  PlaceInv'
<1> DEFINE r == Head(queue[v])
<1>1. /\ queue \in [VMIds -> Seq(Requests)] /\ queue[v] \in Seq(Requests)
      /\ vms \in [VMIds -> VM]
      BY DEF TypeInv, TypeOK
<1>2. /\ r \in Requests /\ r # Idle
      /\ Queued(v) = Elements(Tail(queue[v])) \cup {r}
      /\ r \notin Elements(Tail(queue[v]))
      /\ Distinct(Tail(queue[v]))
      BY <1>1, TailElements, IdleIsNoRequest
      DEF Queued, PlaceInv, QueuesDistinct
<1>3. /\ InHand(v)' = r
      /\ \A w \in VMIds \ {v} : InHand(w)' = InHand(w)
      BY <1>1, <1>2, HandTables DEF InHand
<1> HIDE DEF r
<1>4. /\ Queued(v)' = Queued(v) \ {r} /\ Distinct(queue'[v]) /\ r \in Queued(v)
      /\ \A w \in VMIds \ {v} : queue'[w] = queue[w] /\ Queued(w)' = Queued(w)
      /\ Waiting' = Waiting /\ answered' = answered
      /\ lastVM' = lastVM /\ reqs' = reqs /\ arrived' = arrived
      BY <1>1, <1>2 DEF Queued, Waiting
<1>5. PlacesApart'
      BY <1>2, <1>3, <1>4 DEF PlaceInv, PlacesApart
<1>6. QueuesDistinct'
      BY <1>4 DEF PlaceInv, QueuesDistinct
<1>7. ArrivedPlaced'
  <2>1. \A q \in Requests : Placed(q)' <=> Placed(q)
        BY <1>3, <1>4, IdleIsNoRequest DEF Placed
  <2>2. QED
        BY <1>4, <2>1 DEF PlaceInv, ArrivedPlaced
<1>8. HandsFresh'
  <2>1. v \in Int /\ lastVM \in Int
        BY DEF TypeInv, TypeOK, VMIds
  <2>2. QED
        BY <1>3, <1>4, <2>1 DEF PlaceInv, HandsFresh
<1>9. QED
      BY <1>5, <1>6, <1>7, <1>8 DEF PlaceInv

\* addRequest: from the hand to the queue for the middle tier.
LEMMA PlacesForward ==
  ASSUME TypeInv, PlaceInv, NEW v \in VMIds, InHand(v) # Idle,
         Hand(v, Idle), reqs' = Append(reqs, InHand(v)),
         UNCHANGED <<lastVM, queue, arrived, answered>>
  PROVE  PlaceInv'
<1> DEFINE r == InHand(v)
<1>1. reqs \in Seq(Requests) /\ vms \in [VMIds -> VM]
      BY DEF TypeInv, TypeOK
<1>2. r \in Requests /\ r # Idle
      BY <1>1 DEF InHand, VM
<1>3. /\ InHand(v)' = Idle
      /\ \A w \in VMIds \ {v} : InHand(w)' = InHand(w)
      BY <1>1, HandTables DEF InHand
<1> HIDE DEF r
<1>4. /\ Waiting' = Waiting \cup {r} /\ Distinct(reqs')
      /\ \A w \in VMIds : Queued(w)' = Queued(w)
      /\ answered' = answered
      /\ lastVM' = lastVM /\ queue' = queue /\ arrived' = arrived
  <2>1. Distinct(reqs) /\ r \notin Elements(reqs)
        BY DEF PlaceInv, QueuesDistinct, PlacesApart, Waiting, r
  <2>2. reqs' = Append(reqs, r)
        BY DEF r
  <2>3. QED
        BY <1>1, <1>2, <2>1, <2>2, AppendElements DEF Queued, Waiting
<1>5. PlacesApart'
  <2>1. /\ \A w \in VMIds : r \notin Queued(w) /\ (InHand(w) = r => w = v)
        /\ r \notin answered /\ InHand(v) = r
        BY <1>2 DEF PlaceInv, PlacesApart, r
  <2>2. Idle \notin Requests /\ Waiting \subseteq Requests
          /\ answered \subseteq Requests
          /\ \A w \in VMIds : Queued(w) \subseteq Requests
        BY IdleIsNoRequest DEF Waiting, Queued, Elements, TypeInv, TypeOK
  <2>3. QED
        BY <1>2, <1>3, <1>4, <2>1, <2>2 DEF PlaceInv, PlacesApart
<1>6. QueuesDistinct'
      BY <1>4 DEF PlaceInv, QueuesDistinct
<1>7. ArrivedPlaced'
  <2>1. \A q \in Requests : Placed(q)' <=> Placed(q)
        BY <1>3, <1>4, IdleIsNoRequest DEF Placed, r
  <2>2. QED
        BY <1>4, <2>1 DEF PlaceInv, ArrivedPlaced
<1>8. HandsFresh'
      BY <1>3, <1>4 DEF PlaceInv, HandsFresh
<1>9. QED
      BY <1>5, <1>6, <1>7, <1>8 DEF PlaceInv

\* getRequest: from the queue for the middle tier to the hand of who asked.
LEMMA PlacesPoll ==
  ASSUME TypeInv, PlaceInv, NEW v \in VMIds, v <= lastVM, InHand(v) = Idle,
         reqs # <<>>, Hand(v, Head(reqs)), reqs' = Tail(reqs),
         UNCHANGED <<lastVM, queue, arrived, answered>>
  PROVE  PlaceInv'
<1> DEFINE r == Head(reqs)
<1>1. reqs \in Seq(Requests) /\ vms \in [VMIds -> VM]
      BY DEF TypeInv, TypeOK
<1>2. /\ r \in Requests /\ r # Idle
      /\ Waiting = Elements(Tail(reqs)) \cup {r}
      /\ r \notin Elements(Tail(reqs))
      /\ Distinct(Tail(reqs))
      BY <1>1, TailElements, IdleIsNoRequest
      DEF Waiting, PlaceInv, QueuesDistinct
<1>3. /\ InHand(v)' = r
      /\ \A w \in VMIds \ {v} : InHand(w)' = InHand(w)
      BY <1>1, <1>2, HandTables DEF InHand
<1> HIDE DEF r
<1>4. /\ Waiting' = Waiting \ {r} /\ Distinct(reqs') /\ r \in Waiting
      /\ \A w \in VMIds : Queued(w)' = Queued(w)
      /\ answered' = answered
      /\ lastVM' = lastVM /\ queue' = queue /\ arrived' = arrived
      BY <1>2 DEF Queued, Waiting
<1>5. PlacesApart'
      BY <1>2, <1>3, <1>4 DEF PlaceInv, PlacesApart
<1>6. QueuesDistinct'
      BY <1>4 DEF PlaceInv, QueuesDistinct
<1>7. ArrivedPlaced'
  <2>1. \A q \in Requests : Placed(q)' <=> Placed(q)
        BY <1>3, <1>4, IdleIsNoRequest DEF Placed
  <2>2. QED
        BY <1>4, <2>1 DEF PlaceInv, ArrivedPlaced
<1>8. HandsFresh'
  <2>1. v \in Int /\ lastVM \in Int
        BY DEF TypeInv, TypeOK, VMIds
  <2>2. QED
        BY <1>3, <1>4, <2>1 DEF PlaceInv, HandsFresh
<1>9. QED
      BY <1>5, <1>6, <1>7, <1>8 DEF PlaceInv

\* processRequest: from the hand to the answered ones; processRequest(null)
\* answers nothing.
LEMMA PlacesAnswer ==
  ASSUME TypeInv, PlaceInv, NEW v \in VMIds, Answer(v)
  PROVE  PlaceInv'
<1> DEFINE r == InHand(v)
<1>1. /\ vms \in [VMIds -> VM] /\ Hand(v, Idle)
      /\ answered' = answered \cup ({r} \ {Idle})
      /\ UNCHANGED <<lastVM, queue, reqs, arrived>>
      BY DEF TypeInv, TypeOK, Answer, InHand
<1>2. /\ InHand(v)' = Idle
      /\ \A w \in VMIds \ {v} : InHand(w)' = InHand(w)
      BY <1>1, HandTables DEF InHand
<1>3. r \in Requests \cup {Idle}
      BY <1>1 DEF InHand, VM
<1>4. Idle \notin Requests /\ Waiting \subseteq Requests
        /\ answered \subseteq Requests
        /\ \A w \in VMIds : Queued(w) \subseteq Requests
      BY IdleIsNoRequest DEF Waiting, Queued, Elements, TypeInv, TypeOK
<1>5. /\ Waiting' = Waiting
      /\ \A w \in VMIds : Queued(w)' = Queued(w)
      BY <1>1 DEF Queued, Waiting
<1>6. /\ \A w \in VMIds : r \notin Queued(w)
      /\ \A w \in VMIds : InHand(w) = r /\ r # Idle => w = v
      /\ r \notin Waiting /\ r \notin answered /\ InHand(v) = r
      BY DEF PlaceInv, PlacesApart
<1> HIDE DEF r
<1>7. PlacesApart'
      BY <1>1, <1>2, <1>3, <1>4, <1>5, <1>6 DEF PlaceInv, PlacesApart
<1>8. QueuesDistinct'
      BY <1>1 DEF PlaceInv, QueuesDistinct
<1>9. ArrivedPlaced'
  <2>1. \A q \in Requests : Placed(q)' <=> Placed(q)
        BY <1>1, <1>2, <1>4, <1>5, <1>6 DEF Placed
  <2>2. QED
        BY <1>1, <2>1 DEF PlaceInv, ArrivedPlaced
<1>10. HandsFresh'
       BY <1>1, <1>2 DEF PlaceInv, HandsFresh
<1>11. QED
       BY <1>7, <1>8, <1>9, <1>10 DEF PlaceInv

LEMMA PlacesLaunch ==
  ASSUME TypeInv, PlaceInv, NEW ms \in Nat, NEW fs \in Nat, Launch(ms, fs),
         UNCHANGED requestVars
  PROVE  PlaceInv'
<1>1. /\ vms \in [VMIds -> VM] /\ VMroles \in [VMIds -> Roles]
      /\ lastVM \in VMIds /\ VMIds \subseteq Int
      BY DEF TypeInv, TypeOK, VMIds
<1>2. /\ \A v \in VMIds : v <= lastVM \/ v > lastVM + ms + fs =>
           vms'[v] = vms[v]
      /\ \A v \in VMIds : lastVM < v /\ v <= lastVM + ms + fs =>
           vms'[v] = [state |-> "booting", hand |-> Idle]
      /\ lastVM' = lastVM + ms + fs
      BY <1>1, LaunchTables DEF Launch
<1>3. ASSUME NEW v \in VMIds PROVE InHand(v)' = InHand(v)
  <2>1. CASE lastVM < v /\ v <= lastVM + ms + fs
        BY <1>2, <2>1 DEF PlaceInv, HandsFresh, InHand
  <2>2. CASE v <= lastVM \/ v > lastVM + ms + fs
        BY <1>2, <2>2 DEF InHand
  <2>3. QED
        BY <1>1, <2>1, <2>2
<1>4. HandsFresh'
      BY <1>1, <1>2, <1>3 DEF PlaceInv, HandsFresh
<1>5. QED
      BY <1>3, <1>4, PlacesStay

\* A VM with a role has been started, so Launch will not start it again.
LEMMA RolesAreStarted ==
  ASSUME TypeInv, TierInv, NEW v \in VMIds, VMroles[v] # "absent"
  PROVE  v <= lastVM
BY DEF TypeInv, TypeOK, TierInv, IdsFresh, VMIds

LEMMA PlacesStep == TypeInv /\ TierInv /\ PlaceInv /\ [Next]_vars => PlaceInv'
<1> SUFFICES ASSUME TypeInv, TierInv, PlaceInv, [Next]_vars PROVE PlaceInv'
    OBVIOUS
<1>1. vms \in [VMIds -> VM]
      BY DEF TypeInv, TypeOK
<1>2. Master <= lastVM
      BY RolesAreStarted, MasterIsAVM DEF TypeInv, MasterRole
<1>3. CASE \E v \in VMIds : Arrive(v)
      BY <1>3, PlacesArrive
<1>4. ASSUME UNCHANGED <<vms, lastVM, requestVars>>
      PROVE  PlaceInv'
      BY <1>4, PlacesStay DEF PlaceInv, HandsFresh, InHand
<1>5. CASE MasterStep
  <2>1. CASE ReadClock \/ NoInitialScale \/ NoDynamicScale \/ MiddleStays
        BY <2>1, <1>4
        DEF ReadClock, NoInitialScale, NoDynamicScale, MiddleStays,
            MiddlesScaled, tierVars
  <2>2. CASE InitialScale
        BY <2>2, InitialLaunch, PlacesLaunch DEF InitialScale
  <2>3. CASE ScaleFronts
        BY <2>3, PlacesLaunch DEF ScaleFronts
  <2>4. CASE MiddleScaleUp
        BY <2>4, GrowthIsNatural, PlacesLaunch
        DEF MiddleScaleUp, MiddlesScaled, TypeInv
  <2>5. CASE MiddleScaleDown
    <3>1. \A v \in VMIds : InHand(v)' = InHand(v)
          BY <1>1, <2>5 DEF MiddleScaleDown, InHand, VM
    <3>2. lastVM' = lastVM /\ UNCHANGED requestVars
          BY <2>5 DEF MiddleScaleDown, MiddlesScaled
    <3>3. QED
          BY <3>1, <3>2, PlacesStay DEF PlaceInv, HandsFresh
  <2>6. CASE MasterAccept
        BY <1>2, <2>6, PlacesAccept, MasterIsAVM
        DEF MasterAccept, At, InHand, TypeInv, MasterHand
  <2>7. CASE MasterAdd
        BY <2>7, PlacesForward, MasterIsAVM
        DEF MasterAdd, At, InHand, TypeInv, MasterHand
  <2>8. CASE MasterPoll
    <3>1. InHand(Master) = Idle
          BY <2>8 DEF MasterPoll, At, InHand, TypeInv, MasterHand
    <3>2. CASE reqs # <<>>
          BY <1>2, <2>8, <3>1, <3>2, PlacesPoll, MasterIsAVM
          DEF MasterPoll, Polled
    <3>3. CASE reqs = <<>>
      <4>1. \A v \in VMIds : InHand(v)' = InHand(v)
            BY <1>1, <2>8, <3>1, <3>3, HandTables, MasterIsAVM
            DEF MasterPoll, InHand
      <4>2. lastVM' = lastVM /\ UNCHANGED requestVars
            BY <2>8, <3>3 DEF MasterPoll, Polled, requestVars
      <4>3. QED
            BY <4>1, <4>2, PlacesStay DEF PlaceInv, HandsFresh
    <3>4. QED
          BY <3>2, <3>3
  <2>9. CASE MasterProcess
        BY <2>9, PlacesAnswer, MasterIsAVM DEF MasterProcess
  <2>10. QED
         BY <1>5, <2>1, <2>2, <2>3, <2>4, <2>5, <2>6, <2>7, <2>8, <2>9
         DEF MasterStep
<1>6. CASE \E v \in VMIds : VMStep(v)
  <2> PICK v \in VMIds : VMStep(v)
      BY <1>6
  <2>1. CASE Boot(v)
    <3>1. \A w \in VMIds : InHand(w)' = InHand(w)
          BY <1>1, <2>1 DEF Boot, InHand, VM
    <3>2. lastVM' = lastVM /\ UNCHANGED requestVars
          BY <2>1 DEF Boot
    <3>3. QED
          BY <3>1, <3>2, PlacesStay DEF PlaceInv, HandsFresh
  <2>2. CASE FrontAccept(v)
        BY <2>2, PlacesAccept, RolesAreStarted
        DEF FrontAccept, Free, RunningAs, InHand
  <2>3. CASE FrontForward(v)
        BY <2>3, PlacesForward DEF FrontForward, Busy, InHand
  <2>4. CASE MiddlePoll(v)
        BY <2>4, PlacesPoll, RolesAreStarted
        DEF MiddlePoll, Free, RunningAs, InHand, Polled
  <2>5. CASE MiddleProcess(v)
        BY <2>5, PlacesAnswer DEF MiddleProcess
  <2>6. QED
        BY <2>1, <2>2, <2>3, <2>4, <2>5 DEF VMStep
<1>7. CASE Tick \/ UNCHANGED vars
      BY <1>4, <1>7 DEF Tick, vars, tierVars
<1>8. QED
      BY <1>3, <1>5, <1>6, <1>7 DEF Next

LEMMA PlacesInvariant == Spec => []PlaceInv
BY InitialTypes, InitialTier, InitialPlaces, TypesStep, TierStep, PlacesStep,
   PTL DEF Spec

\* From the sets of requests back to positions.
LEMMA OneOfThePlaces ==
  ASSUME TypeInv, PlaceInv, NEW r \in Requests, r <= arrived
  PROVE  \E p : Places(r) = {p}
<1>1. Places(r) = QueuePlaces(r) \cup ReqsPlaces(r) \cup HandPlaces(r)
                    \cup AnswerPlaces(r)
      BY DEF Places
<1>2. r # Idle
      BY IdleIsNoRequest
<1>3. /\ (\A v \in VMIds : r \notin Queued(v)) => QueuePlaces(r) = {}
      /\ r \notin Waiting => ReqsPlaces(r) = {}
      /\ (\A v \in VMIds : InHand(v) # r) => HandPlaces(r) = {}
      /\ r \notin answered => AnswerPlaces(r) = {}
  <2>1. ASSUME \A v \in VMIds : r \notin Queued(v) PROVE QueuePlaces(r) = {}
        BY <2>1 DEF Queued, Elements, QueuePlaces
  <2>2. ASSUME r \notin Waiting PROVE ReqsPlaces(r) = {}
        BY <2>2 DEF Waiting, Elements, ReqsPlaces
  <2>3. ASSUME \A v \in VMIds : InHand(v) # r PROVE HandPlaces(r) = {}
        BY <2>3 DEF InHand, HandPlaces
  <2>4. ASSUME r \notin answered PROVE AnswerPlaces(r) = {}
        BY <2>4 DEF AnswerPlaces
  <2>5. QED
        BY <2>1, <2>2, <2>3, <2>4
<1>4. ASSUME NEW v \in VMIds, r \in Queued(v)
      PROVE  \E p : Places(r) = {p}
  <2>1. PICK i \in DOMAIN queue[v] : queue[v][i] = r
        BY <1>4 DEF Queued, Elements
  <2>2. \A w \in VMIds : \A j \in DOMAIN queue[w] :
          queue[w][j] = r => w = v /\ j = i
        BY <1>4, <2>1
        DEF PlaceInv, PlacesApart, QueuesDistinct, Distinct, Queued, Elements
  <2>3. QueuePlaces(r) = {<<"queue", v, i>>}
        BY <2>1, <2>2 DEF QueuePlaces
  <2>4. ReqsPlaces(r) = {} /\ HandPlaces(r) = {} /\ AnswerPlaces(r) = {}
        BY <1>3, <1>4 DEF PlaceInv, PlacesApart
  <2>5. QED
        BY <1>1, <2>3, <2>4
<1>5. ASSUME r \in Waiting
      PROVE  \E p : Places(r) = {p}
  <2>1. PICK i \in DOMAIN reqs : reqs[i] = r
        BY <1>5 DEF Waiting, Elements
  <2>2. \A j \in DOMAIN reqs : reqs[j] = r => j = i
        BY <2>1 DEF PlaceInv, QueuesDistinct, Distinct
  <2>3. ReqsPlaces(r) = {<<"reqs", 0, i>>}
        BY <2>1, <2>2 DEF ReqsPlaces
  <2>4. QueuePlaces(r) = {} /\ HandPlaces(r) = {} /\ AnswerPlaces(r) = {}
        BY <1>3, <1>5 DEF PlaceInv, PlacesApart
  <2>5. QED
        BY <1>1, <2>3, <2>4
<1>6. ASSUME NEW v \in VMIds, InHand(v) = r
      PROVE  \E p : Places(r) = {p}
  <2>1. \A w \in VMIds : vms[w].hand = r <=> w = v
        BY <1>2, <1>6 DEF PlaceInv, PlacesApart, InHand
  <2>2. HandPlaces(r) = {<<"hand", v, 0>>}
        BY <2>1 DEF HandPlaces
  <2>3. QueuePlaces(r) = {} /\ ReqsPlaces(r) = {} /\ AnswerPlaces(r) = {}
        BY <1>3, <1>6 DEF PlaceInv, PlacesApart
  <2>4. QED
        BY <1>1, <2>2, <2>3
<1>7. ASSUME r \in answered
      PROVE  \E p : Places(r) = {p}
  <2>1. AnswerPlaces(r) = {<<"answered", 0, 0>>}
        BY <1>7 DEF AnswerPlaces
  <2>2. QueuePlaces(r) = {} /\ ReqsPlaces(r) = {} /\ HandPlaces(r) = {}
        BY <1>3, <1>7 DEF PlaceInv, PlacesApart
  <2>3. QED
        BY <1>1, <2>1, <2>2
<1>8. Placed(r)
      BY DEF PlaceInv, ArrivedPlaced
<1>9. QED
      BY <1>4, <1>5, <1>6, <1>7, <1>8 DEF Placed

\* A request that has arrived is in exactly one place, whatever the VMs do in
\* between: nobody loses or duplicates one by taking it out of a queue the
\* others use too (Server.java 243-263, 280-287).
THEOREM OnePlaceHolds == Spec => []OnePlace
<1>1. ASSUME TypeInv, PlaceInv, NEW r \in 1..arrived
      PROVE  Cardinality(Places(r)) = 1
  <2>1. r \in Requests /\ r <= arrived
        BY <1>1, ServiceAssumption DEF TypeInv, TypeOK, Requests
  <2>2. PICK p : Places(r) = {p}
        BY <1>1, <2>1, OneOfThePlaces
  <2>3. QED
        BY <2>2, FS_Singleton
<1>2. TypeInv /\ PlaceInv => OnePlace
      BY <1>1 DEF OnePlace
<1>3. QED
      BY <1>2, TypesInvariant, PlacesInvariant, PTL
=============================================================================
