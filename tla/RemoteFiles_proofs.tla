-------------------------- MODULE RemoteFiles_proofs --------------------------
(***************************************************************************)
(* Proofs about RemoteFiles: what the connection between a program and its *)
(* child can hold at each point of a call.                                 *)
(***************************************************************************)
EXTENDS RemoteFiles, SequenceTheorems, WellFoundedInduction, TLAPS

-----------------------------------------------------------------------------
(* Types                                                                   *)

Errors == {Nobody, "EBADF", "EMFILE", "ENOENT", "ENOSPC", "EISDIR", "ENOTDIR"}

Requests == UNION {Calls[c] : c \in Clients}

\* The bytes of files and the names in listings.
InFiles  == UNION {Range(Contents[f]) : f \in DOMAIN Contents}
InLists  == UNION {Range(Entries[d]) : d \in Dirs}
InWrites == UNION {Range(a.data) : a \in Requests}
Data == {Zero, Junk} \cup InFiles \cup InLists \cup InWrites

Paths == {a.path : a \in Requests}
Ops   == PathOps \cup FdOps

Unit ==
  ({"head"} \X [op : Ops, size : Nat]) \cup ({"path"} \X Paths)
    \cup ({"fd", "n", "ret", "size", "base"} \X Int) \cup ({"errno"} \X Errors)
    \cup ({"byte"} \X Data) \cup ({"node"} \X [name : STRING, subdirs : Nat])

KernelOK(k) ==
  /\ k \in [names  : [Files -> Inodes \cup {Nobody}],
            inodes : [Inodes -> Seq(Data)],
            fds    : [Clients -> [Fds -> [of  : Inodes \cup Dirs \cup {Nobody}, pos : Nat]]]]
  /\ \A c \in Clients, fd \in Fds : k.fds[c][fd].of = Nobody => k.fds[c][fd] = Closed

ChildOK(ch) ==
  /\ ch \in [pc : {"none", "header", "body", "ended", "dead"},
             head : [op : Ops \cup {Nobody}, size : Nat], buf : Seq(Unit)]
  /\ Len(ch.buf) <= ch.head.size
  /\ ch.pc # "body" => ch = [NoChild EXCEPT !.pc = ch.pc]

ClientOK(c, cl) ==
  /\ cl \in [pc : {"idle", "local", "waiting", "gone"}, call : Calls[c] \cup {NoCall},
             got : Seq(Unit), made : 0..MaxCalls[c]]
  /\ cl.pc # "waiting" => cl.got = <<>>
  /\ cl.pc \in {"local", "waiting"} => cl.call \in Calls[c]
  /\ cl.pc = "local" => IsLocal(cl.call)

TypeInv ==
  /\ DOMAIN client = Clients /\ DOMAIN child = Clients
  /\ \A c \in Clients : ClientOK(c, client[c]) /\ ChildOK(child[c])
  /\ toServer \in [Clients -> Seq(Unit)] /\ toClient \in [Clients -> Seq(Unit)]
  /\ KernelOK(kernel)

-----------------------------------------------------------------------------
(* The connection                                                          *)

\* The units of a request that are no data, and what may be left of it.
Fields(a) == IF a.op \in {"STAT", "UNLINK", "GETDIRTREE", "CLOSE"} THEN 1 ELSE 2
Cuts(a)   == {SubSeq(Body(a), 1, k) : k \in Fields(a)..Len(Body(a))}
HeadOf(a) == [op |-> a.op, size |-> Len(Body(a))]

Bodies(c) == IF client[c].pc = "gone" THEN Cuts(client[c].call) ELSE {Body(client[c].call)}

Requested(c) ==
  /\ client[c].call \in Calls[c]
  /\ client[c].got \o toClient[c] = <<>>
  /\ \/ /\ child[c].pc \in {"none", "header"}
        /\ \E b \in Bodies(c) : toServer[c] = <<<<"head", HeadOf(client[c].call)>>>> \o b
     \/ /\ child[c].pc = "body" /\ child[c].head = HeadOf(client[c].call)
        /\ child[c].buf \o toServer[c] \in Bodies(c)

Answered(c) ==
  /\ toServer[c] = <<>> /\ child[c].pc \in {"none", "header"}
  /\ Complete(client[c].call.op, client[c].got \o toClient[c])
  /\ DataLength(client[c].call.op, client[c].got \o toClient[c]) \in Nat

Channel(c) ==
  /\ client[c].pc \in {"idle", "local"} =>
       toServer[c] = <<>> /\ toClient[c] = <<>> /\ child[c].pc \in {"none", "header"}
  /\ client[c].pc = "waiting" =>
       \/ Requested(c) \/ Answered(c)
       \/ child[c].pc = "dead" /\ toServer[c] = <<>> /\ client[c].got \o toClient[c] = <<>>
  /\ client[c].pc = "gone" =>
       /\ toClient[c] = <<>>
       /\ Requested(c) \/ (toServer[c] = <<>> /\ child[c].pc # "body")

IInv == TypeInv /\ \A c \in Clients : Channel(c)

-----------------------------------------------------------------------------
(* Sequences                                                               *)

\* What has been taken from the head of one sequence and put at the end of
\* another.
LEMMA Moved ==
  \A s, t \in Seq(Unit) : \A k \in 0..Len(t) :
    /\ s \o SubSeq(t, 1, k) \in Seq(Unit)
    /\ SubSeq(t, k + 1, Len(t)) \in Seq(Unit)
    /\ Len(s \o SubSeq(t, 1, k)) = Len(s) + k
    /\ Len(SubSeq(t, k + 1, Len(t))) = Len(t) - k
    /\ (s \o SubSeq(t, 1, k)) \o SubSeq(t, k + 1, Len(t)) = s \o t
<1> TAKE s, t \in Seq(Unit)
<1> TAKE k \in 0..Len(t)
<1>1. /\ SubSeq(t, 1, k) \in Seq(Unit) /\ Len(SubSeq(t, 1, k)) = k
      /\ SubSeq(t, k + 1, Len(t)) \in Seq(Unit)
      /\ Len(SubSeq(t, k + 1, Len(t))) = Len(t) - k
  <2>1. \A i \in 1..Len(t) : t[i] \in Unit
    BY ElementOfSeq
  <2>2. SubSeq(t, 1, k) \in Seq(Unit) /\ Len(SubSeq(t, 1, k)) = k
    BY <2>1, SubSeqProperties
  <2>3. /\ SubSeq(t, k + 1, Len(t)) \in Seq(Unit)
        /\ Len(SubSeq(t, k + 1, Len(t))) = Len(t) - k
    BY <2>1, SubSeqProperties
  <2> QED BY <2>2, <2>3
<1>2. SubSeq(t, 1, k) \o SubSeq(t, k + 1, Len(t)) = t
  <2>1. Len(t) \in Nat /\ 1 \in 1..Len(t) + 1 /\ k \in 1 - 1..Len(t) /\ Len(t) \in k..Len(t)
    BY LenProperties
  <2>2. SubSeq(t, 1, k) \o SubSeq(t, k + 1, Len(t)) = SubSeq(t, 1, Len(t))
    BY <2>1, ConcatAdjacentSubSeq, Zenon
  <2> QED BY <2>2, SubSeqFull
<1>3. (s \o SubSeq(t, 1, k)) \o SubSeq(t, k + 1, Len(t)) = s \o t
  <2>1. ASSUME NEW u \in Seq(Unit), NEW v \in Seq(Unit)
        PROVE  (s \o u) \o v = s \o (u \o v)
    <3> DEFINE U == Unit
    <3>1. s \in Seq(U) /\ u \in Seq(U) /\ v \in Seq(U)
      OBVIOUS
    <3> HIDE DEF U
    <3> QED BY <3>1, ConcatAssociative
  <2>2. SubSeq(t, 1, k) \in Seq(Unit) /\ SubSeq(t, k + 1, Len(t)) \in Seq(Unit)
    BY <1>1
  <2>3. (s \o SubSeq(t, 1, k)) \o SubSeq(t, k + 1, Len(t))
          = s \o (SubSeq(t, 1, k) \o SubSeq(t, k + 1, Len(t)))
    BY <2>1, <2>2, Zenon
  <2> QED BY <2>3, <1>2
<1> QED BY <1>1, <1>3, ConcatProperties

LEMMA Split ==
    ASSUME NEW S, NEW x \in S, NEW t \in Seq(S)
    PROVE  /\ <<x>> \o t \in Seq(S) /\ <<x>> \o t # <<>>
           /\ Head(<<x>> \o t) = x /\ Tail(<<x>> \o t) = t
  OBVIOUS

LEMMA ByteUnits ==
    ASSUME NEW d \in Seq(Data)
    PROVE  /\ Bytes(d) \in Seq(Unit) /\ Len(Bytes(d)) = Len(d)
           /\ \A i \in 1..Len(d) : Bytes(d)[i] = <<"byte", d[i]>>
  BY DEF Bytes, Unit

-----------------------------------------------------------------------------
(* Requests                                                                *)

Typed == [op : Ops, path : Paths \cup {Nobody}, fd : Int, n : Nat, data : Seq(Data)]

\* Fields of the three forms of a call.
LEMMA CallForms ==
    ASSUME NEW a \in Requests
    PROVE  /\ a \in Typed /\ a.path \in Paths
           /\ a.op = "WRITE" => a.n = Len(a.data)
           /\ a.op # "WRITE" => a.data = <<>>
<1>1. IsCall(a) /\ a.path \in Paths
  BY RemoteAssumption DEF Paths, Requests
<1>2. <<>> \in Seq(Data)
  OBVIOUS
<1>3. CASE a.op \in PathOps /\ a = OnPath(a.op, a.path, a.n) /\ a.n \in Nat
  <2>1. a = [op |-> a.op, path |-> a.path, fd |-> 0, n |-> a.n, data |-> <<>>]
    BY <1>3 DEF OnPath, NoCall
  <2>2. a.op # "WRITE" /\ a.op \in Ops
    BY <1>3 DEF PathOps, Ops
  <2>3. [op |-> a.op, path |-> a.path, fd |-> 0, n |-> a.n, data |-> <<>>] \in Typed
    BY <1>1, <1>2, <1>3, <2>2 DEF Typed
  <2>4. a.data = <<>>
    BY <2>1
  <2> QED BY <1>1, <2>1, <2>2, <2>3, <2>4
<1>4. CASE /\ a.op \in FdOps \ {"WRITE"} /\ a = OnFd(a.op, a.fd, a.n)
           /\ a.fd \in Int /\ a.n \in Nat
  BY <1>1, <1>2, <1>4 DEF OnFd, NoCall, Typed, Ops, PathOps, FdOps
<1>5. CASE a = Write(a.fd, a.data) /\ a.fd \in Int /\ a.data \in Seq(Range(a.data))
  <2>1. Range(a.data) \subseteq Data
    <3>1. Range(a.data) \subseteq InWrites
      BY DEF InWrites
    <3> QED BY <3>1 DEF Data
  <2>2. a.data \in Seq(Data)
    BY <1>5, <2>1, SeqMonotonic
  <2>3. Len(a.data) \in Nat
    BY <2>2, LenProperties
  <2>4. a = [op |-> "WRITE", path |-> Nobody, fd |-> a.fd, n |-> Len(a.data), data |-> a.data]
    BY <1>5 DEF Write, NoCall
  <2> QED BY <1>1, <1>5, <2>2, <2>3, <2>4 DEF Typed, Ops, FdOps
<1> QED BY <1>1, <1>3, <1>4, <1>5 DEF IsCall

LEMMA BodyShape ==
    ASSUME NEW a \in Requests
    PROVE  /\ Body(a) \in Seq(Unit) /\ Fields(a) \in 1..2
           /\ Len(Body(a)) \in Nat /\ Len(Body(a)) >= Fields(a)
           /\ \A i \in Fields(a) + 1..Len(Body(a)) : Body(a)[i][1] = "byte"
           /\ \A i \in 1..Fields(a) : Body(a)[i][1] # "byte"
           /\ a.op # "WRITE" => Len(Body(a)) = Fields(a)
<1> a \in Typed /\ a.path \in Paths /\ OFFSET \in Int /\ a.fd - OFFSET \in Int
  BY CallForms, RemoteAssumption DEF Typed
<1> DEFINE fd == <<"fd", a.fd - OFFSET>>
           n  == <<"n", a.n>>
           p  == <<"path", a.path>>
<1>1. fd \in Unit /\ n \in Unit /\ p \in Unit
  BY DEF Unit, Typed
<1>2. CASE a.op \in {"STAT", "UNLINK", "GETDIRTREE"}
  <2>1. Body(a) = <<p>>
    BY <1>2 DEF Body
  <2> QED BY <1>1, <1>2, <2>1 DEF Fields
<1>3. CASE a.op = "OPEN"
  <2>1. Body(a) = <<n, p>>
    BY <1>3 DEF Body
  <2> QED BY <1>1, <1>3, <2>1 DEF Fields
<1>4. CASE a.op = "CLOSE"
  <2>1. Body(a) = <<fd>>
    BY <1>4 DEF Body
  <2> QED BY <1>1, <1>4, <2>1 DEF Fields
<1>5. CASE a.op \in {"READ", "LSEEK", "GETDIRENTRIES"}
  <2>1. Body(a) = <<fd, n>>
    BY <1>5 DEF Body
  <2> QED BY <1>1, <1>5, <2>1 DEF Fields
<1>6. CASE a.op = "WRITE"
  <2>1. Body(a) = <<fd, n>> \o Bytes(a.data)
    BY <1>6 DEF Body
  <2>2. /\ Bytes(a.data) \in Seq(Unit) /\ Len(Bytes(a.data)) = Len(a.data)
        /\ Len(a.data) \in Nat
        /\ \A i \in 1..Len(a.data) : Bytes(a.data)[i] = <<"byte", a.data[i]>>
    BY ByteUnits DEF Typed
  <2>3. <<fd, n>> \in Seq(Unit) /\ Len(<<fd, n>>) = 2
    BY <1>1
  <2>4. /\ Body(a) \in Seq(Unit) /\ Len(Body(a)) = 2 + Len(a.data)
        /\ \A i \in 1..2 + Len(a.data) : Body(a)[i] =
             IF i <= 2 THEN <<fd, n>>[i] ELSE Bytes(a.data)[i - 2]
    BY <2>1, <2>2, <2>3, ConcatProperties
  <2>5. Fields(a) = 2
    BY <1>6 DEF Fields
  <2>6. ASSUME NEW i \in 3..Len(Body(a)) PROVE Body(a)[i][1] = "byte"
    <3>1. i - 2 \in 1..Len(a.data) /\ i \in 1..2 + Len(a.data) /\ ~(i <= 2)
      BY <2>2, <2>4
    <3>2. Body(a)[i] = <<"byte", a.data[i - 2]>>
      BY <3>1, <2>2, <2>4
    <3> QED BY <3>2
  <2>7. Body(a)[1] = fd /\ Body(a)[2] = n
    <3>1. 1 \in 1..2 + Len(a.data) /\ 2 \in 1..2 + Len(a.data)
      BY <2>2
    <3> HIDE DEF fd, n
    <3>2. Body(a)[1] = <<fd, n>>[1] /\ Body(a)[2] = <<fd, n>>[2]
      BY <2>4, <3>1
    <3> QED BY <3>2
  <2>8. Fields(a) + 1 = 3 /\ 1..Fields(a) = {1, 2}
    BY <2>5
  <2>9. \A i \in 1..Fields(a) : Body(a)[i][1] # "byte"
    BY <2>7, <2>8
  <2> HIDE DEF fd, n, p
  <2> QED BY <1>6, <2>1, <2>2, <2>4, <2>5, <2>6, <2>8, <2>9 DEF fd, n
<1> QED
  <2>1. a.op \in Ops
    BY DEF Typed
  <2> QED BY <1>2, <1>3, <1>4, <1>5, <1>6, <2>1 DEF Ops, PathOps, FdOps

LEMMA BodyOf ==
    ASSUME NEW a \in Requests
    PROVE  /\ a.op \in {"STAT", "UNLINK", "GETDIRTREE"} =>
                Body(a) = <<<<"path", a.path>>>>
           /\ a.op = "OPEN" => Body(a) = <<<<"n", a.n>>, <<"path", a.path>>>>
           /\ a.op = "CLOSE" => Body(a) = <<<<"fd", a.fd - OFFSET>>>>
           /\ a.op \in {"READ", "LSEEK", "GETDIRENTRIES"} =>
                Body(a) = <<<<"fd", a.fd - OFFSET>>, <<"n", a.n>>>>
           /\ a.op = "WRITE" =>
                Body(a) = <<<<"fd", a.fd - OFFSET>>, <<"n", a.n>>>> \o Bytes(a.data)
  BY DEF Body

\* What the handler finds in the buffer when the call that was sent has lost
\* at most data.
LEMMA CutForms ==
    ASSUME NEW a \in Requests, NEW b \in Cuts(a)
    PROVE  /\ b \in Seq(Unit) /\ Len(b) \in Fields(a)..Len(Body(a))
           /\ \A i \in 1..Len(b) : b[i] = Body(a)[i]
           /\ Len(b) = Len(Body(a)) => b = Body(a)
<1>1. PICK k \in Fields(a)..Len(Body(a)) : b = SubSeq(Body(a), 1, k)
  BY DEF Cuts
<1>2. Body(a) \in Seq(Unit) /\ Len(Body(a)) \in Nat /\ k \in 0..Len(Body(a)) /\ Fields(a) \in Nat
  BY BodyShape
<1>3. \A i \in 1..k : Body(a)[i] \in Unit
  BY <1>2, ElementOfSeq
<1>4. b \in Seq(Unit) /\ Len(b) = k /\ \A i \in 1..k : b[i] = Body(a)[i]
  BY <1>1, <1>2, <1>3, SubSeqProperties
<1>5. Len(b) = Len(Body(a)) => b = Body(a)
  BY <1>2, <1>4, SeqEqual
<1> QED BY <1>1, <1>4, <1>5

LEMMA WholeIsACut ==
    ASSUME NEW a \in Requests
    PROVE  Body(a) \in Cuts(a)
<1>1. Body(a) \in Seq(Unit) /\ Len(Body(a)) \in Fields(a)..Len(Body(a))
  BY BodyShape
<1>2. Body(a) = SubSeq(Body(a), 1, Len(Body(a)))
  BY <1>1, SubSeqFull
<1> QED BY <1>1, <1>2 DEF Cuts

LEMMA ParsedTyped ==
    ASSUME NEW a \in Requests, NEW b \in Cuts(a)
    PROVE  Parsed(a.op, b) \in Typed /\ Parsed(a.op, b).op = a.op
<1> a \in Typed /\ a.path \in Paths /\ OFFSET \in Int /\ a.fd - OFFSET \in Int /\ a.op \in Ops
    /\ a.n \in Nat
  BY CallForms, RemoteAssumption DEF Typed
<1>1. CASE a.op # "WRITE"
  <2>1. b = Body(a)
    BY <1>1, CutForms, BodyShape
  <2>2. <<>> \in Seq(Data)
    OBVIOUS
  <2>3. CASE a.op = "OPEN"
    <3>0. b = <<<<"n", a.n>>, <<"path", a.path>>>>
      BY <2>1, <2>3, BodyOf
    <3>1. b[1] = <<"n", a.n>> /\ b[2] = <<"path", a.path>>
      BY <3>0
    <3>2. Parsed(a.op, b) = OnPath(a.op, a.path, a.n)
      BY <2>3, <3>1 DEF Parsed
    <3>3. Parsed(a.op, b) = [op |-> a.op, path |-> a.path, fd |-> 0, n |-> a.n, data |-> <<>>]
      BY <3>2 DEF OnPath, NoCall
    <3> QED BY <2>2, <3>3 DEF Typed
  <2>4. CASE a.op \in {"STAT", "UNLINK", "GETDIRTREE"}
    <3>0. b = <<<<"path", a.path>>>>
      BY <2>1, <2>4, BodyOf
    <3>1. b[1] = <<"path", a.path>>
      BY <3>0
    <3>2. Parsed(a.op, b) = OnPath(a.op, a.path, 0)
      BY <2>4, <3>1 DEF Parsed
    <3>3. Parsed(a.op, b) = [op |-> a.op, path |-> a.path, fd |-> 0, n |-> 0, data |-> <<>>]
      BY <3>2 DEF OnPath, NoCall
    <3> QED BY <2>2, <3>3 DEF Typed
  <2>5. CASE a.op = "CLOSE"
    <3>0. b = <<<<"fd", a.fd - OFFSET>>>>
      BY <2>1, <2>5, BodyOf
    <3>1. b[1] = <<"fd", a.fd - OFFSET>>
      BY <3>0
    <3>2. Parsed(a.op, b) = OnFd(a.op, a.fd - OFFSET, 0)
      BY <2>5, <3>1 DEF Parsed
    <3>3. Parsed(a.op, b)
            = [op |-> a.op, path |-> Nobody, fd |-> a.fd - OFFSET, n |-> 0, data |-> <<>>]
      BY <3>2 DEF OnFd, NoCall
    <3> QED BY <2>2, <3>3 DEF Typed
  <2>6. CASE a.op \in {"READ", "LSEEK", "GETDIRENTRIES"}
    <3>0. b = <<<<"fd", a.fd - OFFSET>>, <<"n", a.n>>>>
      BY <2>1, <2>6, BodyOf
    <3>1. b[1] = <<"fd", a.fd - OFFSET>> /\ b[2] = <<"n", a.n>>
      BY <3>0
    <3>2. Parsed(a.op, b) = OnFd(a.op, a.fd - OFFSET, a.n)
      BY <2>6, <3>1 DEF Parsed
    <3>3. Parsed(a.op, b)
            = [op |-> a.op, path |-> Nobody, fd |-> a.fd - OFFSET, n |-> a.n, data |-> <<>>]
      BY <3>2 DEF OnFd, NoCall
    <3> QED BY <2>2, <3>3 DEF Typed
  <2> QED BY <1>1, <2>3, <2>4, <2>5, <2>6 DEF Ops, PathOps, FdOps
<1>2. CASE a.op = "WRITE"
  <2> DEFINE s == SubSeq(b, 3, Len(b))
  <2>1. a.data \in Seq(Data) /\ Len(a.data) \in Nat /\ a.n = Len(a.data)
    BY <1>2, CallForms, LenProperties DEF Typed
  <2>2. Body(a) = <<<<"fd", a.fd - OFFSET>>, <<"n", a.n>>>> \o Bytes(a.data)
    BY <1>2, BodyOf
  <2>3. /\ Bytes(a.data) \in Seq(Unit) /\ Len(Bytes(a.data)) = Len(a.data)
        /\ \A i \in 1..Len(a.data) : Bytes(a.data)[i] = <<"byte", a.data[i]>>
    BY <2>1, ByteUnits
  <2>4. Len(Body(a)) = 2 + Len(a.data)
    BY <2>1, <2>2, <2>3
  <2>5. Len(b) \in 2..2 + Len(a.data) /\ \A i \in 1..Len(b) : b[i] = Body(a)[i]
    BY <1>2, <2>4, CutForms DEF Fields
  <2>6. b[1] = <<"fd", a.fd - OFFSET>> /\ b[2] = <<"n", a.n>>
    <3>1. b[1] = Body(a)[1] /\ b[2] = Body(a)[2]
      BY <2>1, <2>5
    <3> QED BY <3>1, <2>1, <2>2, <2>3
  <2>7. \A i \in 3..Len(b) : b[i] \in {"byte"} \X Data
    <3> SUFFICES ASSUME NEW i \in 3..Len(b) PROVE b[i] \in {"byte"} \X Data
      OBVIOUS
    <3>1. i - 2 \in 1..Len(a.data) /\ b[i] = Body(a)[i]
      BY <2>1, <2>5
    <3>2. Body(a)[i] = Bytes(a.data)[i - 2]
      BY <2>1, <2>2, <2>3, <3>1
    <3>3. a.data[i - 2] \in Data
      BY <2>1, <3>1, ElementOfSeq
    <3>4. b[i] = <<"byte", a.data[i - 2]>>
      BY <2>3, <3>1, <3>2
    <3> QED BY <3>3, <3>4
  <2>8. s \in Seq({"byte"} \X Data)
    BY <2>1, <2>5, <2>7, SubSeqProperties
  <2> HIDE DEF s
  <2>9. DataOf(b) = [i \in DOMAIN s |-> s[i][2]]
    BY DEF DataOf, Values, s
  <2>10. DataOf(b) \in Seq(Data)
    <3>1. Len(s) \in Nat /\ DOMAIN s = 1..Len(s)
      BY <2>8
    <3>2. ASSUME NEW i \in 1..Len(s) PROVE s[i][2] \in Data
      <4>1. s[i] \in {"byte"} \X Data
        BY <2>8, ElementOfSeq
      <4> QED BY <4>1
    <3>3. [i \in 1..Len(s) |-> s[i][2]] \in [1..Len(s) -> Data]
      BY <3>2
    <3>4. [i \in 1..Len(s) |-> s[i][2]] \in Seq(Data)
      BY <3>1, <3>3, SeqDef, Zenon
    <3> QED BY <2>9, <3>1, <3>4
  <2> DEFINE e == [i \in 1..a.n |-> IF i <= Len(DataOf(b)) THEN DataOf(b)[i] ELSE Junk]
  <2>11. e \in Seq(Data) /\ Len(e) = a.n
    <3>1. Junk \in Data
      BY DEF Data
    <3>2. Len(DataOf(b)) \in Nat /\ \A i \in 1..Len(DataOf(b)) : DataOf(b)[i] \in Data
      BY <2>10, ElementOfSeq, LenProperties
    <3>3. \A i \in 1..a.n : (IF i <= Len(DataOf(b)) THEN DataOf(b)[i] ELSE Junk) \in Data
      BY <3>1, <3>2
    <3> QED BY <3>3
  <2>12. Parsed(a.op, b) = Write(a.fd - OFFSET, e)
    BY <1>2, <2>6 DEF Parsed
  <2> HIDE DEF e
  <2> QED BY <1>2, <2>11, <2>12 DEF Write, NoCall, Typed
<1> QED BY <1>1, <1>2

-----------------------------------------------------------------------------
(* The kernel                                                              *)

LEMMA LeastIsThere ==
    ASSUME NEW S, S \subseteq Nat, S # {}
    PROVE  Min(S) \in S /\ \A x \in S : Min(S) <= x
<1>1. PICK m \in S : \A y \in S : ~(<<y, m>> \in OpToRel(<, Nat))
  BY NatLessThanWellFounded, WFMin
<1>2. ASSUME NEW y \in S PROVE m <= y
  <2>1. y \in Nat /\ m \in Nat
    OBVIOUS
  <2>2. ~(y < m)
    BY <1>1, <2>1 DEF OpToRel
  <2> QED BY <2>1, <2>2
<1> QED BY <1>1, <1>2 DEF Min

LEMMA OfTwo ==
    ASSUME NEW x \in Int, NEW y \in Int
    PROVE  /\ Min({x, y}) = IF x <= y THEN x ELSE y
           /\ Max({x, y}) = IF x <= y THEN y ELSE x
  BY DEF Min, Max

LEMMA WindowForms ==
    ASSUME NEW S, NEW s \in Seq(S), NEW pos \in Nat, NEW n \in Nat
    PROVE  Window(s, pos, n) \in Seq(S) /\ Len(Window(s, pos, n)) \in Nat
<1> DEFINE m == Min({pos + n, Len(s)})
<1>1. Len(s) \in Nat /\ m \in Nat /\ m <= Len(s)
  BY LenProperties, OfTwo
<1>2. \A i \in pos + 1..m : s[i] \in S
  BY <1>1, ElementOfSeq
<1> HIDE DEF m
<1>3. SubSeq(s, pos + 1, m) \in Seq(S)
  BY <1>1, <1>2, SubSeqProperties
<1> QED BY <1>3, LenProperties DEF Window, m

LEMMA OverlayForms ==
    ASSUME NEW old \in Seq(Data), NEW pos \in Nat, NEW d \in Seq(Data)
    PROVE  Overlay(old, pos, d) \in Seq(Data)
<1>1. Len(old) \in Nat /\ Len(d) \in Nat /\ Max({Len(old), pos + Len(d)}) \in Nat
  <2>1. Len(old) \in Nat /\ Len(d) \in Nat
    BY LenProperties
  <2>2. pos + Len(d) \in Nat
    BY <2>1
  <2>3. Len(old) \in Int /\ pos + Len(d) \in Int
    BY <2>1, <2>2
  <2>4. Max({Len(old), pos + Len(d)})
          = IF Len(old) <= pos + Len(d) THEN pos + Len(d) ELSE Len(old)
    BY <2>3, OfTwo, Zenon
  <2> QED BY <2>1, <2>2, <2>4
<1>2. Zero \in Data
  BY DEF Data
<1> DEFINE m == Max({Len(old), pos + Len(d)})
           at(i) == CASE i > pos /\ i <= pos + Len(d) -> d[i - pos]
                      [] i <= Len(old) /\ (i <= pos \/ i > pos + Len(d)) -> old[i]
                      [] OTHER -> Zero
<1>3. ASSUME NEW i \in 1..m PROVE at(i) \in Data
  <2>1. i \in Nat /\ i >= 1
    BY <1>1
  <2>2. i > pos /\ i <= pos + Len(d) => d[i - pos] \in Data
    BY <1>1, <2>1, ElementOfSeq
  <2>3. i <= Len(old) => old[i] \in Data
    BY <1>1, <2>1, ElementOfSeq
  <2> QED BY <1>2, <1>1, <2>1, <2>2, <2>3
<1>4. Overlay(old, pos, d) = [i \in 1..m |-> at(i)] /\ m \in Nat
  BY <1>1 DEF Overlay
<1> HIDE DEF m, at
<1>5. [i \in 1..m |-> at(i)] \in Seq(Data)
  BY <1>3, <1>4
<1> QED BY <1>4, <1>5

Ends  == [of : Inodes \cup Dirs \cup {Nobody}, pos : Nat]
Trees0 == {NoTree} \cup {Tree[d] : d \in Dirs}
Results == [ret : Int, errno : Errors, data : Seq(Data), base : Int, tree : Trees0]

LEMMA KernelParts ==
    ASSUME NEW k, KernelOK(k)
    PROVE  \E n, i, f : k = [names |-> n, inodes |-> i, fds |-> f]
<1>1. k = [names |-> k.names, inodes |-> k.inodes, fds |-> k.fds]
  BY DEF KernelOK
<1> QED BY <1>1

\* The kernel after a descriptor, a file or a name has been changed.
LEMMA EndChanged ==
    ASSUME NEW k, KernelOK(k), NEW c, NEW fd, NEW v \in Ends, v.of = Nobody => v = Closed
    PROVE  KernelOK([k EXCEPT !.fds[c][fd] = v])
<1> DEFINE f == [k.fds EXCEPT ![c][fd] = v]
<1>0. PICK n, h, g : k = [names |-> n, inodes |-> h, fds |-> g]
  BY KernelParts, Zenon
<1>1. [k EXCEPT !.fds[c][fd] = v] = [names |-> k.names, inodes |-> k.inodes, fds |-> f]
  <2>1. [k EXCEPT !.fds[c][fd] = v] = [k EXCEPT !.fds = f]
    OBVIOUS
  <2> HIDE DEF f
  <2>2. [k EXCEPT !.fds = f] = [names |-> k.names, inodes |-> k.inodes, fds |-> f]
    BY <1>0
  <2> QED BY <2>1, <2>2
<1>2. f \in [Clients -> [Fds -> Ends]]
  BY DEF KernelOK, Ends
<1>3. ASSUME NEW b \in Clients, NEW e \in Fds, f[b][e].of = Nobody PROVE f[b][e] = Closed
  <2>1. f[b][e] = IF b = c /\ e = fd THEN v ELSE k.fds[b][e]
    BY DEF KernelOK
  <2> QED BY <1>3, <2>1 DEF KernelOK
<1> HIDE DEF f
<1>4. KernelOK([names |-> k.names, inodes |-> k.inodes, fds |-> f])
  BY <1>2, <1>3 DEF KernelOK, Ends
<1> QED BY <1>1, <1>4, Zenon

LEMMA FileChanged ==
    ASSUME NEW k, KernelOK(k), NEW i, NEW d \in Seq(Data)
    PROVE  KernelOK([k EXCEPT !.inodes[i] = d])
<1> DEFINE f == [k.inodes EXCEPT ![i] = d]
<1>0. PICK n, h, g : k = [names |-> n, inodes |-> h, fds |-> g]
  BY KernelParts, Zenon
<1>1. [k EXCEPT !.inodes[i] = d] = [names |-> k.names, inodes |-> f, fds |-> k.fds]
  BY <1>0
<1>2. f \in [Inodes -> Seq(Data)]
  BY DEF KernelOK
<1> HIDE DEF f
<1> QED BY <1>1, <1>2 DEF KernelOK

LEMMA NameChanged ==
    ASSUME NEW k, KernelOK(k), NEW path, NEW i \in Inodes \cup {Nobody}
    PROVE  KernelOK([k EXCEPT !.names[path] = i])
<1> DEFINE f == [k.names EXCEPT ![path] = i]
<1>0. PICK n, h, g : k = [names |-> n, inodes |-> h, fds |-> g]
  BY KernelParts, Zenon
<1>1. [k EXCEPT !.names[path] = i] = [names |-> f, inodes |-> k.inodes, fds |-> k.fds]
  BY <1>0
<1>2. f \in [Files -> Inodes \cup {Nobody}]
  BY DEF KernelOK
<1> HIDE DEF f
<1> QED BY <1>1, <1>2 DEF KernelOK

LEMMA AllClosed ==
    ASSUME NEW k, KernelOK(k), NEW c \in Clients
    PROVE  KernelOK(CloseAll(k, c))
<1> DEFINE f == [k.fds EXCEPT ![c] = [fd \in Fds |-> Closed]]
<1>0. PICK n, h, g : k = [names |-> n, inodes |-> h, fds |-> g]
  BY KernelParts, Zenon
<1>1. CloseAll(k, c) = [names |-> k.names, inodes |-> k.inodes, fds |-> f]
  BY <1>0 DEF CloseAll
<1>2. Closed \in Ends
  BY DEF Closed, Ends
<1>3. f \in [Clients -> [Fds -> Ends]]
  BY <1>2 DEF KernelOK, Ends
<1>4. ASSUME NEW b \in Clients, NEW e \in Fds, f[b][e].of = Nobody PROVE f[b][e] = Closed
  BY <1>4 DEF KernelOK
<1> HIDE DEF f
<1> QED BY <1>1, <1>3, <1>4 DEF KernelOK, Ends

LEMMA Typical ==
    /\ \A n \in Int : Returns(n) \in Results
    /\ \A e \in Errors : Fails(e) \in Results
    /\ \A n : Returns(n).ret = n
    /\ \A e : Fails(e).ret = -1
<1>1. NoTree \in Trees0 /\ Nobody \in Errors /\ <<>> \in Seq(Data)
  BY DEF Trees0, Errors
<1>2. \A n : Returns(n) = [ret |-> n, errno |-> Nobody, data |-> <<>>, base |-> 0, tree |-> NoTree]
  BY DEF Returns, NoResult, Outcome
<1> DEFINE failed(e) == [ret |-> -1, errno |-> e, data |-> <<>>, base |-> 0, tree |-> NoTree]
<1>3. ASSUME NEW e PROVE Fails(e) = failed(e)
  <2>1. NoResult = [ret |-> 0, errno |-> Nobody, data |-> <<>>, base |-> 0, tree |-> NoTree]
    BY DEF NoResult, Outcome
  <2>2. Fails(e) = [NoResult EXCEPT !.ret = -1, !.errno = e]
    BY DEF Fails
  <2> HIDE DEF NoResult
  <2> QED BY <2>1, <2>2
<1>4. ASSUME NEW n \in Int PROVE Returns(n) \in Results
  <2>1. [ret |-> n, errno |-> Nobody, data |-> <<>>, base |-> 0, tree |-> NoTree] \in Results
    BY <1>1 DEF Results
  <2> QED BY <1>2, <2>1
<1>5. ASSUME NEW e \in Errors PROVE Fails(e) \in Results
  <2>1. failed(e) \in Results
    BY <1>1 DEF Results
  <2> QED BY <1>3, <2>1
<1> QED BY <1>2, <1>3, <1>4, <1>5

\* A call leaves a kernel behind and gives a result of the types they have.
Good(s) == s = Step(s.kernel, s.result) /\ KernelOK(s.kernel) /\ s.result \in Results

LEMMA GoodStep ==
    ASSUME NEW k, NEW r, KernelOK(k), r \in Results
    PROVE  Good(Step(k, r)) /\ Step(k, r).result = r /\ Step(k, r).kernel = k
  BY DEF Good, Step

LEMMA Failing ==
    ASSUME NEW k, KernelOK(k), NEW e \in Errors
    PROVE  Good(Step(k, Fails(e))) /\ Step(k, Fails(e)).result.ret = -1
  BY Typical, GoodStep

LEMMA OpenedGood ==
    ASSUME NEW k, KernelOK(k), NEW c \in Clients, FreeFds(k, c) # {}, NEW of \in Inodes \cup Dirs,
           of # Nobody
    PROVE  Good(Opened(k, c, of))
<1> DEFINE fd == Min(FreeFds(k, c))
           v  == [of |-> of, pos |-> 0]
<1>1. fd \in Int
  <2>1. FreeFds(k, c) \subseteq Nat
    BY RemoteAssumption DEF FreeFds
  <2> QED BY <2>1, LeastIsThere
<1>2. v \in Ends /\ v.of # Nobody
  BY DEF Ends
<1> HIDE DEF v, fd
<1>3. KernelOK([k EXCEPT !.fds[c][fd] = v])
  BY <1>2, EndChanged
<1>4. Opened(k, c, of) = Step([k EXCEPT !.fds[c][fd] = v], Returns(fd))
  BY DEF Opened, v, fd
<1> QED BY <1>1, <1>3, <1>4, Typical, GoodStep

LEMMA OpenGood ==
    ASSUME NEW k, KernelOK(k), NEW c \in Clients, NEW path, NEW creat
    PROVE  Good(Open(k, c, path, creat))
<1> /\ "EMFILE" \in Errors /\ "ENOENT" \in Errors /\ "ENOSPC" \in Errors
    /\ Nobody \notin Inodes /\ Nobody \notin Dirs /\ Dirs \cap Files = {}
  BY RemoteAssumption DEF Errors
<1>1. CASE FreeFds(k, c) = {}
  BY <1>1, Failing DEF Open
<1>2. CASE FreeFds(k, c) # {} /\ path \in Dirs
  <2>1. Open(k, c, path, creat) = Opened(k, c, path)
    BY <1>2 DEF Open
  <2> QED BY <1>2, <2>1, OpenedGood
<1>3. CASE FreeFds(k, c) # {} /\ path \notin Dirs /\ path \in Files
  <2>1. CASE k.names[path] # Nobody
    <3>1. k.names[path] \in Inodes
      BY <1>3, <2>1 DEF KernelOK
    <3> QED BY <1>3, <2>1, <3>1, OpenedGood DEF Open
  <2>2. CASE k.names[path] = Nobody /\ ~creat
    BY <1>3, <2>2, Failing DEF Open
  <2>3. CASE k.names[path] = Nobody /\ creat /\ FreeInodes(k) = {}
    BY <1>3, <2>3, Failing DEF Open
  <2>4. CASE k.names[path] = Nobody /\ creat /\ FreeInodes(k) # {}
    <3> DEFINE i  == CHOOSE i \in FreeInodes(k) : TRUE
               k1 == [k EXCEPT !.names[path] = i, !.inodes[i] = <<>>]
    <3>1. i \in Inodes
      BY <2>4 DEF FreeInodes
    <3>2. Open(k, c, path, creat) = Opened(k1, c, i)
      BY <1>3, <2>4 DEF Open, Created
    <3> HIDE DEF i
    <3>3. k1 = [[k EXCEPT !.names[path] = i] EXCEPT !.inodes[i] = <<>>]
      OBVIOUS
    <3>4. KernelOK(k1)
      <4> DEFINE k0 == [k EXCEPT !.names[path] = i]
      <4>1. KernelOK(k0)
        BY <3>1, NameChanged
      <4> HIDE DEF k0
      <4>2. KernelOK([k0 EXCEPT !.inodes[i] = <<>>])
        <5>1. <<>> \in Seq(Data)
          OBVIOUS
        <5> QED BY <4>1, <5>1, FileChanged
      <4> QED BY <3>3, <4>2 DEF k0
    <3>5. k1.fds = k.fds
      <4>1. PICK n, h, g : k = [names |-> n, inodes |-> h, fds |-> g]
        BY KernelParts, Zenon
      <4> QED BY <4>1
    <3> HIDE DEF k1
    <3>6. FreeFds(k1, c) # {}
      BY <1>3, <3>5 DEF FreeFds
    <3>7. Good(Opened(k1, c, i))
      BY <3>1, <3>4, <3>6, OpenedGood
    <3> QED BY <3>2, <3>7
  <2> QED BY <2>1, <2>2, <2>3, <2>4
<1>4. CASE FreeFds(k, c) # {} /\ path \notin Dirs /\ path \notin Files
  BY <1>4, Failing DEF Open
<1> QED BY <1>1, <1>2, <1>3, <1>4

LEMMA CloseGood ==
    ASSUME NEW k, KernelOK(k), NEW c \in Clients, NEW fd
    PROVE  Good(Close(k, c, fd))
<1>1. Closed \in Ends /\ (Closed.of = Nobody => Closed = Closed)
  BY DEF Closed, Ends
<1>2. KernelOK([k EXCEPT !.fds[c][fd] = Closed])
  BY <1>1, EndChanged
<1> QED BY <1>2, GoodStep, Typical DEF Close

\* What an open descriptor leads to.
LEMMA EndForms ==
    ASSUME NEW k, KernelOK(k), NEW c \in Clients, NEW fd, IsOpen(k, c, fd)
    PROVE  /\ fd \in Fds /\ k.fds[c][fd] \in Ends
           /\ k.fds[c][fd].pos \in Nat
           /\ k.fds[c][fd].of # Nobody
           /\ k.fds[c][fd].of \in Inodes \cup Dirs
           /\ ~IsDir(k, c, fd) => k.fds[c][fd].of \in Inodes
  BY DEF IsOpen, KernelOK, Ends, IsDir, Closed

\* A descriptor that moves on.
LEMMA EndMoved ==
    ASSUME NEW k, KernelOK(k), NEW c \in Clients, NEW fd, IsOpen(k, c, fd), NEW pos \in Nat
    PROVE  KernelOK([k EXCEPT !.fds[c][fd].pos = pos])
<1> DEFINE v == [k.fds[c][fd] EXCEPT !.pos = pos]
<1>1. fd \in Fds /\ k.fds[c][fd] \in Ends /\ k.fds[c][fd].of # Nobody
  BY EndForms
<1>2. v \in Ends /\ v.of # Nobody
  BY <1>1 DEF Ends
<1>3. [k EXCEPT !.fds[c][fd].pos = pos] = [k EXCEPT !.fds[c][fd] = v]
  OBVIOUS
<1> HIDE DEF v
<1> QED BY <1>2, <1>3, EndChanged

\* A result with the data that was read or listed.
LEMMA DataReturned ==
    ASSUME NEW d \in Seq(Data), NEW base \in Int
    PROVE  /\ [Returns(Len(d)) EXCEPT !.data = d] \in Results
           /\ [Returns(Len(d)) EXCEPT !.data = d].ret = Len(d)
           /\ [Returns(Len(d)) EXCEPT !.data = d].data = d
           /\ [Returns(Len(d)) EXCEPT !.data = d, !.base = base] \in Results
           /\ [Returns(Len(d)) EXCEPT !.data = d, !.base = base].ret = Len(d)
           /\ [Returns(Len(d)) EXCEPT !.data = d, !.base = base].data = d
<1>1. NoTree \in Trees0 /\ Nobody \in Errors /\ Len(d) \in Int
  BY LenProperties DEF Trees0, Errors
<1>2. Returns(Len(d))
        = [ret |-> Len(d), errno |-> Nobody, data |-> <<>>, base |-> 0, tree |-> NoTree]
  BY DEF Returns, NoResult, Outcome
<1> DEFINE o(b) == [ret |-> Len(d), errno |-> Nobody, data |-> d, base |-> b, tree |-> NoTree]
<1>3. [Returns(Len(d)) EXCEPT !.data = d] = o(0)
  BY <1>2
<1>4. [Returns(Len(d)) EXCEPT !.data = d, !.base = base] = o(base)
  <2>1. [Returns(Len(d)) EXCEPT !.data = d, !.base = base] = [o(0) EXCEPT !.base = base]
    BY <1>3
  <2>2. [o(0) EXCEPT !.base = base] = o(base)
    OBVIOUS
  <2> HIDE DEF o
  <2> QED BY <2>1, <2>2
<1>5. ASSUME NEW b \in Int PROVE o(b) \in Results /\ o(b).ret = Len(d) /\ o(b).data = d
  BY <1>1 DEF Results
<1> HIDE DEF o
<1>6. o(0) \in Results /\ o(0).ret = Len(d) /\ o(0).data = d
  BY <1>5
<1>7. o(base) \in Results /\ o(base).ret = Len(d) /\ o(base).data = d
  BY <1>5
<1>8. /\ [Returns(Len(d)) EXCEPT !.data = d] \in Results
      /\ [Returns(Len(d)) EXCEPT !.data = d].ret = Len(d)
      /\ [Returns(Len(d)) EXCEPT !.data = d].data = d
  BY <1>3, <1>6, Zenon
<1>9. /\ [Returns(Len(d)) EXCEPT !.data = d, !.base = base] \in Results
      /\ [Returns(Len(d)) EXCEPT !.data = d, !.base = base].ret = Len(d)
      /\ [Returns(Len(d)) EXCEPT !.data = d, !.base = base].data = d
  BY <1>4, <1>7, Zenon
<1> QED BY <1>8, <1>9, Zenon

LEMMA ReadGood ==
    ASSUME NEW k, KernelOK(k), NEW c \in Clients, NEW fd, IsOpen(k, c, fd), NEW n \in Nat
    PROVE  /\ Good(Read(k, c, fd, n))
           /\ Read(k, c, fd, n).result.ret # -1 =>
                Read(k, c, fd, n).result.ret = Len(Read(k, c, fd, n).result.data)
<1>1. CASE IsDir(k, c, fd)
  <2>1. "EISDIR" \in Errors
    BY DEF Errors
  <2> QED BY <1>1, <2>1, Failing DEF Read
<1>2. CASE ~IsDir(k, c, fd)
  <2> DEFINE at == k.fds[c][fd]
             d  == Window(k.inodes[at.of], at.pos, n)
             k1 == [k EXCEPT !.fds[c][fd].pos = at.pos + Len(d)]
             r1 == [Returns(Len(d)) EXCEPT !.data = d]
  <2>1. at.pos \in Nat /\ at.of \in Inodes
    BY <1>2, EndForms
  <2>2. k.inodes[at.of] \in Seq(Data)
    BY <2>1 DEF KernelOK
  <2>3. d \in Seq(Data) /\ Len(d) \in Nat
    BY <2>1, <2>2, WindowForms
  <2>4. at.pos + Len(d) \in Nat
    BY <2>1, <2>3
  <2>5. KernelOK(k1)
    BY <2>4, EndMoved
  <2>6. Read(k, c, fd, n) = Step(k1, r1)
    BY <1>2 DEF Read
  <2> HIDE DEF d
  <2>7. r1 \in Results /\ r1.ret = Len(r1.data)
    <3>1. 0 \in Int
      OBVIOUS
    <3>2. r1 \in Results /\ r1.ret = Len(d) /\ r1.data = d
      BY <2>3, <3>1, DataReturned, Zenon
    <3> QED BY <3>2, Zenon
  <2> HIDE DEF k1, r1
  <2> QED BY <2>5, <2>6, <2>7, GoodStep
<1> QED BY <1>1, <1>2

LEMMA ListGood ==
    ASSUME NEW k, KernelOK(k), NEW c \in Clients, NEW fd, IsOpen(k, c, fd), NEW n \in Nat
    PROVE  /\ Good(List(k, c, fd, n))
           /\ List(k, c, fd, n).result.ret # -1 =>
                List(k, c, fd, n).result.ret = Len(List(k, c, fd, n).result.data)
<1>1. CASE ~IsDir(k, c, fd)
  <2>1. "ENOTDIR" \in Errors
    BY DEF Errors
  <2> QED BY <1>1, <2>1, Failing DEF List
<1>2. CASE IsDir(k, c, fd)
  <2> DEFINE at == k.fds[c][fd]
             d  == Window(Entries[at.of], at.pos, n)
             k1 == [k EXCEPT !.fds[c][fd].pos = at.pos + Len(d)]
             r1 == [Returns(Len(d)) EXCEPT !.data = d, !.base = at.pos]
  <2>1. at.pos \in Nat /\ at.of \in Dirs
    BY <1>2, EndForms DEF IsDir
  <2>2. Entries[at.of] \in Seq(Data)
    <3>1. Entries[at.of] \in Seq(Range(Entries[at.of]))
      BY <2>1, RemoteAssumption
    <3>2. Range(Entries[at.of]) \subseteq InLists
      BY <2>1 DEF InLists
    <3>3. Range(Entries[at.of]) \subseteq Data
      BY <3>2 DEF Data
    <3> QED BY <3>1, <3>3, SeqMonotonic
  <2>3. d \in Seq(Data) /\ Len(d) \in Nat
    BY <2>1, <2>2, WindowForms
  <2>4. at.pos + Len(d) \in Nat
    BY <2>1, <2>3
  <2>5. KernelOK(k1)
    BY <2>4, EndMoved
  <2>6. List(k, c, fd, n) = Step(k1, r1)
    BY <1>2 DEF List
  <2> HIDE DEF d
  <2>7. r1 \in Results /\ r1.ret = Len(r1.data)
    <3>1. at.pos \in Int
      BY <2>1
    <3>2. r1 \in Results /\ r1.ret = Len(d) /\ r1.data = d
      BY <2>3, <3>1, DataReturned, Zenon
    <3> QED BY <3>2, Zenon
  <2> HIDE DEF k1, r1
  <2> QED BY <2>5, <2>6, <2>7, GoodStep
<1> QED BY <1>1, <1>2

LEMMA WriteGood ==
    ASSUME NEW k, KernelOK(k), NEW c \in Clients, NEW fd, IsOpen(k, c, fd), NEW d \in Seq(Data)
    PROVE  Good(Written(k, c, fd, d))
<1>1. CASE IsDir(k, c, fd)
  <2>1. "EBADF" \in Errors
    BY DEF Errors
  <2> QED BY <1>1, <2>1, Failing DEF Written
<1>2. CASE ~IsDir(k, c, fd) /\ d = <<>>
  BY <1>2, GoodStep, Typical DEF Written
<1>3. CASE ~IsDir(k, c, fd) /\ d # <<>>
  <2> DEFINE at == k.fds[c][fd]
             f  == Overlay(k.inodes[at.of], at.pos, d)
             k1 == [k EXCEPT !.inodes[at.of] = f]
             k2 == [k1 EXCEPT !.fds[c][fd].pos = at.pos + Len(d)]
  <2>1. at.pos \in Nat /\ at.of \in Inodes /\ Len(d) \in Nat
    BY <1>3, EndForms, LenProperties
  <2>2. f \in Seq(Data)
    <3>1. k.inodes[at.of] \in Seq(Data)
      BY <2>1 DEF KernelOK
    <3> QED BY <2>1, <3>1, OverlayForms
  <2>3. KernelOK(k1)
    <3> HIDE DEF f, at
    <3> QED BY <2>2, FileChanged
  <2>4. k1.fds = k.fds
    <3>1. PICK n, h, g : k = [names |-> n, inodes |-> h, fds |-> g]
      BY KernelParts, Zenon
    <3> HIDE DEF f, at
    <3> QED BY <3>1
  <2>5. Written(k, c, fd, d) = Step(k2, Returns(Len(d)))
    BY <1>3 DEF Written
  <2>6. IsOpen(k1, c, fd)
    BY <2>4 DEF IsOpen
  <2>7. at.pos + Len(d) \in Nat
    BY <2>1
  <2> HIDE DEF k1, at
  <2>8. KernelOK(k2)
    BY <2>3, <2>6, <2>7, EndMoved
  <2> HIDE DEF k2
  <2> QED BY <2>1, <2>5, <2>8, GoodStep, Typical
<1> QED BY <1>1, <1>2, <1>3

LEMMA SyscallGood ==
    ASSUME NEW k, KernelOK(k), NEW c \in Clients, NEW a \in Typed
    PROVE  LET s == Syscall(k, c, a)
           IN  /\ Good(s)
               /\ a.op \in {"READ", "GETDIRENTRIES"} /\ s.result.ret # -1 =>
                    s.result.ret = Len(s.result.data)
               /\ a.op = "GETDIRTREE" /\ s.result.ret # -1 =>
                    s.result.tree \in {Tree[d] : d \in Dirs}
<1> DEFINE s == Syscall(k, c, a)
<1> /\ "EBADF" \in Errors /\ "ENOENT" \in Errors /\ "EISDIR" \in Errors
    /\ a.n \in Nat /\ a.data \in Seq(Data) /\ a.op \in Ops
  BY DEF Errors, Typed
<1> SUFFICES /\ Good(s)
             /\ a.op \in {"READ", "GETDIRENTRIES"} /\ s.result.ret # -1 =>
                  s.result.ret = Len(s.result.data)
             /\ a.op = "GETDIRTREE" /\ s.result.ret # -1 =>
                  s.result.tree \in {Tree[d] : d \in Dirs}
  BY Zenon
<1>1. CASE a.op \in FdOps /\ ~IsOpen(k, c, a.fd)
  <2>1. s = Step(k, Fails("EBADF"))
    BY <1>1 DEF Syscall
  <2> HIDE DEF s
  <2> QED BY <1>1, <2>1, Failing DEF FdOps
<1>2. CASE a.op = "OPEN"
  <2>1. s = Open(k, c, a.path, a.n = 1)
    BY <1>2 DEF Syscall, FdOps
  <2> HIDE DEF s
  <2> QED BY <1>2, <2>1, OpenGood
<1>3. CASE a.op = "CLOSE" /\ IsOpen(k, c, a.fd)
  <2>1. s = Close(k, c, a.fd)
    BY <1>3 DEF Syscall
  <2> HIDE DEF s
  <2> QED BY <1>3, <2>1, CloseGood
<1>4. CASE a.op = "READ" /\ IsOpen(k, c, a.fd)
  <2>1. s = Read(k, c, a.fd, a.n)
    BY <1>4 DEF Syscall
  <2> HIDE DEF s
  <2> QED BY <1>4, <2>1, ReadGood
<1>5. CASE a.op = "WRITE" /\ IsOpen(k, c, a.fd)
  <2>1. s = Written(k, c, a.fd, a.data)
    BY <1>5 DEF Syscall
  <2> HIDE DEF s
  <2> QED BY <1>5, <2>1, WriteGood
<1>6. CASE a.op = "LSEEK" /\ IsOpen(k, c, a.fd)
  <2>1. s = Step([k EXCEPT !.fds[c][a.fd].pos = a.n], Returns(a.n))
    BY <1>6 DEF Syscall, Seek
  <2>2. KernelOK([k EXCEPT !.fds[c][a.fd].pos = a.n])
    BY <1>6, EndMoved
  <2> HIDE DEF s
  <2> QED BY <1>6, <2>1, <2>2, GoodStep, Typical
<1>7. CASE a.op = "UNLINK"
  <2>1. s = Unlink(k, a.path)
    BY <1>7 DEF Syscall, FdOps
  <2>2. KernelOK([k EXCEPT !.names[a.path] = Nobody])
    BY NameChanged
  <2>3. Good(Step([k EXCEPT !.names[a.path] = Nobody], Returns(0)))
    BY <2>2, GoodStep, Typical
  <2>4. Good(Unlink(k, a.path))
    BY <2>3, Failing DEF Unlink
  <2> HIDE DEF s
  <2> QED BY <1>7, <2>1, <2>4
<1>8. CASE a.op = "STAT"
  <2>1. s = Step(k, IF Exists(k, a.path) THEN Returns(0) ELSE Fails("ENOENT"))
    BY <1>8 DEF Syscall, FdOps
  <2> HIDE DEF s
  <2> QED BY <1>8, <2>1, GoodStep, Typical
<1>9. CASE a.op = "GETDIRENTRIES" /\ IsOpen(k, c, a.fd)
  <2>1. s = List(k, c, a.fd, a.n)
    BY <1>9 DEF Syscall
  <2> HIDE DEF s
  <2> QED BY <1>9, <2>1, ListGood
<1>10. CASE a.op = "GETDIRTREE"
  <2>1. s = Step(k, IF a.path \in Dirs THEN [Returns(0) EXCEPT !.tree = Tree[a.path]]
                    ELSE Fails("ENOENT"))
    BY <1>10 DEF Syscall, FdOps
  <2>2. CASE a.path \in Dirs
    <3> DEFINE r1 == [Returns(0) EXCEPT !.tree = Tree[a.path]]
    <3>1. r1 = [ret |-> 0, errno |-> Nobody, data |-> <<>>, base |-> 0, tree |-> Tree[a.path]]
      <4>1. Returns(0) = [ret |-> 0, errno |-> Nobody, data |-> <<>>, base |-> 0, tree |-> NoTree]
        BY DEF Returns, NoResult, Outcome
      <4> QED BY <4>1
    <3>2. Tree[a.path] \in Trees0 /\ Nobody \in Errors /\ <<>> \in Seq(Data)
      BY <2>2 DEF Trees0, Errors
    <3>3. r1 \in Results /\ r1.tree = Tree[a.path]
      <4>1. [ret |-> 0, errno |-> Nobody, data |-> <<>>, base |-> 0, tree |-> Tree[a.path]]
              \in Results
        BY <3>2 DEF Results
      <4> HIDE DEF r1
      <4> QED BY <3>1, <4>1
    <3> HIDE DEF r1
    <3>4. s = Step(k, r1)
      BY <2>1, <2>2 DEF r1
    <3> HIDE DEF s
    <3> QED BY <1>10, <2>2, <3>3, <3>4, GoodStep
  <2>3. CASE a.path \notin Dirs
    <3>1. s = Step(k, Fails("ENOENT"))
      BY <2>1, <2>3
    <3> HIDE DEF s
    <3> QED BY <1>10, <3>1, Failing
  <2> QED BY <2>2, <2>3
<1> HIDE DEF s
<1> QED BY <1>1, <1>2, <1>3, <1>4, <1>5, <1>6, <1>7, <1>8, <1>9, <1>10
        DEF Ops, PathOps, FdOps

-----------------------------------------------------------------------------
(* Replies                                                                 *)

LEMMA SameLength ==
    ASSUME NEW op, NEW got \in Seq(Unit), NEW more \in Seq(Unit), Len(got) >= 2
    PROVE  DataLength(op, got \o more) = DataLength(op, got)
<1>1. (got \o more)[1] = got[1] /\ (got \o more)[2] = got[2]
  <2>1. Len(got) \in Nat /\ Len(more) \in Nat
    BY LenProperties
  <2> QED BY <2>1
<1> QED BY <1>1 DEF DataLength

LEMMA Joined ==
    ASSUME NEW s \in Seq(Unit), NEW t \in Seq(Unit)
    PROVE  /\ s \o t \in Seq(Unit) /\ Len(s \o t) = Len(s) + Len(t)
           /\ s \o <<>> = s /\ <<>> \o s = s
           /\ s \o t = <<>> <=> s = <<>> /\ t = <<>>
           /\ Len(s) \in Nat /\ Len(t) \in Nat
           /\ Len(s) = 0 <=> s = <<>>
           /\ \A i \in 1..Len(s) : (s \o t)[i] = s[i]
           /\ \A i \in 1..Len(t) : (s \o t)[Len(s) + i] = t[i]
  BY ConcatProperties, LenProperties

\* What a handler sends is what the library waits for.
LEMMA ReplyComplete ==
    ASSUME NEW op \in Ops, NEW r \in Results,
           op \in {"READ", "GETDIRENTRIES"} =>
             r.ret = Len(r.data) \/ (r.ret = -1 /\ r.data = <<>>),
           op = "GETDIRTREE" => r.tree \in {Tree[d] : d \in Dirs}
    PROVE  /\ Reply(op, r) \in Seq(Unit) /\ Complete(op, Reply(op, r))
           /\ DataLength(op, Reply(op, r)) \in Nat
<1> DEFINE ret == <<"ret", r.ret>>
           err == <<"errno", r.errno>>
           base == <<"base", r.base>>
<1>1. ret \in Unit /\ err \in Unit /\ base \in Unit
  BY DEF Unit, Results
<1>2. <<ret, err>> \in Seq(Unit) /\ Len(<<ret, err>>) = 2
  BY <1>1
<1>3. CASE op = "GETDIRTREE"
  <2> DEFINE nodes == serialize_dirtree[r.tree]
             size  == <<"size", Len(nodes)>>
  <2>1. nodes \in Seq({"node"} \X [name : STRING, subdirs : Nat])
    BY <1>3, TreesAssumption
  <2> HIDE DEF nodes
  <2>2. nodes \in Seq(Unit)
    <3>1. {"node"} \X [name : STRING, subdirs : Nat] \subseteq Unit
      BY DEF Unit
    <3> QED BY <2>1, <3>1, SeqMonotonic
  <2>3. Len(nodes) \in Nat
    BY <2>2, LenProperties
  <2>4. size \in Unit
    BY <2>3 DEF Unit
  <2>5. <<err, size>> \in Seq(Unit) /\ Len(<<err, size>>) = 2
    BY <1>1, <2>4
  <2>6. Reply(op, r) = <<err, size>> \o nodes
    BY <1>3 DEF Reply, nodes
  <2>7. /\ Reply(op, r) \in Seq(Unit) /\ Len(Reply(op, r)) = 2 + Len(nodes)
        /\ Reply(op, r)[2] = size
    BY <2>2, <2>3, <2>5, <2>6
  <2>8. DataLength(op, Reply(op, r)) = Len(nodes)
    <3>1. DataLength(op, Reply(op, r)) = Reply(op, r)[2][2]
      BY <1>3 DEF DataLength
    <3> QED BY <2>7, <3>1
  <2> QED BY <1>3, <2>3, <2>7, <2>8 DEF Complete, DataLeft
<1>4. CASE op \in {"READ", "GETDIRENTRIES"}
  <2> DEFINE bytes == Bytes(r.data)
             l == Len(r.data)
  <2>1. r.data \in Seq(Data) /\ l \in Nat
    BY LenProperties DEF Results
  <2>2. bytes \in Seq(Unit) /\ Len(bytes) = l
    BY <2>1, ByteUnits
  <2>3. Max({r.ret, 0}) = l
    <3>1. r.ret \in Int /\ 0 \in Int
      BY DEF Results
    <3>2. Max({r.ret, 0}) = IF r.ret <= 0 THEN 0 ELSE r.ret
      BY <3>1, OfTwo, Zenon
    <3>3. r.data = <<>> => l = 0
      OBVIOUS
    <3> HIDE DEF l
    <3>4. r.ret = l \/ (r.ret = -1 /\ l = 0)
      BY <1>4, <3>3 DEF l
    <3> QED BY <2>1, <3>2, <3>4
  <2> HIDE DEF bytes, l
  <2>4. <<ret, err>> \o bytes \in Seq(Unit) /\ Len(<<ret, err>> \o bytes) = 2 + l
    BY <1>2, <2>1, <2>2
  <2>5. (<<ret, err>> \o bytes)[1] = ret
    BY <1>2, <2>1, <2>2
  <2>6. CASE op = "READ"
    <3>1. Reply(op, r) = <<ret, err>> \o bytes
      BY <2>6 DEF Reply, bytes
    <3>2. DataLength(op, Reply(op, r)) = l
      <4>1. DataLength(op, Reply(op, r)) = Max({Reply(op, r)[1][2], 0})
        BY <2>6 DEF DataLength
      <4>2. Reply(op, r)[1][2] = r.ret
        BY <2>5, <3>1
      <4> QED BY <2>3, <4>1, <4>2, Zenon
    <3>3. Reply(op, r) \in Seq(Unit) /\ Len(Reply(op, r)) = 2 + l
      BY <2>4, <3>1, Zenon
    <3>4. DataLeft(op, Reply(op, r)) = 0
      BY <2>1, <3>2, <3>3 DEF DataLeft
    <3> QED BY <2>1, <2>6, <3>2, <3>3, <3>4 DEF Complete
  <2>7. CASE op = "GETDIRENTRIES"
    <3>1. Reply(op, r) = (<<ret, err>> \o bytes) \o <<base>>
      BY <2>7 DEF Reply, bytes
    <3> DEFINE front == <<ret, err>> \o bytes
    <3>2. front \in Seq(Unit) /\ Len(front) = 2 + l /\ front[1] = ret
      BY <2>4, <2>5
    <3>3. <<base>> \in Seq(Unit) /\ Len(<<base>>) = 1
      BY <1>1
    <3> HIDE DEF front
    <3>4. /\ front \o <<base>> \in Seq(Unit) /\ Len(front \o <<base>>) = 3 + l
          /\ (front \o <<base>>)[1] = ret
      BY <2>1, <3>2, <3>3
    <3>5. DataLength(op, Reply(op, r)) = l
      <4>1. DataLength(op, Reply(op, r)) = Max({Reply(op, r)[1][2], 0})
        BY <2>7 DEF DataLength
      <4>2. Reply(op, r)[1][2] = r.ret
        BY <3>1, <3>4 DEF front
      <4> QED BY <2>3, <4>1, <4>2, Zenon
    <3>6. Reply(op, r) \in Seq(Unit) /\ Len(Reply(op, r)) = 3 + l
      BY <3>1, <3>4, Zenon DEF front
    <3>7. DataLeft(op, Reply(op, r)) = -1
      BY <2>1, <3>5, <3>6 DEF DataLeft
    <3> QED BY <2>1, <2>7, <3>5, <3>6, <3>7 DEF Complete
  <2> QED BY <1>4, <2>6, <2>7
<1>5. CASE op \notin {"GETDIRTREE", "READ", "GETDIRENTRIES"}
  <2>1. Reply(op, r) = <<ret, err>>
    BY <1>5 DEF Reply
  <2>2. DataLength(op, Reply(op, r)) = 0
    BY <1>5 DEF DataLength
  <2> HIDE DEF ret, err
  <2> QED BY <1>2, <1>5, <2>1, <2>2 DEF Complete, DataLeft
<1> QED BY <1>3, <1>4, <1>5

-----------------------------------------------------------------------------
(* The invariant                                                           *)

\* What a program and its child do changes nothing of the others' connections.
LEMMA OneProgram ==
    ASSUME IInv, NEW c \in Clients,
           DOMAIN client' = Clients, DOMAIN child' = Clients,
           toServer' \in [Clients -> Seq(Unit)], toClient' \in [Clients -> Seq(Unit)],
           \A d \in Clients \ {c} :
             /\ client'[d] = client[d] /\ child'[d] = child[d]
             /\ toServer'[d] = toServer[d] /\ toClient'[d] = toClient[d],
           KernelOK(kernel'), ClientOK(c, client'[c]), ChildOK(child'[c]), Channel(c)'
    PROVE  IInv'
<1>1. ASSUME NEW d \in Clients \ {c} PROVE Channel(d)'
  <2>1. Channel(d) /\ d \in Clients
    BY DEF IInv
  <2> QED BY <2>1 DEF Channel, Requested, Answered, Bodies
<1>2. \A d \in Clients : ClientOK(d, client'[d]) /\ ChildOK(child'[d])
  BY DEF IInv, TypeInv
<1>3. TypeInv'
  BY <1>2 DEF TypeInv
<1> QED BY <1>1, <1>3 DEF IInv

\* The parts of the invariant that speak of one program.
LEMMA Facts ==
    ASSUME IInv, NEW c \in Clients
    PROVE  /\ ClientOK(c, client[c]) /\ ChildOK(child[c]) /\ Channel(c)
           /\ toServer[c] \in Seq(Unit) /\ toClient[c] \in Seq(Unit)
           /\ client[c].got \in Seq(Unit) /\ child[c].buf \in Seq(Unit)
           /\ client[c].call \in Calls[c] => client[c].call \in Requests
           /\ KernelOK(kernel)
  BY DEF IInv, TypeInv, ClientOK, ChildOK, Requests

LEMMA InitialInv == Init => IInv
<1> SUFFICES ASSUME Init PROVE IInv
  OBVIOUS
<1>1. <<>> \in Seq(Unit)
  OBVIOUS
<1>2. NoChild \in [pc : {"none", "header", "body", "ended", "dead"},
                   head : [op : Ops \cup {Nobody}, size : Nat], buf : Seq(Unit)]
  BY <1>1 DEF NoChild, NoHead
<1>3. ChildOK(NoChild)
  <2>1. Len(NoChild.buf) <= NoChild.head.size
    BY DEF NoChild, NoHead
  <2>2. NoChild = [NoChild EXCEPT !.pc = NoChild.pc]
    BY DEF NoChild
  <2> QED BY <1>2, <2>1, <2>2 DEF ChildOK
<1>4. ASSUME NEW c \in Clients
      PROVE  ClientOK(c, client[c]) /\ ChildOK(child[c]) /\ Channel(c)
  <2>1. client[c] = [pc |-> "idle", call |-> NoCall, got |-> <<>>, made |-> 0]
    BY DEF Init
  <2>2. MaxCalls[c] \in Nat
    BY RemoteAssumption
  <2>3. ClientOK(c, client[c])
    BY <1>1, <2>1, <2>2 DEF ClientOK
  <2>4. child[c] = NoChild /\ toServer[c] = <<>> /\ toClient[c] = <<>>
    BY DEF Init
  <2>5. Channel(c)
    BY <2>1, <2>4 DEF Channel, NoChild
  <2> QED BY <1>3, <2>3, <2>4, <2>5
<1>5. KernelOK(Fresh(Contents))
  <2> DEFINE g == CHOOSE g \in [DOMAIN Contents -> Inodes] : IsInjective(g)
             file == AntiFunction(g)
             k == Fresh(Contents)
  <2>1. g \in [DOMAIN Contents -> Inodes]
    BY RemoteAssumption
  <2>2. k = [names  |-> [f \in Files |-> IF f \in DOMAIN Contents THEN g[f] ELSE Nobody],
             inodes |-> [i \in Inodes |-> IF i \in DOMAIN file THEN Contents[file[i]] ELSE <<>>],
             fds    |-> [c \in Clients |-> [fd \in Fds |-> Closed]]]
    BY DEF Fresh
  <2>3. \A i \in DOMAIN file : file[i] \in DOMAIN Contents
    BY <2>1 DEF AntiFunction, Inverse, Range
  <2>4. \A f \in DOMAIN Contents : Contents[f] \in Seq(Data)
    <3> SUFFICES ASSUME NEW f \in DOMAIN Contents PROVE Contents[f] \in Seq(Data)
      OBVIOUS
    <3>1. Contents[f] \in Seq(Range(Contents[f]))
      BY RemoteAssumption
    <3>2. Range(Contents[f]) \subseteq InFiles
      BY DEF InFiles
    <3>3. Range(Contents[f]) \subseteq Data
      BY <3>2 DEF Data
    <3> QED BY <3>1, <3>3, SeqMonotonic
  <2>5. <<>> \in Seq(Data) /\ Closed \in [of : Inodes \cup Dirs \cup {Nobody}, pos : Nat]
    BY DEF Closed
  <2> HIDE DEF g, file, k
  <2>6. /\ k.names \in [Files -> Inodes \cup {Nobody}]
        /\ k.inodes \in [Inodes -> Seq(Data)]
        /\ k.fds = [c \in Clients |-> [fd \in Fds |-> Closed]]
    BY <2>1, <2>2, <2>3, <2>4, <2>5
  <2>7. k.fds \in [Clients -> [Fds -> [of : Inodes \cup Dirs \cup {Nobody}, pos : Nat]]]
    BY <2>5, <2>6
  <2>8. k = [names |-> k.names, inodes |-> k.inodes, fds |-> k.fds]
    BY <2>2
  <2>9. KernelOK(k)
    BY <2>6, <2>7, <2>8 DEF KernelOK
  <2> QED BY <2>9 DEF k
<1>6. toServer \in [Clients -> Seq(Unit)] /\ toClient \in [Clients -> Seq(Unit)]
  BY <1>1 DEF Init
<1>7. DOMAIN client = Clients /\ DOMAIN child = Clients /\ kernel = Fresh(Contents)
  BY DEF Init
<1> QED BY <1>4, <1>5, <1>6, <1>7 DEF IInv, TypeInv

LEMMA MessageOf ==
    ASSUME NEW a \in Requests
    PROVE  /\ HeadOf(a) \in [op : Ops, size : Nat]
           /\ <<"head", HeadOf(a)>> \in Unit
           /\ Message(a) = <<<<"head", HeadOf(a)>>>> \o Body(a)
           /\ Message(a) \in Seq(Unit)
<1>1. Body(a) \in Seq(Unit) /\ Len(Body(a)) \in Nat /\ a.op \in Ops
  BY BodyShape, CallForms DEF Typed
<1>2. HeadOf(a) \in [op : Ops, size : Nat]
  BY <1>1 DEF HeadOf
<1>3. <<"head", HeadOf(a)>> \in Unit
  BY <1>2 DEF Unit
<1>4. Message(a) = <<<<"head", HeadOf(a)>>>> \o Body(a)
  BY DEF Message, HeadOf
<1>5. <<<<"head", HeadOf(a)>>>> \o Body(a) \in Seq(Unit)
  BY <1>1, <1>3, Split
<1> QED BY <1>2, <1>3, <1>4, <1>5

LEMMA CallKeeps ==
    ASSUME IInv, NEW c \in Clients, Call(c) PROVE IInv'
<1>1. /\ ClientOK(c, client[c]) /\ ChildOK(child[c]) /\ Channel(c)
      /\ toServer[c] = <<>> /\ toClient[c] = <<>>
      /\ child[c].pc \in {"none", "header"} /\ KernelOK(kernel)
  BY Facts DEF Call, Channel
<1>2. PICK a \in Calls[c] :
        /\ client' = [client EXCEPT
             ![c] = [pc   |-> IF IsLocal(a) THEN "local" ELSE "waiting",
                     call |-> a, got |-> <<>>, made |-> client[c].made + 1]]
        /\ toServer' = [toServer EXCEPT ![c] = IF IsLocal(a) THEN @ ELSE @ \o Message(a)]
  BY DEF Call
<1>3. a \in Requests
  BY DEF Requests
<1>4. /\ Message(a) \in Seq(Unit) /\ <<>> \in Seq(Unit)
      /\ Message(a) = <<<<"head", HeadOf(a)>>>> \o Body(a)
  BY <1>3, MessageOf
<1>5. client'[c] = [pc   |-> IF IsLocal(a) THEN "local" ELSE "waiting",
                    call |-> a, got |-> <<>>, made |-> client[c].made + 1]
  BY <1>2 DEF IInv, TypeInv
<1>6. toServer'[c] = IF IsLocal(a) THEN <<>> ELSE Message(a)
  <2>1. <<>> \o Message(a) = Message(a)
    BY <1>4
  <2> QED BY <1>1, <1>2, <2>1 DEF IInv, TypeInv
<1>7. /\ DOMAIN client' = Clients /\ DOMAIN child' = Clients
      /\ toServer' \in [Clients -> Seq(Unit)] /\ toClient' \in [Clients -> Seq(Unit)]
  <2>1. toServer' = [toServer EXCEPT ![c] = IF IsLocal(a) THEN <<>> ELSE Message(a)]
    BY <1>2, <1>6 DEF IInv, TypeInv
  <2>2. (IF IsLocal(a) THEN <<>> ELSE Message(a)) \in Seq(Unit)
    BY <1>4
  <2>3. toServer' \in [Clients -> Seq(Unit)]
    BY <2>1, <2>2 DEF IInv, TypeInv
  <2>4. toClient' = toClient /\ child' = child
    BY DEF Call
  <2> QED BY <1>2, <2>3, <2>4 DEF IInv, TypeInv
<1>8. client[c].made + 1 \in 0..MaxCalls[c]
  <2>1. client[c].made \in 0..MaxCalls[c] /\ MaxCalls[c] \in Nat
    BY <1>1, RemoteAssumption DEF ClientOK
  <2> QED BY <2>1 DEF Call
<1>9. ClientOK(c, client'[c])
  BY <1>4, <1>5, <1>8 DEF ClientOK
<1>10. toClient'[c] = <<>> /\ child'[c] = child[c] /\ KernelOK(kernel')
  BY <1>1 DEF Call
<1>11. Channel(c)'
  <2>1. CASE IsLocal(a)
    BY <1>1, <1>5, <1>6, <1>10, <2>1 DEF Channel
  <2>2. CASE ~IsLocal(a)
    <3>1. client'[c].call = a /\ client'[c].got = <<>> /\ client'[c].pc = "waiting"
      BY <1>5, <2>2
    <3>2. Bodies(c)' = {Body(a)}
      BY <3>1 DEF Bodies
    <3>3. Requested(c)'
      <4>1. toServer'[c] = <<<<"head", HeadOf(a)>>>> \o Body(a) /\ Body(a) \in Bodies(c)'
        BY <1>4, <1>6, <2>2, <3>2
      <4>2. client'[c].got \o toClient'[c] = <<>>
        BY <1>4, <1>10, <3>1
      <4>3. child'[c].pc \in {"none", "header"}
        BY <1>1, <1>10
      <4> QED BY <3>1, <4>1, <4>2, <4>3, Zenon DEF Requested
    <3> QED BY <3>1, <3>3 DEF Channel
  <2> QED BY <2>1, <2>2
<1>12. \A d \in Clients \ {c} :
         /\ client'[d] = client[d] /\ child'[d] = child[d]
         /\ toServer'[d] = toServer[d] /\ toClient'[d] = toClient[d]
  BY <1>2 DEF Call, IInv, TypeInv
<1> QED BY <1>1, <1>7, <1>9, <1>10, <1>11, <1>12, OneProgram

LEMMA CallLocalKeeps ==
    ASSUME IInv, NEW c \in Clients, CallLocal(c) PROVE IInv'
<1> DEFINE a == client[c].call
           r == Reply(a.op, Fails("EBADF"))
<1>1. /\ ClientOK(c, client[c]) /\ ChildOK(child[c]) /\ Channel(c) /\ KernelOK(kernel)
      /\ client[c].pc = "local" /\ a \in Calls[c] /\ IsLocal(a) /\ a \in Requests
      /\ toServer[c] = <<>> /\ toClient[c] = <<>> /\ child[c].pc \in {"none", "header"}
  BY Facts DEF CallLocal, ClientOK, Channel
<1>2. r \in Seq(Unit) /\ Complete(a.op, r) /\ DataLength(a.op, r) \in Nat
  <2>1. a.op \in FdOps /\ a.op \in Ops /\ a.op # "GETDIRTREE"
    BY <1>1 DEF IsLocal, Ops, FdOps
  <2>2. "EBADF" \in Errors
    BY DEF Errors
  <2>3. Fails("EBADF") \in Results /\ Fails("EBADF").ret = -1
    BY <2>2, Typical
  <2>4. Fails("EBADF").data = <<>>
    BY DEF Fails, NoResult, Outcome
  <2> QED BY <2>1, <2>3, <2>4, ReplyComplete
<1>3. client' = [client EXCEPT ![c] = [client[c] EXCEPT !.pc = "waiting", !.got = r]]
  BY DEF CallLocal
<1> HIDE DEF r
<1>4. client'[c] = [client[c] EXCEPT !.pc = "waiting", !.got = r]
  BY <1>3 DEF IInv, TypeInv
<1>5. ClientOK(c, client'[c]) /\ client'[c].pc = "waiting" /\ client'[c].got = r
      /\ client'[c].call = a
  BY <1>1, <1>2, <1>4 DEF ClientOK
<1>6. toClient' = toClient /\ toServer' = toServer /\ child' = child /\ kernel' = kernel
  BY DEF CallLocal
<1>7. Channel(c)'
  <2>1. r \o <<>> = r
    BY <1>2
  <2>2. Answered(c)'
    BY <1>1, <1>2, <1>5, <1>6, <2>1 DEF Answered
  <2> QED BY <1>5, <2>2 DEF Channel
<1>8. /\ DOMAIN client' = Clients /\ DOMAIN child' = Clients
      /\ toServer' \in [Clients -> Seq(Unit)] /\ toClient' \in [Clients -> Seq(Unit)]
  BY <1>3, <1>6 DEF IInv, TypeInv
<1>9. \A d \in Clients \ {c} : client'[d] = client[d]
  BY <1>3 DEF IInv, TypeInv
<1> QED BY <1>1, <1>5, <1>6, <1>7, <1>8, <1>9, OneProgram

LEMMA AcceptKeeps ==
    ASSUME IInv, NEW c \in Clients, Accept(c) PROVE IInv'
<1>1. /\ ClientOK(c, client[c]) /\ ChildOK(child[c]) /\ Channel(c) /\ KernelOK(kernel)
      /\ child[c].pc = "none"
  BY Facts DEF Accept
<1>2. /\ child' = [child EXCEPT ![c] = [child[c] EXCEPT !.pc = "header"]]
      /\ client' = client /\ toServer' = toServer /\ toClient' = toClient /\ kernel' = kernel
  BY DEF Accept
<1>3. child'[c] = [child[c] EXCEPT !.pc = "header"]
  BY <1>2 DEF IInv, TypeInv
<1>4. ChildOK(child'[c]) /\ child'[c].pc = "header"
  BY <1>1, <1>3 DEF ChildOK, NoChild
<1>5. Channel(c)'
  BY <1>1, <1>2, <1>4 DEF Channel, Requested, Answered, Bodies
<1>6. /\ DOMAIN client' = Clients /\ DOMAIN child' = Clients
      /\ toServer' \in [Clients -> Seq(Unit)] /\ toClient' \in [Clients -> Seq(Unit)]
  BY <1>2 DEF IInv, TypeInv
<1>7. \A d \in Clients \ {c} : child'[d] = child[d]
  BY <1>2 DEF IInv, TypeInv
<1> QED BY <1>1, <1>2, <1>4, <1>5, <1>6, <1>7, OneProgram

\* Whenever a child has something to receive, a request is on its way.
LEMMA RequestThere ==
    ASSUME IInv, NEW c \in Clients,
           (child[c].pc = "header" /\ toServer[c] # <<>>) \/ child[c].pc = "body"
    PROVE  Requested(c) /\ client[c].pc \in {"waiting", "gone"}
<1>1. ClientOK(c, client[c]) /\ Channel(c)
  BY Facts
<1>2. client[c].pc \in {"idle", "local", "waiting", "gone"}
  BY <1>1 DEF ClientOK
<1> QED BY <1>1, <1>2 DEF Channel, Answered

LEMMA RecvHeaderKeeps ==
    ASSUME IInv, NEW c \in Clients, RecvHeader(c) PROVE IInv'
<1> DEFINE a == client[c].call
<1>1. /\ ClientOK(c, client[c]) /\ ChildOK(child[c]) /\ KernelOK(kernel)
      /\ Requested(c) /\ client[c].pc \in {"waiting", "gone"} /\ child[c].pc = "header"
      /\ a \in Calls[c] /\ a \in Requests
  BY Facts, RequestThere DEF RecvHeader, Requested
<1>2. PICK b \in Bodies(c) : toServer[c] = <<<<"head", HeadOf(a)>>>> \o b
  BY <1>1 DEF Requested
<1>3. b \in Seq(Unit)
  <2>1. Bodies(c) \subseteq Cuts(a)
    BY <1>1, WholeIsACut DEF Bodies
  <2> QED BY <1>1, <2>1, CutForms
<1>4. /\ <<"head", HeadOf(a)>> \in Unit /\ HeadOf(a) \in [op : Ops, size : Nat]
  BY <1>1, MessageOf
<1>5. Head(toServer[c]) = <<"head", HeadOf(a)>> /\ Tail(toServer[c]) = b
  BY <1>2, <1>3, <1>4, Split
<1>6. /\ child' = [child EXCEPT ![c] = [pc |-> "body", head |-> HeadOf(a), buf |-> <<>>]]
      /\ toServer' = [toServer EXCEPT ![c] = b]
  <2>1. Head(toServer[c])[2] = HeadOf(a)
    BY <1>5
  <2>2. child' = [child EXCEPT
                    ![c] = [pc |-> "body", head |-> Head(toServer[c])[2], buf |-> <<>>]]
    BY DEF RecvHeader
  <2>3. toServer' = [toServer EXCEPT ![c] = Tail(toServer[c])]
    BY DEF RecvHeader
  <2> QED BY <1>5, <2>1, <2>2, <2>3, Zenon
<1>7. child'[c] = [pc |-> "body", head |-> HeadOf(a), buf |-> <<>>] /\ toServer'[c] = b
  BY <1>6 DEF IInv, TypeInv
<1>8. client' = client /\ toClient' = toClient /\ kernel' = kernel
  BY DEF RecvHeader
<1>9. ChildOK(child'[c])
  <2>1. <<>> \in Seq(Unit) /\ Len(<<>>) = 0
    OBVIOUS
  <2> QED BY <1>4, <1>7, <2>1 DEF ChildOK
<1>10. Channel(c)'
  <2>1. Bodies(c)' = Bodies(c)
    BY <1>8 DEF Bodies
  <2>2. <<>> \o b = b
    BY <1>3
  <2>3. Requested(c)'
    BY <1>1, <1>7, <1>8, <2>1, <2>2 DEF Requested
  <2>4. client[c].pc = "gone" => toClient[c] = <<>>
    BY Facts DEF Channel
  <2> QED BY <1>1, <1>8, <2>3, <2>4 DEF Channel
<1>11. /\ DOMAIN client' = Clients /\ DOMAIN child' = Clients
       /\ toServer' \in [Clients -> Seq(Unit)] /\ toClient' \in [Clients -> Seq(Unit)]
  BY <1>3, <1>6, <1>8 DEF IInv, TypeInv
<1>12. \A d \in Clients \ {c} : child'[d] = child[d] /\ toServer'[d] = toServer[d]
  BY <1>6 DEF IInv, TypeInv
<1> QED BY <1>1, <1>8, <1>9, <1>10, <1>11, <1>12, OneProgram

LEMMA RecvBodyKeeps ==
    ASSUME IInv, NEW c \in Clients, RecvBody(c) PROVE IInv'
<1> DEFINE left == child[c].head.size - Len(child[c].buf)
           to   == toServer[c]
           buf  == child[c].buf
<1>1. /\ ClientOK(c, client[c]) /\ ChildOK(child[c]) /\ KernelOK(kernel)
      /\ Requested(c) /\ client[c].pc \in {"waiting", "gone"} /\ child[c].pc = "body"
      /\ to \in Seq(Unit) /\ buf \in Seq(Unit)
  BY Facts, RequestThere DEF RecvBody
<1>2. PICK rv \in 1..Min({ToRead(left), Len(to)}) :
        /\ child' = [child EXCEPT ![c].buf = @ \o SubSeq(toServer[c], 1, rv)]
        /\ toServer' = [toServer EXCEPT ![c] = SubSeq(@, rv + 1, Len(@))]
  BY DEF RecvBody
<1>3. rv \in 0..Len(to) /\ rv <= left
  <2>1. left \in Int /\ MAXMSGLEN \in Int /\ Len(to) \in Int /\ Len(to) \in Nat
    BY <1>1, RemoteAssumption, LenProperties DEF ChildOK
  <2> HIDE DEF left, to
  <2>2. ToRead(left) = IF left <= MAXMSGLEN THEN left ELSE MAXMSGLEN
    BY <2>1, OfTwo, Zenon DEF ToRead
  <2>3. ToRead(left) \in Int /\ ToRead(left) <= left
    BY <2>1, <2>2
  <2>4. Min({ToRead(left), Len(to)}) = IF ToRead(left) <= Len(to) THEN ToRead(left) ELSE Len(to)
    BY <2>1, <2>3, OfTwo, Zenon
  <2> QED BY <2>1, <2>3, <2>4
<1> DEFINE more == SubSeq(to, 1, rv)
           rest == SubSeq(to, rv + 1, Len(to))
<1>4. /\ buf \o more \in Seq(Unit) /\ rest \in Seq(Unit)
      /\ Len(buf \o more) = Len(buf) + rv /\ (buf \o more) \o rest = buf \o to
  <2>1. buf \in Seq(Unit) /\ to \in Seq(Unit) /\ rv \in 0..Len(to)
    BY <1>1, <1>3
  <2> HIDE DEF buf, to
  <2> QED BY <2>1, Moved, Zenon
<1>5. /\ child' = [child EXCEPT ![c] = [child[c] EXCEPT !.buf = buf \o more]]
      /\ toServer' = [toServer EXCEPT ![c] = rest]
  BY <1>2 DEF IInv, TypeInv
<1> HIDE DEF more, rest
<1>6. child'[c] = [child[c] EXCEPT !.buf = buf \o more] /\ toServer'[c] = rest
  BY <1>5 DEF IInv, TypeInv
<1>7. /\ child'[c].pc = "body" /\ child'[c].head = child[c].head
      /\ child'[c].buf = buf \o more
  BY <1>1, <1>6 DEF ChildOK
<1>8. ChildOK(child'[c])
  <2>1. Len(buf) \in Nat /\ child[c].head.size \in Nat
    BY <1>1, LenProperties DEF ChildOK
  <2>2. Len(buf \o more) <= child[c].head.size
    BY <1>3, <1>4, <2>1
  <2> QED BY <1>1, <1>4, <1>6, <1>7, <2>2 DEF ChildOK
<1>9. client' = client /\ toClient' = toClient /\ kernel' = kernel
  BY DEF RecvBody
<1>10. Channel(c)'
  <2>1. Bodies(c)' = Bodies(c)
    BY <1>9 DEF Bodies
  <2>2. Requested(c)'
    BY <1>1, <1>4, <1>6, <1>7, <1>9, <2>1 DEF Requested
  <2>3. client[c].pc = "gone" => toClient[c] = <<>>
    BY Facts DEF Channel
  <2> QED BY <1>1, <1>9, <2>2, <2>3 DEF Channel
<1>11. /\ DOMAIN client' = Clients /\ DOMAIN child' = Clients
       /\ toServer' \in [Clients -> Seq(Unit)] /\ toClient' \in [Clients -> Seq(Unit)]
  BY <1>4, <1>5, <1>9 DEF IInv, TypeInv
<1>12. \A d \in Clients \ {c} : child'[d] = child[d] /\ toServer'[d] = toServer[d]
  BY <1>5 DEF IInv, TypeInv
<1> QED BY <1>1, <1>8, <1>9, <1>10, <1>11, <1>12, OneProgram

\* What the handler has before it when the inner loop is over.
LEMMA BodyThere ==
    ASSUME IInv, NEW c \in Clients, BodyOver(c)
    PROVE  /\ client[c].call \in Calls[c] /\ client[c].call \in Requests
           /\ child[c].head.op = client[c].call.op
           /\ child[c].buf \in Cuts(client[c].call)
           /\ toServer[c] = <<>> /\ toClient[c] = <<>> /\ client[c].got = <<>>
           /\ client[c].pc \in {"waiting", "gone"}
           /\ client[c].pc = "waiting" => child[c].buf = Body(client[c].call)
<1> DEFINE a == client[c].call
           buf == child[c].buf
           to == toServer[c]
<1>1. /\ Requested(c) /\ client[c].pc \in {"waiting", "gone"} /\ child[c].pc = "body"
      /\ to \in Seq(Unit) /\ buf \in Seq(Unit)
      /\ client[c].got \in Seq(Unit) /\ toClient[c] \in Seq(Unit)
  BY Facts, RequestThere DEF BodyOver
<1>2. /\ a \in Calls[c] /\ a \in Requests /\ child[c].head = HeadOf(a)
      /\ buf \o to \in Bodies(c) /\ client[c].got \o toClient[c] = <<>>
  BY <1>1, Facts DEF Requested
<1>3. Bodies(c) \subseteq Cuts(a) /\ (client[c].pc = "waiting" => Bodies(c) = {Body(a)})
  BY <1>1, <1>2, WholeIsACut DEF Bodies
<1>4. Len(buf \o to) <= Len(Body(a)) /\ Len(Body(a)) \in Nat
  <2>1. buf \o to \in Cuts(a)
    BY <1>2, <1>3
  <2> DEFINE all == buf \o to
  <2>2. all \in Cuts(a)
    BY <2>1
  <2> HIDE DEF all, a
  <2>3. Len(all) \in Fields(a)..Len(Body(a))
    BY <1>2, <2>2, CutForms
  <2>4. Fields(a) \in Int /\ Len(Body(a)) \in Nat
    BY <1>2, BodyShape
  <2>5. Len(all) <= Len(Body(a))
    BY <2>3, <2>4
  <2> QED BY <2>4, <2>5 DEF all
<1>5. to = <<>>
  <2>1. CASE Len(buf) = child[c].head.size
    <3>1. Len(buf) = Len(Body(a))
      BY <1>2, <2>1 DEF HeadOf
    <3>2. Len(buf \o to) = Len(buf) + Len(to) /\ Len(to) \in Nat /\ (Len(to) = 0 => to = <<>>)
      BY <1>1, Joined
    <3> HIDE DEF to, buf
    <3> QED BY <1>4, <3>1, <3>2
  <2>2. CASE NoMore(c)
    BY <2>2 DEF NoMore
  <2> QED BY <2>1, <2>2 DEF BodyOver
<1>6. buf \o to = buf
  BY <1>1, <1>5
<1>7. toClient[c] = <<>> /\ client[c].got = <<>>
  BY <1>1, <1>2, Joined
<1> QED BY <1>1, <1>2, <1>3, <1>5, <1>6, <1>7 DEF HeadOf

\* What the call of a handler leaves behind and gives.
LEMMA CalledGood ==
    ASSUME IInv, NEW c \in Clients, BodyOver(c)
    PROVE  LET op == child[c].head.op
               r  == Called(c).result
           IN  /\ op \in Ops /\ r \in Results /\ KernelOK(Called(c).kernel)
               /\ op \in {"READ", "GETDIRENTRIES"} /\ r.ret # -1 => r.ret = Len(r.data)
               /\ op = "GETDIRTREE" /\ r.ret # -1 => r.tree \in {Tree[d] : d \in Dirs}
<1> DEFINE a == client[c].call
           call == Parsed(child[c].head.op, child[c].buf)
<1>1. a \in Requests /\ child[c].head.op = a.op /\ child[c].buf \in Cuts(a) /\ KernelOK(kernel)
  BY BodyThere, Facts
<1>2. call \in Typed /\ call.op = a.op
  BY <1>1, ParsedTyped
<1>3. Called(c) = Syscall(kernel, c, call)
  BY DEF Called
<1>4. a.op \in Ops
  BY <1>1, CallForms DEF Typed
<1> HIDE DEF call
<1> QED BY <1>1, <1>2, <1>3, <1>4, SyscallGood DEF Good

LEMMA AnswerKeeps ==
    ASSUME IInv, NEW c \in Clients, Answer(c) PROVE IInv'
<1> DEFINE op == child[c].head.op
           r  == Called(c).result
           reply == Reply(op, r)
<1>1. /\ ClientOK(c, client[c]) /\ ChildOK(child[c]) /\ BodyOver(c) /\ ~Unanswerable(op, r)
      /\ client[c].pc \in {"waiting", "gone"} /\ child[c].head.op = client[c].call.op
      /\ toServer[c] = <<>> /\ toClient[c] = <<>> /\ client[c].got = <<>>
  BY Facts, BodyThere DEF Answer
<1>2. op \in Ops /\ r \in Results /\ KernelOK(Called(c).kernel)
  BY <1>1, CalledGood
<1>3. reply \in Seq(Unit) /\ Complete(op, reply) /\ DataLength(op, reply) \in Nat
  <2>1. op \in {"READ", "GETDIRENTRIES", "GETDIRTREE"} => r.ret # -1
    BY <1>1 DEF Unanswerable
  <2>2. op \in {"READ", "GETDIRENTRIES"} => r.ret = Len(r.data)
    BY <1>1, <2>1, CalledGood
  <2>3. op = "GETDIRTREE" => r.tree \in {Tree[d] : d \in Dirs}
    BY <1>1, <2>1, CalledGood
  <2> HIDE DEF op, r
  <2> QED BY <1>2, <2>2, <2>3, ReplyComplete
<1>4. /\ toClient' = [toClient EXCEPT ![c] = IF client[c].pc = "gone" THEN @ ELSE @ \o reply]
      /\ child' = [child EXCEPT ![c] = [NoChild EXCEPT !.pc = "header"]]
      /\ client' = client /\ toServer' = toServer /\ kernel' = Called(c).kernel
  BY DEF Answer, Handled
<1> HIDE DEF reply, op, r
<1>5. /\ child'[c] = [NoChild EXCEPT !.pc = "header"]
      /\ toClient'[c] = IF client[c].pc = "gone" THEN <<>> ELSE reply
  <2>1. <<>> \o reply = reply
    BY <1>3
  <2> QED BY <1>1, <1>4, <2>1 DEF IInv, TypeInv
<1>6. ChildOK(child'[c]) /\ child'[c].pc = "header"
  <2>1. <<>> \in Seq(Unit) /\ Len(<<>>) = 0
    OBVIOUS
  <2>2. child'[c] = [pc |-> "header", head |-> [op |-> Nobody, size |-> 0], buf |-> <<>>]
    BY <1>5 DEF NoChild, NoHead
  <2>3. child'[c] = [NoChild EXCEPT !.pc = child'[c].pc]
    BY <1>5, <2>2
  <2> QED BY <2>1, <2>2, <2>3 DEF ChildOK
<1>7. Channel(c)'
  <2>1. CASE client[c].pc = "gone"
    BY <1>1, <1>4, <1>5, <1>6, <2>1 DEF Channel
  <2>2. CASE client[c].pc = "waiting"
    <3>0. <<>> \o reply = reply /\ client'[c].got = <<>> /\ toClient'[c] = reply
      <4>1. <<>> \o reply = reply
        BY <1>3
      <4>2. client[c].pc # "gone"
        BY <2>2
      <4>3. toClient'[c] = reply
        BY <1>5, <4>2
      <4> QED BY <1>1, <1>4, <4>1, <4>3
    <3>1. client'[c].got \o toClient'[c] = reply
      BY <3>0
    <3>2. Answered(c)'
      BY <1>1, <1>3, <1>4, <1>6, <3>1 DEF Answered, op
    <3> QED BY <1>4, <2>2, <3>2 DEF Channel
  <2> QED BY <1>1, <2>1, <2>2
<1>8. /\ DOMAIN client' = Clients /\ DOMAIN child' = Clients
      /\ toServer' \in [Clients -> Seq(Unit)] /\ toClient' \in [Clients -> Seq(Unit)]
  <2>1. toClient'[c] \in Seq(Unit)
    BY <1>3, <1>5
  <2>2. toClient' \in [Clients -> Seq(Unit)]
    BY <1>4, <2>1 DEF IInv, TypeInv
  <2> QED BY <1>4, <2>2 DEF IInv, TypeInv
<1>9. \A d \in Clients \ {c} : child'[d] = child[d] /\ toClient'[d] = toClient[d]
  BY <1>4 DEF IInv, TypeInv
<1>10. KernelOK(kernel')
  BY <1>2, <1>4
<1> QED BY <1>1, <1>4, <1>6, <1>7, <1>8, <1>9, <1>10, OneProgram

LEMMA CrashKeeps ==
    ASSUME IInv, NEW c \in Clients, Crash(c) PROVE IInv'
<1>1. /\ ClientOK(c, client[c]) /\ client[c].pc \in {"waiting", "gone"} /\ KernelOK(kernel)
      /\ toServer[c] = <<>> /\ toClient[c] = <<>> /\ client[c].got = <<>>
  BY Facts, BodyThere DEF Crash
<1>2. /\ child' = [child EXCEPT ![c] = [NoChild EXCEPT !.pc = "dead"]]
      /\ client' = client /\ toServer' = toServer /\ toClient' = toClient
      /\ kernel' = CloseAll(kernel, c)
  BY DEF Crash
<1>3. child'[c] = [NoChild EXCEPT !.pc = "dead"]
  BY <1>2 DEF IInv, TypeInv
<1>4. ChildOK(child'[c]) /\ child'[c].pc = "dead"
  <2>1. <<>> \in Seq(Unit) /\ Len(<<>>) = 0
    OBVIOUS
  <2>2. child'[c] = [pc |-> "dead", head |-> [op |-> Nobody, size |-> 0], buf |-> <<>>]
    BY <1>3 DEF NoChild, NoHead
  <2>3. child'[c] = [NoChild EXCEPT !.pc = child'[c].pc]
    BY <1>3, <2>2
  <2> QED BY <2>1, <2>2, <2>3 DEF ChildOK
<1>5. Channel(c)'
  <2>1. client'[c].got \o toClient'[c] = <<>>
    BY <1>1, <1>2
  <2> QED BY <1>1, <1>2, <1>4, <2>1 DEF Channel
<1>6. KernelOK(kernel')
  BY <1>1, <1>2, AllClosed
<1>7. /\ DOMAIN client' = Clients /\ DOMAIN child' = Clients
      /\ toServer' \in [Clients -> Seq(Unit)] /\ toClient' \in [Clients -> Seq(Unit)]
  BY <1>2 DEF IInv, TypeInv
<1>8. \A d \in Clients \ {c} : child'[d] = child[d]
  BY <1>2 DEF IInv, TypeInv
<1> QED BY <1>1, <1>2, <1>4, <1>5, <1>6, <1>7, <1>8, OneProgram

LEMMA EndChildKeeps ==
    ASSUME IInv, NEW c \in Clients, EndChild(c) PROVE IInv'
<1>1. /\ ClientOK(c, client[c]) /\ ChildOK(child[c]) /\ Channel(c) /\ KernelOK(kernel)
      /\ client[c].pc = "gone" /\ toServer[c] = <<>> /\ child[c].pc = "header"
  BY Facts DEF EndChild, NoMore
<1>2. /\ child' = [child EXCEPT ![c] = [child[c] EXCEPT !.pc = "ended"]]
      /\ client' = client /\ toServer' = toServer /\ toClient' = toClient
      /\ kernel' = CloseAll(kernel, c)
  BY DEF EndChild
<1>3. child'[c] = [child[c] EXCEPT !.pc = "ended"]
  BY <1>2 DEF IInv, TypeInv
<1>4. ChildOK(child'[c]) /\ child'[c].pc = "ended"
  BY <1>1, <1>3 DEF ChildOK, NoChild
<1>5. Channel(c)'
  BY <1>1, <1>2, <1>4 DEF Channel
<1>6. KernelOK(kernel')
  BY <1>1, <1>2, AllClosed
<1>7. /\ DOMAIN client' = Clients /\ DOMAIN child' = Clients
      /\ toServer' \in [Clients -> Seq(Unit)] /\ toClient' \in [Clients -> Seq(Unit)]
  BY <1>2 DEF IInv, TypeInv
<1>8. \A d \in Clients \ {c} : child'[d] = child[d]
  BY <1>2 DEF IInv, TypeInv
<1> QED BY <1>1, <1>2, <1>4, <1>5, <1>6, <1>7, <1>8, OneProgram

\* Whenever something of a reply has not been taken, the reply is there.
LEMMA ReplyThere ==
    ASSUME IInv, NEW c \in Clients, client[c].pc = "waiting",
           client[c].got # <<>> \/ toClient[c] # <<>>
    PROVE  /\ Answered(c)
           /\ Len(client[c].got) >= 2 =>
                /\ DataLength(client[c].call.op, client[c].got)
                     = DataLength(client[c].call.op, client[c].got \o toClient[c])
                /\ DataLength(client[c].call.op, client[c].got) \in Nat
<1> DEFINE got == client[c].got
           to  == toClient[c]
<1>1. Channel(c) /\ got \in Seq(Unit) /\ to \in Seq(Unit)
  BY Facts
<1>2. Answered(c)
  <2>1. got \o to # <<>>
    <3>1. to # <<>> \/ got # <<>>
      OBVIOUS
    <3> HIDE DEF got, to
    <3> QED BY <1>1, <3>1, Joined
  <2> QED BY <1>1, <2>1 DEF Channel, Requested
<1>3. Len(got) >= 2 => DataLength(client[c].call.op, got \o to) = DataLength(client[c].call.op, got)
  BY <1>1, SameLength
<1> QED BY <1>2, <1>3 DEF Answered

\* Of the reply some units have been taken.
LEMMA TakeKeeps ==
    ASSUME IInv, NEW c \in Clients, NEW rv \in 1..Len(toClient[c]), Take(c, rv),
           client[c].pc = "waiting"
    PROVE  IInv'
<1> DEFINE got  == client[c].got
           to   == toClient[c]
           more == SubSeq(to, 1, rv)
           rest == SubSeq(to, rv + 1, Len(to))
<1>1. /\ ClientOK(c, client[c]) /\ ChildOK(child[c]) /\ Channel(c) /\ KernelOK(kernel)
      /\ got \in Seq(Unit) /\ to \in Seq(Unit)
  BY Facts
<1>2. Answered(c)
  <2>1. to # <<>>
    OBVIOUS
  <2> QED BY <2>1, ReplyThere
<1>3. /\ got \o more \in Seq(Unit) /\ rest \in Seq(Unit)
      /\ (got \o more) \o rest = got \o to
  <2>1. rv \in 0..Len(to)
    <3>1. Len(to) \in Nat
      BY <1>1, LenProperties
    <3> QED BY <3>1
  <2> HIDE DEF got, to
  <2> QED BY <1>1, <2>1, Moved, Zenon
<1>4. /\ client' = [client EXCEPT ![c] = [client[c] EXCEPT !.got = got \o more]]
      /\ toClient' = [toClient EXCEPT ![c] = rest]
      /\ toServer' = toServer /\ child' = child /\ kernel' = kernel
  BY DEF Take
<1> HIDE DEF more, rest
<1>5. client'[c] = [client[c] EXCEPT !.got = got \o more] /\ toClient'[c] = rest
  BY <1>4 DEF IInv, TypeInv
<1>6. /\ ClientOK(c, client'[c]) /\ client'[c].pc = "waiting"
      /\ client'[c].got = got \o more /\ client'[c].call = client[c].call
  BY <1>1, <1>3, <1>5 DEF ClientOK
<1>7. Channel(c)'
  <2>1. client'[c].got \o toClient'[c] = got \o to
    BY <1>3, <1>5, <1>6
  <2>2. Answered(c)'
    BY <1>2, <1>4, <1>6, <2>1 DEF Answered
  <2> QED BY <1>6, <2>2 DEF Channel
<1>8. /\ DOMAIN client' = Clients /\ DOMAIN child' = Clients
      /\ toServer' \in [Clients -> Seq(Unit)] /\ toClient' \in [Clients -> Seq(Unit)]
  BY <1>3, <1>4 DEF IInv, TypeInv
<1>9. \A d \in Clients \ {c} : client'[d] = client[d] /\ toClient'[d] = toClient[d]
  BY <1>4 DEF IInv, TypeInv
<1> QED BY <1>1, <1>4, <1>6, <1>7, <1>8, <1>9, OneProgram

LEMMA RecvFieldKeeps ==
    ASSUME IInv, NEW c \in Clients, RecvField(c) PROVE IInv'
<1>1. toClient[c] \in Seq(Unit)
  BY Facts
<1>2. 1 \in 1..Len(toClient[c])
  BY <1>1 DEF RecvField
<1> QED BY <1>2, TakeKeeps DEF RecvField

LEMMA DataTaken ==
    ASSUME IInv, NEW c \in Clients, RecvData(c)
    PROVE  \E rv \in 1..Len(toClient[c]) : Take(c, rv)
<1> DEFINE left == DataLeft(client[c].call.op, client[c].got)
           got  == client[c].got
           l    == Len(toClient[c])
<1>1. l \in Nat /\ Len(got) \in Nat /\ MAXMSGLEN \in Int
  BY Facts, LenProperties, RemoteAssumption
<1>2. PICK rv \in 1..Min({ToRead(left), l}) : Take(c, rv)
  BY DEF RecvData
<1>3. DataLength(client[c].call.op, got) \in Nat
  <2>1. got # <<>>
    BY DEF RecvData
  <2> QED BY <2>1, ReplyThere DEF RecvData
<1>4. left \in Int
  BY <1>1, <1>3 DEF DataLeft
<1>5. rv \in 1..l
  <2> HIDE DEF left, l
  <2>1. ToRead(left) = IF left <= MAXMSGLEN THEN left ELSE MAXMSGLEN
    BY <1>1, <1>4, OfTwo, Zenon DEF ToRead
  <2>2. ToRead(left) \in Int /\ l \in Int
    BY <1>1, <1>4, <2>1
  <2>3. Min({ToRead(left), l}) = IF ToRead(left) <= l THEN ToRead(left) ELSE l
    BY <2>2, OfTwo, Zenon
  <2> QED BY <2>2, <2>3
<1> QED BY <1>2, <1>5

LEMMA RecvDataKeeps ==
    ASSUME IInv, NEW c \in Clients, RecvData(c) PROVE IInv'
  BY DataTaken, TakeKeeps DEF RecvData

LEMMA RecvBasepKeeps ==
    ASSUME IInv, NEW c \in Clients, RecvBasep(c) PROVE IInv'
<1>1. toClient[c] \in Seq(Unit)
  BY Facts
<1>2. 1 \in 1..Len(toClient[c])
  BY <1>1 DEF RecvBasep
<1> QED BY <1>2, TakeKeeps DEF RecvBasep

\* When the library has what it waits for, nothing else is on its way.
LEMMA AllTaken ==
    ASSUME IInv, NEW c \in Clients, client[c].pc = "waiting",
           Complete(client[c].call.op, client[c].got)
    PROVE  /\ toServer[c] = <<>> /\ toClient[c] = <<>>
           /\ child[c].pc \in {"none", "header"}
<1> DEFINE op  == client[c].call.op
           got == client[c].got
           to  == toClient[c]
<1>1. got \in Seq(Unit) /\ to \in Seq(Unit)
  BY Facts
<1>2. Len(got) >= 2 /\ got # <<>>
  BY DEF Complete
<1>3. /\ Answered(c) /\ DataLength(op, got) \in Nat
      /\ DataLength(op, got) = DataLength(op, got \o to)
  BY <1>2, ReplyThere
<1>4. Complete(op, got \o to) /\ Complete(op, got)
  BY <1>3 DEF Answered
<1> HIDE DEF got, to
<1>5. /\ Len(got \o to) = Len(got) + Len(to) /\ Len(got) \in Nat /\ Len(to) \in Nat
      /\ Len(to) = 0 <=> to = <<>>
  BY <1>1, Joined
<1>6. DataLeft(op, got \o to) = DataLeft(op, got)
  BY <1>4 DEF Complete
<1>7. to = <<>>
  BY <1>3, <1>5, <1>6 DEF DataLeft
<1> QED BY <1>3, <1>7 DEF Answered, to

LEMMA ReturnKeeps ==
    ASSUME IInv, NEW c \in Clients, Return(c) PROVE IInv'
<1>1. /\ ClientOK(c, client[c]) /\ ChildOK(child[c]) /\ KernelOK(kernel)
      /\ toServer[c] = <<>> /\ toClient[c] = <<>> /\ child[c].pc \in {"none", "header"}
  BY Facts, AllTaken DEF Return
<1>2. /\ client' = [client EXCEPT ![c] = [client[c] EXCEPT !.pc = "idle", !.call = NoCall,
                                                         !.got = <<>>]]
      /\ toServer' = toServer /\ toClient' = toClient /\ child' = child /\ kernel' = kernel
  BY DEF Return
<1>3. client'[c] = [client[c] EXCEPT !.pc = "idle", !.call = NoCall, !.got = <<>>]
  BY <1>2 DEF IInv, TypeInv
<1>4. ClientOK(c, client'[c]) /\ client'[c].pc = "idle"
  <2>1. <<>> \in Seq(Unit)
    OBVIOUS
  <2> QED BY <1>1, <1>3, <2>1 DEF ClientOK
<1>5. Channel(c)'
  BY <1>1, <1>2, <1>4 DEF Channel
<1>6. /\ DOMAIN client' = Clients /\ DOMAIN child' = Clients
      /\ toServer' \in [Clients -> Seq(Unit)] /\ toClient' \in [Clients -> Seq(Unit)]
  BY <1>2 DEF IInv, TypeInv
<1>7. \A d \in Clients \ {c} : client'[d] = client[d]
  BY <1>2 DEF IInv, TypeInv
<1> QED BY <1>1, <1>2, <1>4, <1>5, <1>6, <1>7, OneProgram

\* A part of what was sent, after what has been received of it.
LEMMA PartSent ==
  \A p, t \in Seq(Unit) : \A k \in 0..Len(t) :
    p \o SubSeq(t, 1, k) = SubSeq(p \o t, 1, Len(p) + k)
<1> TAKE p, t \in Seq(Unit)
<1> TAKE k \in 0..Len(t)
<1> DEFINE u == SubSeq(t, 1, k)
           all == p \o t
<1>1. /\ Len(p) \in Nat /\ Len(t) \in Nat /\ all \in Seq(Unit) /\ Len(all) = Len(p) + Len(t)
      /\ \A i \in 1..Len(p) : all[i] = p[i]
      /\ \A i \in 1..Len(t) : all[Len(p) + i] = t[i]
  BY Joined
<1>2. u \in Seq(Unit) /\ Len(u) = k /\ \A i \in 1..k : u[i] = t[i]
  <2>1. \A i \in 1..k : t[i] \in Unit
    BY ElementOfSeq
  <2> QED BY <2>1, SubSeqProperties
<1> HIDE DEF u, all
<1>3. /\ p \o u \in Seq(Unit) /\ Len(p \o u) = Len(p) + k
      /\ \A i \in 1..Len(p) : (p \o u)[i] = p[i]
      /\ \A i \in 1..k : (p \o u)[Len(p) + i] = u[i]
  BY <1>2, Joined
<1> DEFINE v == SubSeq(all, 1, Len(p) + k)
<1>4. /\ v \in Seq(Unit) /\ Len(v) = Len(p) + k
      /\ \A i \in 1..Len(p) + k : v[i] = all[i]
  <2> DEFINE m == Len(p) + k
  <2>1. m \in 0..Len(all)
    BY <1>1
  <2> HIDE DEF m
  <2>2. \A i \in 1..m : all[i] \in Unit
    BY <1>1, <2>1, ElementOfSeq
  <2>3. /\ SubSeq(all, 1, m) \in Seq(Unit) /\ Len(SubSeq(all, 1, m)) = m
        /\ \A i \in 1..m : SubSeq(all, 1, m)[i] = all[i]
    BY <2>1, <2>2, <1>1, SubSeqProperties
  <2> QED BY <2>3 DEF m
<1> HIDE DEF v
<1>5. ASSUME NEW i \in 1..Len(p) + k PROVE (p \o u)[i] = v[i]
  <2>1. v[i] = all[i]
    BY <1>4, Zenon
  <2>2. CASE i \in 1..Len(p)
    BY <1>1, <1>3, <2>1, <2>2, Zenon
  <2>3. CASE \E j \in 1..k : i = Len(p) + j
    <3>1. PICK j \in 1..k : i = Len(p) + j
      BY <2>3
    <3>2. j \in 1..Len(t)
      BY <1>1
    <3>3. (p \o u)[Len(p) + j] = u[j] /\ all[Len(p) + j] = t[j] /\ u[j] = t[j]
      BY <1>1, <1>2, <1>3, <3>2, Zenon
    <3> QED BY <2>1, <3>1, <3>3, Zenon
  <2>4. ASSUME i \notin 1..Len(p) PROVE \E j \in 1..k : i = Len(p) + j
    <3>1. i - Len(p) \in 1..k /\ i = Len(p) + (i - Len(p))
      BY <1>1, <2>4
    <3> QED BY <3>1, Zenon
  <2> QED BY <2>2, <2>3, <2>4
<1>6. p \o u = v
  BY <1>3, <1>4, <1>5, SeqEqual
<1> QED BY <1>6 DEF u, v, all

\* A sender that dies loses only data of what it was sending.
LEMMA DataLost ==
    ASSUME NEW a \in Requests, NEW p \in Seq(Unit), NEW t \in Seq(Unit),
           p \o t \in Cuts(a), NEW u \in Sent(t)
    PROVE  u \in Seq(Unit) /\ p \o u \in Cuts(a)
<1> DEFINE all == p \o t
<1>1. PICK k \in 0..Len(t) : u = SubSeq(t, 1, k) /\ \A i \in k + 1..Len(t) : t[i][1] = "byte"
  BY DEF Sent
<1>2. p \o u = SubSeq(all, 1, Len(p) + k) /\ u \in Seq(Unit)
  <2>1. p \o u = SubSeq(all, 1, Len(p) + k)
    BY <1>1, PartSent, Zenon
  <2>2. \A i \in 1..Len(t) : t[i] \in Unit
    BY ElementOfSeq
  <2>3. SubSeq(t, 1, k) \in Seq(Unit)
    BY <2>2, SubSeqProperties
  <2> QED BY <1>1, <2>1, <2>3
<1>3. /\ Len(p) \in Nat /\ Len(t) \in Nat /\ Len(all) = Len(p) + Len(t)
      /\ \A i \in 1..Len(t) : all[Len(p) + i] = t[i]
  BY Joined
<1> HIDE DEF all
<1>4. /\ Fields(a) \in 1..2 /\ Len(Body(a)) \in Nat /\ Body(a) \in Seq(Unit)
      /\ \A i \in 1..Fields(a) : Body(a)[i][1] # "byte"
  BY BodyShape
<1>5. /\ Len(all) \in Fields(a)..Len(Body(a))
      /\ \A i \in 1..Len(all) : all[i] = Body(a)[i]
  BY CutForms DEF all
<1>6. Len(p) + k >= Fields(a)
  <2> SUFFICES ASSUME Len(p) + k < Fields(a) PROVE FALSE
    BY <1>3, <1>4
  <2> DEFINE i == Fields(a) - Len(p)
  <2>1. i \in k + 1..Len(t) /\ i \in 1..Len(t) /\ Len(p) + i = Fields(a)
    BY <1>3, <1>4, <1>5
  <2>2. Fields(a) \in 1..Fields(a) /\ Fields(a) \in 1..Len(all)
    BY <1>4, <1>5
  <2>3. all[Len(p) + i] = t[i] /\ t[i][1] = "byte"
    BY <1>1, <1>3, <2>1
  <2>4. all[Fields(a)] = Body(a)[Fields(a)] /\ Body(a)[Fields(a)][1] # "byte"
    BY <1>4, <1>5, <2>2, Zenon
  <2> HIDE DEF i
  <2>5. all[Fields(a)] = t[i]
    BY <2>1, <2>3
  <2> QED BY <2>3, <2>4, <2>5
<1>7. p \o u = SubSeq(Body(a), 1, Len(p) + k)
  <2> DEFINE m == Len(p) + k
  <2>1. m \in 0..Len(all) /\ m \in 0..Len(Body(a))
    BY <1>3, <1>4, <1>5
  <2>2. \A i \in 1..m : all[i] = Body(a)[i] /\ i \in 1..Len(Body(a))
    BY <1>3, <1>4, <1>5, <2>1
  <2> HIDE DEF m
  <2>3. \A i \in 1..m : Body(a)[i] \in Unit /\ all[i] \in Unit
    BY <1>4, <2>2, ElementOfSeq
  <2>4. all \in Seq(Unit)
    BY Joined DEF all
  <2>5. /\ SubSeq(all, 1, m) \in Seq(Unit) /\ Len(SubSeq(all, 1, m)) = m
        /\ \A i \in 1..m : SubSeq(all, 1, m)[i] = all[i]
    BY <2>1, <2>3, <2>4, SubSeqProperties
  <2>6. /\ SubSeq(Body(a), 1, m) \in Seq(Unit) /\ Len(SubSeq(Body(a), 1, m)) = m
        /\ \A i \in 1..m : SubSeq(Body(a), 1, m)[i] = Body(a)[i]
    BY <1>4, <2>1, <2>3, SubSeqProperties
  <2>7. SubSeq(all, 1, m) = SubSeq(Body(a), 1, m)
    BY <2>2, <2>5, <2>6, SeqEqual
  <2> QED BY <1>2, <2>7 DEF m
<1>8. Len(p) + k \in Fields(a)..Len(Body(a))
  BY <1>3, <1>4, <1>5, <1>6
<1> QED BY <1>2, <1>7, <1>8 DEF Cuts

\* The header of a request is not data.
LEMMA HeadNotLost ==
    ASSUME NEW a \in Requests, NEW b \in Cuts(a),
           NEW u \in Sent(<<<<"head", HeadOf(a)>>>> \o b)
    PROVE  \E d \in Cuts(a) : u = <<<<"head", HeadOf(a)>>>> \o d
<1> DEFINE h == <<<<"head", HeadOf(a)>>>>
           t == h \o b
<1>1. h \in Seq(Unit) /\ Len(h) = 1 /\ b \in Seq(Unit) /\ h[1][1] = "head"
  BY MessageOf, CutForms
<1>2. PICK k \in 0..Len(t) : u = SubSeq(t, 1, k) /\ \A i \in k + 1..Len(t) : t[i][1] = "byte"
  BY DEF Sent
<1> HIDE DEF h
<1>3. /\ t \in Seq(Unit) /\ Len(t) = 1 + Len(b) /\ Len(b) \in Nat /\ t[1] = h[1]
      /\ \A i \in 1..Len(b) : t[1 + i] = b[i]
  <2>1. /\ t \in Seq(Unit) /\ Len(t) = Len(h) + Len(b) /\ Len(b) \in Nat
        /\ \A i \in 1..Len(h) : t[i] = h[i]
        /\ \A i \in 1..Len(b) : t[Len(h) + i] = b[i]
    BY <1>1, Joined
  <2> HIDE DEF t
  <2> QED BY <1>1, <2>1
<1> HIDE DEF t
<1>4. k # 0
  <2> SUFFICES ASSUME k = 0 PROVE FALSE
    OBVIOUS
  <2>1. 1 \in k + 1..Len(t)
    BY <1>3
  <2> QED BY <1>1, <1>2, <1>3, <2>1
<1> DEFINE j == k - 1
           d == SubSeq(b, 1, j)
<1>5. j \in 0..Len(b) /\ Len(h) + j = k
  BY <1>1, <1>3, <1>4
<1>6. \A i \in j + 1..Len(b) : 1 + i \in k + 1..Len(t) /\ i \in 1..Len(b)
  BY <1>3, <1>5
<1>7. \A i \in j + 1..Len(b) : b[i][1] = "byte"
  BY <1>2, <1>3, <1>6
<1> HIDE DEF j
<1>8. d \in Sent(b)
  BY <1>5, <1>7 DEF Sent
<1>9. h \o d = SubSeq(t, 1, k)
  BY <1>1, <1>5, PartSent, Zenon DEF t
<1> HIDE DEF d
<1>10. <<>> \o b = b /\ <<>> \in Seq(Unit)
  BY <1>1
<1>11. d \in Seq(Unit) /\ <<>> \o d \in Cuts(a)
  BY <1>1, <1>8, <1>10, DataLost
<1>12. d \in Cuts(a)
  BY <1>11
<1> QED BY <1>2, <1>9, <1>12 DEF h

LEMMA DieKeeps ==
    ASSUME IInv, NEW c \in Clients, Die(c) PROVE IInv'
<1> DEFINE a  == client[c].call
           to == toServer[c]
<1>1. /\ ClientOK(c, client[c]) /\ ChildOK(child[c]) /\ Channel(c) /\ KernelOK(kernel)
      /\ to \in Seq(Unit) /\ child[c].buf \in Seq(Unit) /\ client[c].pc # "gone"
      /\ client[c].pc \in {"idle", "local", "waiting", "gone"}
      /\ a \in Calls[c] => a \in Requests
  BY Facts DEF Die, ClientOK
<1>2. PICK units \in Sent(to) : toServer' = [toServer EXCEPT ![c] = units]
  BY DEF Die
<1>3. /\ client' = [client EXCEPT ![c] = [client[c] EXCEPT !.pc = "gone", !.got = <<>>]]
      /\ toClient' = [toClient EXCEPT ![c] = <<>>] /\ child' = child /\ kernel' = kernel
  BY DEF Die
<1>4. /\ client'[c] = [client[c] EXCEPT !.pc = "gone", !.got = <<>>]
      /\ toServer'[c] = units /\ toClient'[c] = <<>>
  BY <1>2, <1>3 DEF IInv, TypeInv
<1>5. <<>> \in Seq(Unit)
  OBVIOUS
<1>6. /\ ClientOK(c, client'[c]) /\ client'[c].pc = "gone" /\ client'[c].call = a
      /\ client'[c].got = <<>>
  BY <1>1, <1>4, <1>5 DEF ClientOK
<1>7. units \in Seq(Unit) /\ (to = <<>> => units = <<>>)
  <2>1. PICK k \in 0..Len(to) : units = SubSeq(to, 1, k)
    BY DEF Sent
  <2> HIDE DEF to
  <2>2. \A i \in 1..Len(to) : to[i] \in Unit
    BY <1>1, ElementOfSeq
  <2>3. units \in Seq(Unit) /\ Len(units) = k /\ Len(to) \in Nat
    BY <1>1, <2>1, <2>2, SubSeqProperties, LenProperties
  <2> QED BY <2>3
<1>8. Channel(c)'
  <2>1. CASE Requested(c)
    <3>1. a \in Calls[c] /\ a \in Requests
      BY <1>1, <2>1 DEF Requested
    <3>2. Bodies(c) \subseteq Cuts(a) /\ Bodies(c)' = Cuts(a)
      BY <1>1, <1>6, <3>1, WholeIsACut DEF Bodies
    <3>3. client'[c].got \o toClient'[c] = <<>>
      BY <1>4, <1>6
    <3>4. CASE child[c].pc \in {"none", "header"}
      <4>1. PICK b \in Bodies(c) : to = <<<<"head", HeadOf(a)>>>> \o b
        BY <2>1, <3>4 DEF Requested
      <4>2. \E d \in Cuts(a) : units = <<<<"head", HeadOf(a)>>>> \o d
        <5>1. b \in Cuts(a) /\ units \in Sent(<<<<"head", HeadOf(a)>>>> \o b)
          BY <3>2, <4>1
        <5> HIDE DEF a
        <5> QED BY <3>1, <5>1, HeadNotLost
      <4>3. Requested(c)'
        BY <1>3, <1>4, <1>6, <3>1, <3>2, <3>3, <3>4, <4>2 DEF Requested
      <4> QED BY <1>4, <1>6, <4>3 DEF Channel
    <3>5. CASE child[c].pc = "body" /\ child[c].head = HeadOf(a) /\ child[c].buf \o to \in Bodies(c)
      <4>1. child[c].buf \o to \in Cuts(a)
        BY <3>2, <3>5
      <4>2. child[c].buf \o units \in Cuts(a)
        BY <1>1, <3>1, <4>1, DataLost
      <4>3. Requested(c)'
        BY <1>3, <1>4, <1>6, <3>1, <3>2, <3>3, <3>5, <4>2 DEF Requested
      <4> QED BY <1>4, <1>6, <4>3 DEF Channel
    <3> QED BY <2>1, <3>4, <3>5 DEF Requested
  <2>2. CASE ~Requested(c)
    <3>1. to = <<>> /\ child[c].pc # "body"
      BY <1>1, <2>2 DEF Channel, Answered
    <3> QED BY <1>3, <1>4, <1>6, <1>7, <3>1 DEF Channel
  <2> QED BY <2>1, <2>2
<1>9. /\ DOMAIN client' = Clients /\ DOMAIN child' = Clients
      /\ toServer' \in [Clients -> Seq(Unit)] /\ toClient' \in [Clients -> Seq(Unit)]
  BY <1>2, <1>3, <1>5, <1>7 DEF IInv, TypeInv
<1>10. \A d \in Clients \ {c} :
         client'[d] = client[d] /\ toServer'[d] = toServer[d] /\ toClient'[d] = toClient[d]
  BY <1>2, <1>3 DEF IInv, TypeInv
<1> QED BY <1>1, <1>3, <1>6, <1>8, <1>9, <1>10, OneProgram

LEMMA StepKeeps == IInv /\ [Next]_vars => IInv'
<1> SUFFICES ASSUME IInv, [Next]_vars PROVE IInv'
  OBVIOUS
<1>1. ASSUME NEW c \in Clients, Call(c) \/ Runs(c) \/ Serves(c) \/ Die(c) PROVE IInv'
  <2>1. CASE Call(c)
    BY <2>1, CallKeeps
  <2>2. CASE Runs(c)
    BY <2>2, CallLocalKeeps, RecvFieldKeeps, RecvDataKeeps, RecvBasepKeeps, ReturnKeeps
       DEF Runs
  <2>3. CASE Serves(c)
    BY <2>3, AcceptKeeps, RecvHeaderKeeps, RecvBodyKeeps, AnswerKeeps, CrashKeeps,
       EndChildKeeps DEF Serves
  <2>4. CASE Die(c)
    BY <2>4, DieKeeps
  <2> QED BY <1>1, <2>1, <2>2, <2>3, <2>4
<1>2. CASE UNCHANGED vars
  <2>1. /\ client' = client /\ toServer' = toServer /\ toClient' = toClient
        /\ child' = child /\ kernel' = kernel /\ returned' = returned
    BY <1>2 DEF vars
  <2>2. TypeInv'
    <3>1. TypeInv
      BY DEF IInv
    <3>2. KernelOK(kernel') /\ \A c \in Clients : ClientOK(c, client'[c]) /\ ChildOK(child'[c])
      BY <2>1, <3>1 DEF TypeInv
    <3> QED BY <2>1, <3>1, <3>2 DEF TypeInv
  <2>3. ASSUME NEW c \in Clients PROVE Channel(c)'
    <3>1. (Requested(c)' <=> Requested(c)) /\ (Answered(c)' <=> Answered(c))
      BY <2>1 DEF Requested, Answered, Bodies
    <3>2. Channel(c)
      BY DEF IInv
    <3> QED BY <2>1, <3>1, <3>2 DEF Channel
  <2> QED BY <2>1, <2>2, <2>3 DEF IInv
<1> QED BY <1>1, <1>2 DEF Next

\* In every behaviour of programs, children and connections the invariant
\* holds: what a connection carries is one request that is not yet served,
\* or one reply that is not yet taken, and nothing else (mylib.c:167-709,
\* server.c:192-465).
THEOREM InvHolds == Spec => []IInv
  BY InitialInv, StepKeeps, PTL DEF Spec

LEMMA UnitKinds == \A u \in Unit : u[1] \in Units
  BY DEF Unit, Units

\* Every process is where its program can be and streams hold whole units
\* (mylib.c:167-709, server.c:192-465).
THEOREM TypesHold == Spec => []TypeOK
<1>1. IInv => TypeOK
  <2> SUFFICES ASSUME IInv PROVE TypeOK
    OBVIOUS
  <2>1. ASSUME NEW c \in Clients
        PROVE  \A u \in Range(toServer[c] \o toClient[c] \o child[c].buf \o client[c].got) :
                 u[1] \in Units
    <3> DEFINE s == toServer[c] \o toClient[c] \o child[c].buf \o client[c].got
    <3>1. s \in Seq(Unit)
      <4>1. /\ toServer[c] \in Seq(Unit) /\ toClient[c] \in Seq(Unit)
            /\ child[c].buf \in Seq(Unit) /\ client[c].got \in Seq(Unit)
        BY Facts
      <4>2. \A p, t \in Seq(Unit) : p \o t \in Seq(Unit)
        BY ConcatProperties
      <4> QED BY <4>1, <4>2, Zenon
    <3> HIDE DEF s
    <3>2. \A u \in Range(s) : u \in Unit
      BY <3>1 DEF Range
    <3>3. \A u \in Range(s) : u[1] \in Units
      BY <3>2, UnitKinds, Zenon
    <3> QED BY <3>3 DEF s
  <2>2. ASSUME NEW c \in Clients
        PROVE  /\ client[c].pc \in {"idle", "local", "waiting", "gone"}
               /\ client[c].call \in Calls[c] \cup {NoCall}
               /\ client[c].made \in 0..MaxCalls[c]
               /\ child[c].pc \in {"none", "header", "body", "ended", "dead"}
               /\ Len(child[c].buf) <= child[c].head.size
               /\ child[c].pc # "body" => child[c].buf = <<>>
               /\ client[c].pc # "waiting" => client[c].got = <<>>
    <3>1. ClientOK(c, client[c]) /\ ChildOK(child[c])
      BY Facts
    <3> QED BY <3>1 DEF ClientOK, ChildOK, NoChild
  <2>3. IsKernel(kernel)
    BY DEF IInv, TypeInv, KernelOK, IsKernel
  <2> QED BY <2>1, <2>2, <2>3 DEF TypeOK
<1> QED BY <1>1, InvHolds, PTL

\* When a program is in no call nothing is left of the last one: what the
\* library receives in each function is what the handler sends, and what the
\* handler receives what the library sends (mylib.c:659, server.c:210-218).
THEOREM AlignedHolds == Spec => []Aligned
<1>1. IInv => Aligned
  BY DEF IInv, Channel, Aligned
<1> QED BY <1>1, InvHolds, PTL

\* However messages are cut up on the way, a call that has been made is whole
\* in one place: its request, or its reply (mylib.c:346-360, server.c:203-218).
THEOREM OneMessageHolds == Spec => []OneMessage
<1>1. IInv => OneMessage
  <2> SUFFICES ASSUME IInv PROVE OneMessage
    OBVIOUS
  <2> SUFFICES ASSUME NEW c \in Clients, client[c].pc = "waiting"
               PROVE  LET request == child[c].buf \o toServer[c]
                          reply   == client[c].got \o toClient[c]
                          a       == client[c].call
                      IN  \/ /\ reply = <<>>
                             /\ request \in {Message(a), Body(a)} \/ child[c].pc = "dead"
                          \/ request = <<>> /\ Complete(a.op, reply)
    BY DEF OneMessage
  <2> DEFINE a == client[c].call
             to == toServer[c]
  <2>1. /\ ChildOK(child[c]) /\ Channel(c) /\ to \in Seq(Unit) /\ child[c].buf \in Seq(Unit)
        /\ a \in Calls[c] => a \in Requests
    BY Facts
  <2>2. <<>> \o to = to
    BY <2>1
  <2>3. child[c].pc # "body" => child[c].buf = <<>>
    BY <2>1 DEF ChildOK, NoChild
  <2>4. CASE Requested(c)
    <3>1. a \in Requests /\ Bodies(c) = {Body(a)}
      BY <2>1, <2>4 DEF Requested, Bodies
    <3>2. CASE /\ child[c].pc \in {"none", "header"}
               /\ \E b \in Bodies(c) : to = <<<<"head", HeadOf(a)>>>> \o b
      <4>1. to = Message(a)
        BY <3>1, <3>2, MessageOf
      <4> QED BY <2>2, <2>3, <2>4, <3>2, <4>1 DEF Requested
    <3>3. CASE child[c].buf \o to \in Bodies(c)
      BY <2>4, <3>1, <3>3 DEF Requested
    <3> QED BY <2>4, <3>2, <3>3 DEF Requested
  <2>5. CASE Answered(c)
    <3>1. child[c].buf \o to = <<>>
      BY <2>2, <2>3, <2>5 DEF Answered
    <3> QED BY <2>5, <3>1 DEF Answered
  <2> QED BY <2>1, <2>4, <2>5 DEF Channel
<1> QED BY <1>1, InvHolds, PTL
=============================================================================
