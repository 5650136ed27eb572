------------------------ MODULE RemoteImplements_proofs ------------------------
(***************************************************************************)
(* Proof that RemoteFiles implements LocalFiles: every call of a program   *)
(* has the effect and the outcome of the same call on the server's         *)
(* machine, at the instant its handler runs.                               *)
(***************************************************************************)
EXTENDS RemoteFiles_proofs

-----------------------------------------------------------------------------
(* The kernel as a program sees it                                         *)

SeenFds == {d + OFFSET : d \in Fds}

SeenEnds(k) == [c \in Clients |-> [fd \in SeenFds |-> k.fds[c][fd - OFFSET]]]
Seen(k) == [k EXCEPT !.fds = SeenEnds(k)]

\* What the library makes of a result: the descriptor of open is shifted.
SeenResult(op, r) == IF op = "OPEN" /\ r.ret >= 0 THEN [r EXCEPT !.ret = @ + OFFSET] ELSE r

\* The call of the program and the one that its handler makes.
Shifted(a, b) ==
  /\ b.op = a.op /\ b.path = a.path /\ b.n = a.n /\ b.data = a.data
  /\ a.op \in FdOps => b.fd = a.fd - OFFSET

LEMMA SameNames ==
    /\ Local!Dirs = Dirs /\ Local!Closed = Closed /\ Local!NoCall = NoCall
    /\ Local!NoTree = NoTree /\ Local!NoResult = NoResult /\ Local!FdOps = FdOps
    /\ Local!Nobody = Nobody
    /\ \A n : Local!Returns(n) = Returns(n)
    /\ \A e : Local!Fails(e) = Fails(e)
    /\ \A k, r : Local!Step(k, r) = Step(k, r)
  BY DEF Local!Dirs, Dirs, Local!Closed, Closed, Local!NoCall, NoCall, Local!NoTree, NoTree,
         Local!NoResult, NoResult, Local!FdOps, FdOps, Local!Nobody, Nobody, Local!Returns,
         Returns, Local!Fails, Fails, Local!Step, Step, Local!Outcome, Outcome

LEMMA Shifts ==
    /\ \A d \in Fds : d \in Int /\ d + OFFSET \in SeenFds /\ (d + OFFSET) - OFFSET = d
    /\ \A d \in SeenFds : d \in Int /\ d - OFFSET \in Fds /\ (d - OFFSET) + OFFSET = d
    /\ \A d \in Int : d - OFFSET \in Fds => d \in SeenFds
    /\ \A d, e \in SeenFds : d - OFFSET = e - OFFSET => d = e
<1>1. OFFSET \in Int /\ \A d \in Fds : d \in Int
  BY RemoteAssumption
<1>2. \A d \in Fds : (d + OFFSET) - OFFSET = d
  BY <1>1
<1>3. ASSUME NEW d \in SeenFds PROVE d \in Int /\ d - OFFSET \in Fds /\ (d - OFFSET) + OFFSET = d
  <2>1. PICK e \in Fds : d = e + OFFSET
    BY DEF SeenFds
  <2>2. d \in Int /\ d - OFFSET = e
    BY <1>1, <2>1
  <2> QED BY <1>1, <2>2
<1>4. ASSUME NEW d \in Int, d - OFFSET \in Fds PROVE d \in SeenFds
  <2>1. d = (d - OFFSET) + OFFSET
    BY <1>1
  <2> QED BY <1>4, <2>1, Zenon DEF SeenFds
<1>5. \A d, e \in SeenFds : d - OFFSET = e - OFFSET => d = e
  BY <1>1, <1>3
<1>6. \A d \in Fds : d + OFFSET \in SeenFds
  BY DEF SeenFds
<1> QED BY <1>1, <1>2, <1>3, <1>4, <1>5, <1>6

LEMMA SeenParts ==
    ASSUME NEW k, KernelOK(k)
    PROVE  /\ Seen(k) = [names |-> k.names, inodes |-> k.inodes, fds |-> SeenEnds(k)]
           /\ Seen(k).names = k.names /\ Seen(k).inodes = k.inodes
           /\ \A c \in Clients, fd \in SeenFds : Seen(k).fds[c][fd] = k.fds[c][fd - OFFSET]
<1>0. PICK n, h, g : k = [names |-> n, inodes |-> h, fds |-> g]
  BY KernelParts, Zenon
<1>1. Seen(k) = [names |-> k.names, inodes |-> k.inodes, fds |-> SeenEnds(k)]
  <2> DEFINE e == SeenEnds(k)
  <2> HIDE DEF e
  <2>1. [k EXCEPT !.fds = e] = [names |-> k.names, inodes |-> k.inodes, fds |-> e]
    BY <1>0
  <2> QED BY <2>1 DEF Seen, e
<1> QED BY <1>1 DEF SeenEnds

\* A descriptor, a file or a name that changes is seen to change.
LEMMA EndSeen ==
    ASSUME NEW k, KernelOK(k), NEW c \in Clients, NEW fd \in SeenFds, NEW v
    PROVE  [Seen(k) EXCEPT !.fds[c][fd] = v] = Seen([k EXCEPT !.fds[c][fd - OFFSET] = v])
<1>0. PICK n, h, g : k = [names |-> n, inodes |-> h, fds |-> g]
  BY KernelParts, Zenon
<1> DEFINE f == [k.fds EXCEPT ![c][fd - OFFSET] = v]
           k1 == [names |-> n, inodes |-> h, fds |-> f]
<1>1. [k EXCEPT !.fds[c][fd - OFFSET] = v] = k1 /\ k1.fds = f
  BY <1>0
<1>2. g \in [Clients -> [Fds -> Ends]] /\ fd \in Int /\ fd - OFFSET \in Fds
  BY <1>0, Shifts DEF KernelOK, Ends
<1>3. SeenEnds(k1) = [SeenEnds(k) EXCEPT ![c][fd] = v]
  <2> DEFINE ends == [b \in Clients |-> [e \in SeenFds |->
                        IF b = c /\ e = fd THEN v ELSE g[b][e - OFFSET]]]
  <2>1. SeenEnds(k1) = ends
    <3>1. ASSUME NEW b \in Clients, NEW e \in SeenFds
          PROVE  f[b][e - OFFSET] = IF b = c /\ e = fd THEN v ELSE g[b][e - OFFSET]
      <4>1. e - OFFSET \in Fds /\ (e - OFFSET = fd - OFFSET <=> e = fd)
        BY Shifts, Zenon
      <4> QED BY <1>0, <1>2, <4>1
    <3> HIDE DEF f
    <3> QED BY <3>1 DEF SeenEnds
  <2>2. [SeenEnds(k) EXCEPT ![c][fd] = v] = ends
    BY <1>0 DEF SeenEnds
  <2> QED BY <2>1, <2>2
<1>4. Seen(k1) = [names |-> n, inodes |-> h, fds |-> SeenEnds(k1)]
  <2> DEFINE e == SeenEnds(k1)
  <2> HIDE DEF e
  <2>1. [k1 EXCEPT !.fds = e] = [names |-> n, inodes |-> h, fds |-> e]
    OBVIOUS
  <2> QED BY <2>1 DEF Seen, e
<1>5. Seen(k) = [names |-> n, inodes |-> h, fds |-> SeenEnds(k)]
  BY <1>0, SeenParts
<1> HIDE DEF k1, f
<1> DEFINE s == SeenEnds(k)
<1> HIDE DEF s
<1>6. [Seen(k) EXCEPT !.fds[c][fd] = v] = [names |-> n, inodes |-> h, fds |-> [s EXCEPT ![c][fd] = v]]
  BY <1>5 DEF s
<1> QED BY <1>1, <1>3, <1>4, <1>6 DEF s

LEMMA FileSeen ==
    ASSUME NEW k, KernelOK(k), NEW i, NEW d
    PROVE  [Seen(k) EXCEPT !.inodes[i] = d] = Seen([k EXCEPT !.inodes[i] = d])
<1>0. PICK n, h, g : k = [names |-> n, inodes |-> h, fds |-> g]
  BY KernelParts, Zenon
<1> DEFINE k1 == [names |-> n, inodes |-> [h EXCEPT ![i] = d], fds |-> g]
           e  == [c \in Clients |-> [fd \in SeenFds |-> g[c][fd - OFFSET]]]
<1>1. [k EXCEPT !.inodes[i] = d] = k1 /\ SeenEnds(k) = e /\ SeenEnds(k1) = e
  BY <1>0 DEF SeenEnds
<1> HIDE DEF e
<1>2. /\ Seen(k1) = [names |-> n, inodes |-> [h EXCEPT ![i] = d], fds |-> e]
      /\ Seen(k) = [names |-> n, inodes |-> h, fds |-> e]
  BY <1>0, <1>1 DEF Seen
<1>3. [Seen(k) EXCEPT !.inodes[i] = d] = [names |-> n, inodes |-> [h EXCEPT ![i] = d], fds |-> e]
  BY <1>2
<1> HIDE DEF k1
<1> QED BY <1>1, <1>2, <1>3

LEMMA NameSeen ==
    ASSUME NEW k, KernelOK(k), NEW p, NEW i
    PROVE  [Seen(k) EXCEPT !.names[p] = i] = Seen([k EXCEPT !.names[p] = i])
<1>0. PICK n, h, g : k = [names |-> n, inodes |-> h, fds |-> g]
  BY KernelParts, Zenon
<1> DEFINE k1 == [names |-> [n EXCEPT ![p] = i], inodes |-> h, fds |-> g]
           e  == [c \in Clients |-> [fd \in SeenFds |-> g[c][fd - OFFSET]]]
<1>1. [k EXCEPT !.names[p] = i] = k1 /\ SeenEnds(k) = e /\ SeenEnds(k1) = e
  BY <1>0 DEF SeenEnds
<1> HIDE DEF e
<1>2. /\ Seen(k1) = [names |-> [n EXCEPT ![p] = i], inodes |-> h, fds |-> e]
      /\ Seen(k) = [names |-> n, inodes |-> h, fds |-> e]
  BY <1>0, <1>1 DEF Seen
<1>3. [Seen(k) EXCEPT !.names[p] = i] = [names |-> [n EXCEPT ![p] = i], inodes |-> h, fds |-> e]
  BY <1>2
<1> HIDE DEF k1
<1> QED BY <1>1, <1>2, <1>3

LEMMA ClosedSeen ==
    ASSUME NEW k, KernelOK(k), NEW c \in Clients
    PROVE  Local!CloseAll(Seen(k), c) = Seen(CloseAll(k, c))
<1>0. PICK n, h, g : k = [names |-> n, inodes |-> h, fds |-> g]
  BY KernelParts, Zenon
<1> DEFINE f == [g EXCEPT ![c] = [fd \in Fds |-> Closed]]
           k1 == [names |-> n, inodes |-> h, fds |-> f]
           e  == SeenEnds(k)
           e1 == SeenEnds(k1)
<1>1. CloseAll(k, c) = k1
  BY <1>0 DEF CloseAll
<1>2. g \in [Clients -> [Fds -> Ends]]
  BY <1>0 DEF KernelOK, Ends
<1>3. e1 = [e EXCEPT ![c] = [fd \in SeenFds |-> Closed]]
  <2>1. \A fd \in SeenFds : fd - OFFSET \in Fds
    BY Shifts
  <2> QED BY <1>0, <1>2, <2>1 DEF SeenEnds
<1> HIDE DEF e, e1
<1>4. Seen(k) = [names |-> n, inodes |-> h, fds |-> e]
  BY <1>0 DEF Seen, e
<1>5. Seen(k1) = [names |-> n, inodes |-> h, fds |-> e1]
  BY DEF Seen, e1
<1> HIDE DEF k1
<1>6. Local!CloseAll(Seen(k), c)
        = [names |-> n, inodes |-> h, fds |-> [e EXCEPT ![c] = [fd \in SeenFds |-> Closed]]]
  BY <1>4, SameNames DEF Local!CloseAll, SeenFds
<1> QED BY <1>1, <1>3, <1>5, <1>6

-----------------------------------------------------------------------------
(* System calls on the kernel as it is seen                                *)

\* What a program sees of a call is the call on what it sees of the kernel.
SeenStep(op, s) == Step(Seen(s.kernel), SeenResult(op, s.result))

LEMMA OpenSeen ==
    ASSUME NEW k, KernelOK(k), NEW c \in Clients, NEW fd \in Int
    PROVE  /\ Local!IsOpen(Seen(k), c, fd) <=> IsOpen(k, c, fd - OFFSET)
           /\ IsOpen(k, c, fd - OFFSET) =>
                /\ fd \in SeenFds /\ Seen(k).fds[c][fd] = k.fds[c][fd - OFFSET]
                /\ Local!IsDir(Seen(k), c, fd) <=> IsDir(k, c, fd - OFFSET)
<1>1. fd \in SeenFds <=> fd - OFFSET \in Fds
  BY Shifts, Zenon
<1>2. fd \in SeenFds => Seen(k).fds[c][fd] = k.fds[c][fd - OFFSET]
  BY SeenParts
<1>3. Local!IsOpen(Seen(k), c, fd) <=> fd \in SeenFds /\ Seen(k).fds[c][fd] # Closed
  BY SameNames DEF Local!IsOpen, SeenFds
<1>4. Local!IsDir(Seen(k), c, fd) <=> Seen(k).fds[c][fd].of \in Dirs
  BY SameNames DEF Local!IsDir
<1> QED BY <1>1, <1>2, <1>3, <1>4, Zenon DEF IsOpen, IsDir

LEMMA FreeSeen ==
    ASSUME NEW k, KernelOK(k), NEW c \in Clients
    PROVE  /\ Local!FreeFds(Seen(k), c) = {d + OFFSET : d \in FreeFds(k, c)}
           /\ Local!FreeInodes(Seen(k)) = FreeInodes(k)
<1>1. Local!FreeFds(Seen(k), c) = {fd \in SeenFds : Seen(k).fds[c][fd] = Closed}
  BY SameNames DEF Local!FreeFds, SeenFds
<1>2. \A fd \in SeenFds : Seen(k).fds[c][fd] = k.fds[c][fd - OFFSET]
  BY SeenParts
<1>3. ASSUME NEW fd PROVE fd \in Local!FreeFds(Seen(k), c) <=> fd \in {d + OFFSET : d \in FreeFds(k, c)}
  <2>1. ASSUME fd \in SeenFds, k.fds[c][fd - OFFSET] = Closed
        PROVE  fd \in {d + OFFSET : d \in FreeFds(k, c)}
    <3>1. fd - OFFSET \in FreeFds(k, c) /\ fd = (fd - OFFSET) + OFFSET
      BY <2>1, Shifts, Zenon DEF FreeFds
    <3> QED BY <3>1, Zenon
  <2>2. ASSUME NEW d \in FreeFds(k, c), fd = d + OFFSET
        PROVE  fd \in SeenFds /\ k.fds[c][fd - OFFSET] = Closed
    BY <2>2, Shifts, Zenon DEF FreeFds
  <2> QED BY <1>1, <1>2, <2>1, <2>2
<1>4. Local!FreeInodes(Seen(k)) =
        {i \in Inodes : /\ \A f \in Files : k.names[f] # i
                        /\ \A b \in Clients, fd \in SeenFds : Seen(k).fds[b][fd].of # i}
  BY SeenParts DEF Local!FreeInodes, SeenFds
<1>5. ASSUME NEW i, NEW b \in Clients
      PROVE  (\A fd \in SeenFds : Seen(k).fds[b][fd].of # i) <=> (\A d \in Fds : k.fds[b][d].of # i)
  <2>1. \A fd \in SeenFds : fd - OFFSET \in Fds /\ Seen(k).fds[b][fd] = k.fds[b][fd - OFFSET]
    BY Shifts, SeenParts
  <2>2. \A d \in Fds : d + OFFSET \in SeenFds /\ Seen(k).fds[b][d + OFFSET] = k.fds[b][d]
    <3> SUFFICES ASSUME NEW d \in Fds
                 PROVE  d + OFFSET \in SeenFds /\ Seen(k).fds[b][d + OFFSET] = k.fds[b][d]
      OBVIOUS
    <3>1. d + OFFSET \in SeenFds /\ (d + OFFSET) - OFFSET = d
      BY Shifts
    <3>2. Seen(k).fds[b][d + OFFSET] = k.fds[b][(d + OFFSET) - OFFSET]
      BY <2>1, <3>1
    <3> QED BY <3>1, <3>2
  <2> QED BY <2>1, <2>2, Zenon
<1>6. Local!FreeInodes(Seen(k)) = FreeInodes(k)
  BY <1>4, <1>5 DEF FreeInodes
<1> QED BY <1>3, <1>6

LEMMA LeastShifted ==
    ASSUME NEW S, S \subseteq Nat, S # {}
    PROVE  Local!Min({d + OFFSET : d \in S}) = Min(S) + OFFSET
<1> DEFINE m == Min(S)
           T == {d + OFFSET : d \in S}
<1>1. m \in S /\ \A x \in S : m <= x
  BY LeastIsThere
<1> HIDE DEF m
<1>2. OFFSET \in Int /\ m \in Int /\ \A x \in S : x \in Int
  BY <1>1, RemoteAssumption
<1>3. m + OFFSET \in T /\ \A y \in T : m + OFFSET <= y
  BY <1>1, <1>2
<1>4. \A x \in T : (\A y \in T : x <= y) => x = m + OFFSET
  BY <1>2, <1>3
<1> HIDE DEF T
<1>5. Local!Min(T) = CHOOSE x \in T : \A y \in T : x <= y
  BY DEF Local!Min
<1>6. Local!Min(T) = m + OFFSET
  BY <1>3, <1>4, <1>5
<1> QED BY <1>6 DEF m, T

LEMMA ResultsSeen ==
    /\ \A n \in Nat : SeenResult("OPEN", Returns(n)) = Returns(n + OFFSET)
    /\ \A e : SeenResult("OPEN", Fails(e)) = Fails(e)
    /\ \A op, r : op # "OPEN" => SeenResult(op, r) = r
<1>1. ASSUME NEW n \in Nat PROVE SeenResult("OPEN", Returns(n)) = Returns(n + OFFSET)
  <2>1. /\ Returns(n) = [ret |-> n, errno |-> Nobody, data |-> <<>>, base |-> 0, tree |-> NoTree]
        /\ Returns(n + OFFSET)
             = [ret |-> n + OFFSET, errno |-> Nobody, data |-> <<>>, base |-> 0, tree |-> NoTree]
    BY DEF Returns, NoResult, Outcome
  <2> QED BY <2>1 DEF SeenResult
<1>2. \A e : Fails(e).ret = -1
  BY Typical
<1>3. ASSUME NEW e PROVE SeenResult("OPEN", Fails(e)) = Fails(e)
  <2>1. ~(Fails(e).ret >= 0)
    BY <1>2
  <2> QED BY <2>1 DEF SeenResult
<1>4. \A op, r : op # "OPEN" => SeenResult(op, r) = r
  BY DEF SeenResult
<1> QED BY <1>1, <1>3, <1>4

\* The kernel stays as it is.
LEMMA SameKernelSeen ==
    ASSUME NEW k, NEW e, NEW op
    PROVE  /\ Local!Step(Seen(k), Local!Fails(e)) = SeenStep(op, Step(k, Fails(e)))
           /\ op # "OPEN" => \A r : Local!Step(Seen(k), r) = SeenStep(op, Step(k, r))
<1>1. SeenResult(op, Fails(e)) = Fails(e)
  <2>1. op = "OPEN" => SeenResult(op, Fails(e)) = Fails(e)
    BY ResultsSeen
  <2>2. op # "OPEN" => SeenResult(op, Fails(e)) = Fails(e)
    BY ResultsSeen
  <2> QED BY <2>1, <2>2
<1> QED BY <1>1, SameNames, ResultsSeen DEF SeenStep, Step

LEMMA OpenedSeen ==
    ASSUME NEW k, KernelOK(k), NEW c \in Clients, NEW of, FreeFds(k, c) # {}
    PROVE  Local!Opened(Seen(k), c, of) = SeenStep("OPEN", Opened(k, c, of))
<1> DEFINE fd == Min(FreeFds(k, c))
           v  == [of |-> of, pos |-> 0]
<1>1. fd \in Fds /\ fd \in Nat
  <2>1. FreeFds(k, c) \subseteq Nat /\ FreeFds(k, c) \subseteq Fds
    BY RemoteAssumption DEF FreeFds
  <2> QED BY <2>1, LeastIsThere
<1>2. Local!Min(Local!FreeFds(Seen(k), c)) = fd + OFFSET
  <2>1. FreeFds(k, c) \subseteq Nat
    BY RemoteAssumption DEF FreeFds
  <2> QED BY <2>1, FreeSeen, LeastShifted
<1>3. Opened(k, c, of) = Step([k EXCEPT !.fds[c][fd] = v], Returns(fd))
  BY DEF Opened
<1> HIDE DEF fd
<1>4. Local!Opened(Seen(k), c, of) = Step([Seen(k) EXCEPT !.fds[c][fd + OFFSET] = v], Returns(fd + OFFSET))
  BY <1>2, SameNames DEF Local!Opened
<1>5. [Seen(k) EXCEPT !.fds[c][fd + OFFSET] = v] = Seen([k EXCEPT !.fds[c][fd] = v])
  <2>1. fd + OFFSET \in SeenFds /\ (fd + OFFSET) - OFFSET = fd
    BY <1>1, Shifts
  <2> HIDE DEF v
  <2>2. [Seen(k) EXCEPT !.fds[c][fd + OFFSET] = v]
          = Seen([k EXCEPT !.fds[c][(fd + OFFSET) - OFFSET] = v])
    BY <2>1, EndSeen
  <2> QED BY <2>1, <2>2
<1>6. SeenResult("OPEN", Returns(fd)) = Returns(fd + OFFSET)
  BY <1>1, ResultsSeen
<1> QED BY <1>3, <1>4, <1>5, <1>6 DEF SeenStep, Step

LEMMA CreatedSeen ==
    ASSUME NEW k, KernelOK(k), NEW path, NEW i \in Inodes
    PROVE  /\ Local!Created(Seen(k), path, i) = Seen(Created(k, path, i))
           /\ KernelOK(Created(k, path, i)) /\ Created(k, path, i).fds = k.fds
<1> DEFINE k0 == [k EXCEPT !.names[path] = i]
           k1 == [k0 EXCEPT !.inodes[i] = <<>>]
<1>1. Created(k, path, i) = k1
  BY DEF Created
<1>2. Local!Created(Seen(k), path, i) = [[Seen(k) EXCEPT !.names[path] = i] EXCEPT !.inodes[i] = <<>>]
  BY DEF Local!Created
<1>3. KernelOK(k0)
  BY NameChanged
<1>4. [Seen(k) EXCEPT !.names[path] = i] = Seen(k0)
  <2>1. \A p, j : [Seen(k) EXCEPT !.names[p] = j] = Seen([k EXCEPT !.names[p] = j])
    BY NameSeen
  <2> QED BY <2>1, Zenon
<1>5. k1.fds = k.fds
  <2>1. PICK n, h, g : k = [names |-> n, inodes |-> h, fds |-> g]
    BY KernelParts, Zenon
  <2> QED BY <2>1
<1> HIDE DEF k0
<1>6. [Seen(k0) EXCEPT !.inodes[i] = <<>>] = Seen(k1)
  <2>1. \A j, d : [Seen(k0) EXCEPT !.inodes[j] = d] = Seen([k0 EXCEPT !.inodes[j] = d])
    BY <1>3, FileSeen
  <2> QED BY <2>1, Zenon
<1>7. KernelOK(k1)
  <2>1. <<>> \in Seq(Data)
    OBVIOUS
  <2> QED BY <1>3, <2>1, FileChanged
<1> HIDE DEF k1
<1> QED BY <1>1, <1>2, <1>4, <1>5, <1>6, <1>7

LEMMA OpenCallSeen ==
    ASSUME NEW k, KernelOK(k), NEW c \in Clients, NEW path, NEW creat \in BOOLEAN
    PROVE  Local!Open(Seen(k), c, path, creat) = SeenStep("OPEN", Open(k, c, path, creat))
<1> DEFINE s == Seen(k)
<1>0. /\ Local!FreeFds(s, c) = {} <=> FreeFds(k, c) = {}
      /\ s.names = k.names /\ Local!FreeInodes(s) = FreeInodes(k)
      /\ Dirs \cap Files = {}
  <2>1. Local!FreeFds(s, c) = {d + OFFSET : d \in FreeFds(k, c)}
    BY FreeSeen
  <2>2. Local!FreeFds(s, c) = {} <=> FreeFds(k, c) = {}
    BY <2>1
  <2>3. s.names = k.names /\ Local!FreeInodes(s) = FreeInodes(k)
    BY FreeSeen, SeenParts
  <2>4. Dirs \cap Files = {}
    BY RemoteAssumption
  <2> QED BY <2>2, <2>3, <2>4
<1>1. \A e : Local!Step(s, Local!Fails(e)) = SeenStep("OPEN", Step(k, Fails(e)))
  BY SameKernelSeen
<1> HIDE DEF s
<1>2. CASE FreeFds(k, c) = {}
  <2>1. Open(k, c, path, creat) = Step(k, Fails("EMFILE"))
    BY <1>2 DEF Open
  <2>2. Local!Open(s, c, path, creat) = Local!Step(s, Local!Fails("EMFILE"))
    BY <1>0, <1>2 DEF Local!Open
  <2> QED BY <1>1, <2>1, <2>2 DEF s
<1>3. CASE FreeFds(k, c) # {} /\ path \in Dirs
  <2>1. Open(k, c, path, creat) = Opened(k, c, path)
    BY <1>0, <1>3 DEF Open
  <2>2. Local!Open(s, c, path, creat) = Local!Opened(s, c, path)
    BY <1>0, <1>3, SameNames DEF Local!Open
  <2> QED BY <1>3, <2>1, <2>2, OpenedSeen DEF s
<1>4. CASE FreeFds(k, c) # {} /\ path \in Files /\ path \notin Dirs
  <2>1. CASE k.names[path] # Nobody
    <3>1. Open(k, c, path, creat) = Opened(k, c, k.names[path])
      BY <1>4, <2>1 DEF Open
    <3>2. Local!Open(s, c, path, creat) = Local!Opened(s, c, k.names[path])
      BY <1>0, <1>4, <2>1, SameNames DEF Local!Open
    <3> QED BY <1>4, <3>1, <3>2, OpenedSeen DEF s
  <2>2. CASE k.names[path] = Nobody /\ ~creat
    <3>1. Open(k, c, path, creat) = Step(k, Fails("ENOENT"))
      BY <1>4, <2>2 DEF Open
    <3>2. Local!Open(s, c, path, creat) = Local!Step(s, Local!Fails("ENOENT"))
      BY <1>0, <1>4, <2>2, SameNames DEF Local!Open
    <3> QED BY <1>1, <3>1, <3>2 DEF s
  <2>3. CASE k.names[path] = Nobody /\ creat /\ FreeInodes(k) = {}
    <3>1. Open(k, c, path, creat) = Step(k, Fails("ENOSPC"))
      BY <1>4, <2>3 DEF Open
    <3>2. Local!Open(s, c, path, creat) = Local!Step(s, Local!Fails("ENOSPC"))
      BY <1>0, <1>4, <2>3, SameNames DEF Local!Open
    <3> QED BY <1>1, <3>1, <3>2 DEF s
  <2>4. CASE k.names[path] = Nobody /\ creat /\ FreeInodes(k) # {}
    <3> DEFINE i == CHOOSE i \in FreeInodes(k) : TRUE
    <3>1. Open(k, c, path, creat) = Opened(Created(k, path, i), c, i)
      BY <1>4, <2>4 DEF Open
    <3>2. Local!Open(s, c, path, creat) = Local!Opened(Local!Created(s, path, i), c, i)
      BY <1>0, <1>4, <2>4, SameNames DEF Local!Open
    <3>3. i \in Inodes
      BY <2>4 DEF FreeInodes
    <3> HIDE DEF i
    <3> DEFINE k1 == Created(k, path, i)
    <3>4. Local!Created(s, path, i) = Seen(k1) /\ KernelOK(k1) /\ k1.fds = k.fds
      BY <3>3, CreatedSeen DEF s
    <3> HIDE DEF k1
    <3>5. FreeFds(k1, c) # {}
      BY <1>4, <3>4 DEF FreeFds
    <3>6. Local!Opened(Seen(k1), c, i) = SeenStep("OPEN", Opened(k1, c, i))
      BY <3>4, <3>5, OpenedSeen
    <3> QED BY <3>1, <3>2, <3>4, <3>6 DEF k1, s
  <2> QED BY <2>1, <2>2, <2>3, <2>4
<1>5. CASE FreeFds(k, c) # {} /\ path \notin Dirs /\ path \notin Files
  <2>1. Open(k, c, path, creat) = Step(k, Fails("ENOENT"))
    BY <1>5 DEF Open
  <2>2. Local!Open(s, c, path, creat) = Local!Step(s, Local!Fails("ENOENT"))
    BY <1>0, <1>5, SameNames DEF Local!Open
  <2> QED BY <1>1, <2>1, <2>2 DEF s
<1> QED BY <1>2, <1>3, <1>4, <1>5

LEMMA CloseCallSeen ==
    ASSUME NEW k, KernelOK(k), NEW c \in Clients, NEW fd \in SeenFds
    PROVE  Local!Close(Seen(k), c, fd) = SeenStep("CLOSE", Close(k, c, fd - OFFSET))
<1>1. Local!Close(Seen(k), c, fd) = Step([Seen(k) EXCEPT !.fds[c][fd] = Closed], Returns(0))
  BY SameNames DEF Local!Close
<1>2. [Seen(k) EXCEPT !.fds[c][fd] = Closed] = Seen([k EXCEPT !.fds[c][fd - OFFSET] = Closed])
  BY EndSeen
<1>3. SeenResult("CLOSE", Returns(0)) = Returns(0)
  BY ResultsSeen
<1> QED BY <1>1, <1>2, <1>3 DEF Close, SeenStep, Step

\* A descriptor that moves on is seen to.
Moving(k, c, fd, pos) == [k EXCEPT !.fds[c][fd].pos = pos]

LEMMA MovedSeen ==
    ASSUME NEW k, KernelOK(k), NEW c \in Clients, NEW fd \in SeenFds, NEW pos
    PROVE  Moving(Seen(k), c, fd, pos) = Seen(Moving(k, c, fd - OFFSET, pos))
<1> DEFINE v == [k.fds[c][fd - OFFSET] EXCEPT !.pos = pos]
           s == Seen(k)
           d == fd - OFFSET
<1>1. s.fds[c][fd] = k.fds[c][d]
  BY SeenParts
<1> HIDE DEF s, d
<1>2. [s EXCEPT !.fds[c][fd].pos = pos] = [s EXCEPT !.fds[c][fd] = v]
  BY <1>1 DEF d
<1>3. [k EXCEPT !.fds[c][d].pos = pos] = [k EXCEPT !.fds[c][d] = v]
  BY DEF d
<1> HIDE DEF v
<1>4. [s EXCEPT !.fds[c][fd] = v] = Seen([k EXCEPT !.fds[c][d] = v])
  BY EndSeen DEF s, d
<1> QED BY <1>2, <1>3, <1>4 DEF s, d, Moving

LEMMA SameWindow ==
    /\ \A q, pos, n : Local!Window(q, pos, n) = Window(q, pos, n)
    /\ \A old, pos, d : Local!Overlay(old, pos, d) = Overlay(old, pos, d)
  BY DEF Local!Window, Window, Local!Overlay, Overlay, Local!Min, Min, Local!Max, Max,
         Local!Zero, Zero

LEMMA ReadCallSeen ==
    ASSUME NEW k, KernelOK(k), NEW c \in Clients, NEW fd \in Int, IsOpen(k, c, fd - OFFSET), NEW n
    PROVE  Local!Read(Seen(k), c, fd, n) = SeenStep("READ", Read(k, c, fd - OFFSET, n))
<1> DEFINE s == Seen(k)
           e == fd - OFFSET
           at == k.fds[c][e]
           d  == Window(k.inodes[at.of], at.pos, n)
           k1 == [k EXCEPT !.fds[c][e].pos = at.pos + Len(d)]
           r1 == [Returns(Len(d)) EXCEPT !.data = d]
<1>0. /\ fd \in SeenFds /\ s.fds[c][fd] = at /\ s.inodes = k.inodes
      /\ Local!IsDir(s, c, fd) <=> IsDir(k, c, e)
  BY OpenSeen, SeenParts
<1>1. \A f : Local!Step(s, Local!Fails(f)) = SeenStep("READ", Step(k, Fails(f)))
  BY SameKernelSeen
<1> HIDE DEF s, e
<1>2. CASE IsDir(k, c, e)
  <2>1. Read(k, c, e, n) = Step(k, Fails("EISDIR"))
    BY <1>2 DEF Read
  <2>2. Local!Read(s, c, fd, n) = Local!Step(s, Local!Fails("EISDIR"))
    BY <1>0, <1>2 DEF Local!Read
  <2> QED BY <1>1, <2>1, <2>2 DEF s, e
<1>3. CASE ~IsDir(k, c, e)
  <2>1. Read(k, c, e, n) = Step(k1, r1)
    BY <1>3 DEF Read
  <2>2. Local!Read(s, c, fd, n)
          = Step([s EXCEPT !.fds[c][fd].pos = s.fds[c][fd].pos + Len(d)], r1)
    BY <1>0, <1>3, SameNames, SameWindow DEF Local!Read
  <2> DEFINE pos == at.pos + Len(d)
  <2>3. Local!Read(s, c, fd, n) = Step(Moving(s, c, fd, pos), r1) /\ k1 = Moving(k, c, e, pos)
    BY <1>0, <2>2 DEF Moving
  <2> HIDE DEF pos
  <2>4. Moving(s, c, fd, pos) = Seen(Moving(k, c, e, pos))
    <3>1. fd \in SeenFds
      BY <1>0
    <3> QED BY <3>1, MovedSeen DEF s, e
  <2> HIDE DEF r1, k1
  <2>5. SeenResult("READ", r1) = r1
    BY ResultsSeen
  <2> QED BY <2>1, <2>3, <2>4, <2>5 DEF SeenStep, Step, s, e
<1> QED BY <1>2, <1>3

LEMMA ListCallSeen ==
    ASSUME NEW k, KernelOK(k), NEW c \in Clients, NEW fd \in Int, IsOpen(k, c, fd - OFFSET), NEW n
    PROVE  Local!List(Seen(k), c, fd, n) = SeenStep("GETDIRENTRIES", List(k, c, fd - OFFSET, n))
<1> DEFINE s == Seen(k)
           e == fd - OFFSET
           at == k.fds[c][e]
           d  == Window(Entries[at.of], at.pos, n)
           k1 == [k EXCEPT !.fds[c][e].pos = at.pos + Len(d)]
           r1 == [Returns(Len(d)) EXCEPT !.data = d, !.base = at.pos]
<1>0. /\ fd \in SeenFds /\ s.fds[c][fd] = at
      /\ Local!IsDir(s, c, fd) <=> IsDir(k, c, e)
  BY OpenSeen, SeenParts
<1>1. \A f : Local!Step(s, Local!Fails(f)) = SeenStep("GETDIRENTRIES", Step(k, Fails(f)))
  BY SameKernelSeen
<1> HIDE DEF s, e
<1>2. CASE ~IsDir(k, c, e)
  <2>1. List(k, c, e, n) = Step(k, Fails("ENOTDIR"))
    BY <1>2 DEF List
  <2>2. Local!List(s, c, fd, n) = Local!Step(s, Local!Fails("ENOTDIR"))
    BY <1>0, <1>2 DEF Local!List
  <2> QED BY <1>1, <2>1, <2>2 DEF s, e
<1>3. CASE IsDir(k, c, e)
  <2>1. List(k, c, e, n) = Step(k1, r1)
    BY <1>3 DEF List
  <2>2. Local!List(s, c, fd, n)
          = Step([s EXCEPT !.fds[c][fd].pos = s.fds[c][fd].pos + Len(d)], r1)
    BY <1>0, <1>3, SameNames, SameWindow DEF Local!List
  <2> DEFINE pos == at.pos + Len(d)
  <2>3. Local!List(s, c, fd, n) = Step(Moving(s, c, fd, pos), r1) /\ k1 = Moving(k, c, e, pos)
    BY <1>0, <2>2 DEF Moving
  <2> HIDE DEF pos
  <2>4. Moving(s, c, fd, pos) = Seen(Moving(k, c, e, pos))
    <3>1. fd \in SeenFds
      BY <1>0
    <3> QED BY <3>1, MovedSeen DEF s, e
  <2> HIDE DEF r1, k1
  <2>5. SeenResult("GETDIRENTRIES", r1) = r1
    BY ResultsSeen
  <2> QED BY <2>1, <2>3, <2>4, <2>5 DEF SeenStep, Step, s, e
<1> QED BY <1>2, <1>3

\* A file that is written at a place.
Filled(k, i, d) == [k EXCEPT !.inodes[i] = d]

LEMMA FilledSeen ==
    ASSUME NEW k, KernelOK(k), NEW i, NEW d
    PROVE  Filled(Seen(k), i, d) = Seen(Filled(k, i, d))
  BY FileSeen DEF Filled

LEMMA WriteCallSeen ==
    ASSUME NEW k, KernelOK(k), NEW c \in Clients, NEW fd \in Int, IsOpen(k, c, fd - OFFSET),
           NEW d \in Seq(Data)
    PROVE  Local!Written(Seen(k), c, fd, d) = SeenStep("WRITE", Written(k, c, fd - OFFSET, d))
<1> DEFINE s == Seen(k)
           e == fd - OFFSET
           at == k.fds[c][e]
           f  == Overlay(k.inodes[at.of], at.pos, d)
           pos == at.pos + Len(d)
           k1 == Filled(k, at.of, f)
           s1 == Filled(s, at.of, f)
<1>0. /\ fd \in SeenFds /\ s.fds[c][fd] = at /\ s.inodes = k.inodes
      /\ Local!IsDir(s, c, fd) <=> IsDir(k, c, e)
  BY OpenSeen, SeenParts
<1>1. /\ \A x : Local!Step(s, Local!Fails(x)) = SeenStep("WRITE", Step(k, Fails(x)))
      /\ \A r : Local!Step(s, r) = SeenStep("WRITE", Step(k, r))
  BY SameKernelSeen
<1> HIDE DEF s, e
<1>2. CASE IsDir(k, c, e)
  <2>1. Written(k, c, e, d) = Step(k, Fails("EBADF"))
    BY <1>2 DEF Written
  <2>2. Local!Written(s, c, fd, d) = Local!Step(s, Local!Fails("EBADF"))
    BY <1>0, <1>2 DEF Local!Written
  <2> QED BY <1>1, <2>1, <2>2 DEF s, e
<1>3. CASE ~IsDir(k, c, e) /\ d = <<>>
  <2>1. Written(k, c, e, d) = Step(k, Returns(0))
    BY <1>3 DEF Written
  <2>2. Local!Written(s, c, fd, d) = Local!Step(s, Returns(0))
    BY <1>0, <1>3, SameNames DEF Local!Written
  <2> QED BY <1>1, <2>1, <2>2 DEF s, e
<1>4. CASE ~IsDir(k, c, e) /\ d # <<>>
  <2>1. at.of \in Inodes /\ f \in Seq(Data)
    <3>1. at.pos \in Nat /\ at.of \in Inodes
      BY <1>4, EndForms DEF e
    <3>2. k.inodes[at.of] \in Seq(Data)
      BY <3>1 DEF KernelOK
    <3> QED BY <3>1, <3>2, OverlayForms
  <2>2. KernelOK(k1)
    <3> HIDE DEF f, at
    <3> QED BY <2>1, FileChanged DEF Filled
  <2>3. s1 = Seen(k1)
    <3> HIDE DEF f, at
    <3> QED BY FilledSeen DEF s
  <2>4. k1.fds = k.fds
    <3>1. PICK n, h, g : k = [names |-> n, inodes |-> h, fds |-> g]
      BY KernelParts, Zenon
    <3> HIDE DEF f, at
    <3> QED BY <3>1 DEF Filled
  <2>5. s1.fds = s.fds
    <3>1. s = [names |-> k.names, inodes |-> k.inodes, fds |-> SeenEnds(k)]
      BY SeenParts DEF s
    <3> HIDE DEF f, at
    <3> QED BY <3>1 DEF Filled
  <2>6. Written(k, c, e, d) = Step(Moving(k1, c, e, pos), Returns(Len(d)))
    <3>1. Written(k, c, e, d)
            = Step([[k EXCEPT !.inodes[at.of] = Overlay(@, at.pos, d)]
                      EXCEPT !.fds[c][e].pos = @ + Len(d)], Returns(Len(d)))
      BY <1>4 DEF Written
    <3>2. [k EXCEPT !.inodes[at.of] = Overlay(@, at.pos, d)] = k1
      BY DEF Filled
    <3> HIDE DEF k1
    <3>3. [k1 EXCEPT !.fds[c][e].pos = @ + Len(d)] = Moving(k1, c, e, pos)
      BY <2>4 DEF Moving
    <3> QED BY <3>1, <3>2, <3>3
  <2>7. Local!Written(s, c, fd, d) = Step(Moving(s1, c, fd, pos), Returns(Len(d)))
    <3>1. Local!Written(s, c, fd, d)
            = Step([[s EXCEPT !.inodes[at.of] = Local!Overlay(@, at.pos, d)]
                      EXCEPT !.fds[c][fd].pos = @ + Len(d)], Returns(Len(d)))
      BY <1>0, <1>4, SameNames DEF Local!Written
    <3>2. [s EXCEPT !.inodes[at.of] = Local!Overlay(@, at.pos, d)] = s1
      <4>1. Local!Overlay(s.inodes[at.of], at.pos, d) = f
        BY <1>0, SameWindow
      <4> QED BY <4>1 DEF Filled
    <3> HIDE DEF s1
    <3>3. [s1 EXCEPT !.fds[c][fd].pos = @ + Len(d)] = Moving(s1, c, fd, pos)
      BY <1>0, <2>5 DEF Moving
    <3> QED BY <3>1, <3>2, <3>3
  <2> HIDE DEF k1, s1, pos
  <2>8. Moving(s1, c, fd, pos) = Seen(Moving(k1, c, e, pos))
    <3>1. fd \in SeenFds
      BY <1>0
    <3> QED BY <2>2, <2>3, <3>1, MovedSeen DEF e
  <2>9. SeenResult("WRITE", Returns(Len(d))) = Returns(Len(d))
    BY ResultsSeen
  <2> QED BY <2>6, <2>7, <2>8, <2>9 DEF SeenStep, Step, s, e
<1> QED BY <1>2, <1>3, <1>4

LEMMA SeekCallSeen ==
    ASSUME NEW k, KernelOK(k), NEW c \in Clients, NEW fd \in SeenFds, NEW n
    PROVE  Local!Seek(Seen(k), c, fd, n) = SeenStep("LSEEK", Seek(k, c, fd - OFFSET, n))
<1>1. Local!Seek(Seen(k), c, fd, n) = Step(Moving(Seen(k), c, fd, n), Returns(n))
  BY SameNames DEF Local!Seek, Moving
<1>2. Seek(k, c, fd - OFFSET, n) = Step(Moving(k, c, fd - OFFSET, n), Returns(n))
  BY DEF Seek, Moving
<1>3. Moving(Seen(k), c, fd, n) = Seen(Moving(k, c, fd - OFFSET, n))
  BY MovedSeen
<1>4. SeenResult("LSEEK", Returns(n)) = Returns(n)
  BY ResultsSeen
<1> QED BY <1>1, <1>2, <1>3, <1>4 DEF SeenStep, Step

LEMMA UnlinkCallSeen ==
    ASSUME NEW k, KernelOK(k), NEW path
    PROVE  /\ Local!Unlink(Seen(k), path) = SeenStep("UNLINK", Unlink(k, path))
           /\ Local!Exists(Seen(k), path) <=> Exists(k, path)
<1> DEFINE s == Seen(k)
<1>1. Local!Exists(s, path) <=> Exists(k, path)
  BY SeenParts, SameNames DEF Local!Exists, Exists
<1>2. \A e : Local!Step(s, Local!Fails(e)) = SeenStep("UNLINK", Step(k, Fails(e)))
  BY SameKernelSeen
<1>3. [s EXCEPT !.names[path] = Nobody] = Seen([k EXCEPT !.names[path] = Nobody])
  <2>1. \A p, j : [Seen(k) EXCEPT !.names[p] = j] = Seen([k EXCEPT !.names[p] = j])
    BY NameSeen
  <2> QED BY <2>1, Zenon
<1> HIDE DEF s
<1>4. CASE path \in Dirs
  <2>1. Unlink(k, path) = Step(k, Fails("EISDIR"))
    BY <1>4 DEF Unlink
  <2>2. Local!Unlink(s, path) = Local!Step(s, Local!Fails("EISDIR"))
    BY <1>4, SameNames DEF Local!Unlink
  <2> QED BY <1>1, <1>2, <2>1, <2>2 DEF s
<1>5. CASE path \notin Dirs /\ Exists(k, path)
  <2>1. Unlink(k, path) = Step([k EXCEPT !.names[path] = Nobody], Returns(0))
    BY <1>5 DEF Unlink
  <2>2. Local!Unlink(s, path) = Step([s EXCEPT !.names[path] = Nobody], Returns(0))
    BY <1>1, <1>5, SameNames DEF Local!Unlink
  <2>3. SeenResult("UNLINK", Returns(0)) = Returns(0)
    BY ResultsSeen
  <2>4. Local!Unlink(s, path) = SeenStep("UNLINK", Unlink(k, path))
    <3> DEFINE l == [s EXCEPT !.names[path] = Nobody]
               m == [k EXCEPT !.names[path] = Nobody]
    <3>1. Local!Unlink(s, path) = Step(l, Returns(0)) /\ Unlink(k, path) = Step(m, Returns(0)) /\ l = Seen(m)
      BY <1>3, <2>1, <2>2
    <3> HIDE DEF l, m
    <3> QED BY <2>3, <3>1 DEF SeenStep, Step
  <2> QED BY <1>1, <2>4 DEF s
<1>6. CASE path \notin Dirs /\ ~Exists(k, path)
  <2>1. Unlink(k, path) = Step(k, Fails("ENOENT"))
    BY <1>6 DEF Unlink
  <2>2. Local!Unlink(s, path) = Local!Step(s, Local!Fails("ENOENT"))
    BY <1>1, <1>6, SameNames DEF Local!Unlink
  <2> QED BY <1>1, <1>2, <2>1, <2>2 DEF s
<1> QED BY <1>4, <1>5, <1>6

\* Each call on what a program sees gives what it sees of the shifted call.
LEMMA SyscallSeen ==
    ASSUME NEW k, KernelOK(k), NEW c \in Clients, NEW a \in Typed, NEW b, Shifted(a, b)
    PROVE  Local!Syscall(Seen(k), c, a) = SeenStep(a.op, Syscall(k, c, b))
<1> DEFINE s == Seen(k)
<1>0. /\ a.op \in Ops /\ a.fd \in Int /\ a.data \in Seq(Data)
      /\ b.op = a.op /\ b.path = a.path /\ b.n = a.n /\ b.data = a.data
      /\ a.op \in FdOps => b.fd = a.fd - OFFSET
  BY DEF Typed, Shifted
<1>1. /\ \A e : Local!Step(s, Local!Fails(e)) = SeenStep(a.op, Step(k, Fails(e)))
      /\ a.op # "OPEN" => \A r : Local!Step(s, r) = SeenStep(a.op, Step(k, r))
  BY SameKernelSeen
<1>2. a.op \in FdOps => (Local!IsOpen(s, c, a.fd) <=> IsOpen(k, c, b.fd))
  BY <1>0, OpenSeen
<1>3. a.op \in FdOps /\ IsOpen(k, c, b.fd) => a.fd \in SeenFds
  BY <1>0, OpenSeen
<1> HIDE DEF s
<1>4. CASE a.op \in FdOps /\ ~IsOpen(k, c, b.fd)
  <2>1. Syscall(k, c, b) = Step(k, Fails("EBADF"))
    BY <1>0, <1>4 DEF Syscall
  <2>2. Local!Syscall(s, c, a) = Local!Step(s, Local!Fails("EBADF"))
    BY <1>2, <1>4, SameNames DEF Local!Syscall
  <2> QED BY <1>1, <2>1, <2>2 DEF s
<1>5. CASE a.op = "OPEN"
  <2>1. Syscall(k, c, b) = Open(k, c, a.path, a.n = 1)
    BY <1>0, <1>5 DEF Syscall, FdOps
  <2>2. Local!Syscall(s, c, a) = Local!Open(s, c, a.path, a.n = 1)
    BY <1>5, SameNames DEF Local!Syscall, FdOps
  <2> DEFINE creat == a.n = 1
  <2>3. creat \in BOOLEAN
    OBVIOUS
  <2> HIDE DEF creat
  <2>4. Local!Open(s, c, a.path, creat) = SeenStep("OPEN", Open(k, c, a.path, creat))
    BY <2>3, OpenCallSeen DEF s
  <2> QED BY <1>5, <2>1, <2>2, <2>4 DEF s, creat
<1>6. CASE a.op = "CLOSE" /\ IsOpen(k, c, b.fd)
  <2>1. Syscall(k, c, b) = Close(k, c, a.fd - OFFSET)
    BY <1>0, <1>6 DEF Syscall, FdOps
  <2>2. Local!Syscall(s, c, a) = Local!Close(s, c, a.fd)
    BY <1>2, <1>6, SameNames DEF Local!Syscall, FdOps
  <2>3. a.fd \in SeenFds
    BY <1>3, <1>6 DEF FdOps
  <2> QED BY <1>6, <2>1, <2>2, <2>3, CloseCallSeen DEF s
<1>7. CASE a.op = "READ" /\ IsOpen(k, c, b.fd)
  <2>1. Syscall(k, c, b) = Read(k, c, a.fd - OFFSET, a.n)
    BY <1>0, <1>7 DEF Syscall, FdOps
  <2>2. Local!Syscall(s, c, a) = Local!Read(s, c, a.fd, a.n)
    BY <1>2, <1>7, SameNames DEF Local!Syscall, FdOps
  <2>3. IsOpen(k, c, a.fd - OFFSET)
    BY <1>0, <1>7 DEF FdOps
  <2> QED BY <1>0, <1>7, <2>1, <2>2, <2>3, ReadCallSeen DEF s
<1>8. CASE a.op = "WRITE" /\ IsOpen(k, c, b.fd)
  <2>1. Syscall(k, c, b) = Written(k, c, a.fd - OFFSET, a.data)
    BY <1>0, <1>8 DEF Syscall, FdOps
  <2>2. Local!Syscall(s, c, a) = Local!Written(s, c, a.fd, a.data)
    BY <1>2, <1>8, SameNames DEF Local!Syscall, FdOps
  <2>3. IsOpen(k, c, a.fd - OFFSET)
    BY <1>0, <1>8 DEF FdOps
  <2> QED BY <1>0, <1>8, <2>1, <2>2, <2>3, WriteCallSeen DEF s
<1>9. CASE a.op = "LSEEK" /\ IsOpen(k, c, b.fd)
  <2>1. Syscall(k, c, b) = Seek(k, c, a.fd - OFFSET, a.n)
    BY <1>0, <1>9 DEF Syscall, FdOps
  <2>2. Local!Syscall(s, c, a) = Local!Seek(s, c, a.fd, a.n)
    BY <1>2, <1>9, SameNames DEF Local!Syscall, FdOps
  <2>3. a.fd \in SeenFds
    BY <1>3, <1>9 DEF FdOps
  <2> QED BY <1>9, <2>1, <2>2, <2>3, SeekCallSeen DEF s
<1>10. CASE a.op = "UNLINK"
  <2>1. Syscall(k, c, b) = Unlink(k, a.path)
    BY <1>0, <1>10 DEF Syscall, FdOps
  <2>2. Local!Syscall(s, c, a) = Local!Unlink(s, a.path)
    BY <1>10, SameNames DEF Local!Syscall, FdOps
  <2> QED BY <1>10, <2>1, <2>2, UnlinkCallSeen DEF s
<1>11. CASE a.op = "STAT"
  <2> DEFINE r == IF Exists(k, a.path) THEN Returns(0) ELSE Fails("ENOENT")
  <2>1. Syscall(k, c, b) = Step(k, r)
    BY <1>0, <1>11 DEF Syscall, FdOps
  <2>2. Local!Exists(s, a.path) <=> Exists(k, a.path)
    BY UnlinkCallSeen DEF s
  <2>3. Local!Syscall(s, c, a) = Local!Step(s, r)
    BY <1>11, <2>2, SameNames DEF Local!Syscall, FdOps
  <2> HIDE DEF r
  <2> QED BY <1>1, <1>11, <2>1, <2>3 DEF s
<1>12. CASE a.op = "GETDIRENTRIES" /\ IsOpen(k, c, b.fd)
  <2>1. Syscall(k, c, b) = List(k, c, a.fd - OFFSET, a.n)
    BY <1>0, <1>12 DEF Syscall, FdOps
  <2>2. Local!Syscall(s, c, a) = Local!List(s, c, a.fd, a.n)
    BY <1>2, <1>12, SameNames DEF Local!Syscall, FdOps
  <2>3. IsOpen(k, c, a.fd - OFFSET)
    BY <1>0, <1>12 DEF FdOps
  <2> QED BY <1>0, <1>12, <2>1, <2>2, <2>3, ListCallSeen DEF s
<1>13. CASE a.op = "GETDIRTREE"
  <2> DEFINE r == IF a.path \in Dirs THEN [Returns(0) EXCEPT !.tree = Tree[a.path]]
                  ELSE Fails("ENOENT")
  <2>1. Syscall(k, c, b) = Step(k, r)
    BY <1>0, <1>13 DEF Syscall, FdOps
  <2>2. Local!Syscall(s, c, a) = Local!Step(s, r)
    BY <1>13, SameNames DEF Local!Syscall, FdOps
  <2> HIDE DEF r
  <2> QED BY <1>1, <1>13, <2>1, <2>2 DEF s
<1> QED BY <1>0, <1>4, <1>5, <1>6, <1>7, <1>8, <1>9, <1>10, <1>11, <1>12, <1>13
        DEF Ops, PathOps, FdOps, s

-----------------------------------------------------------------------------
(* What a handler makes of a request                                       *)

LEMMA UnusedFields ==
    ASSUME NEW a \in Requests
    PROVE  /\ a.op \in FdOps => a.path = Nobody
           /\ a.op \in {"STAT", "UNLINK", "GETDIRTREE", "CLOSE"} => a.n = 0
           /\ a = [op |-> a.op, path |-> a.path, fd |-> a.fd, n |-> a.n, data |-> a.data]
<1>1. IsCall(a)
  BY RemoteAssumption DEF Requests
<1>2. CASE /\ a.op \in PathOps /\ a = OnPath(a.op, a.path, a.n)
           /\ a.n \in IF a.op = "OPEN" THEN Nat ELSE {0}
  <2>1. a = [op |-> a.op, path |-> a.path, fd |-> 0, n |-> a.n, data |-> <<>>]
    BY <1>2 DEF OnPath, NoCall
  <2>2. a = [op |-> a.op, path |-> a.path, fd |-> a.fd, n |-> a.n, data |-> a.data]
    BY <2>1
  <2> QED BY <1>2, <2>2 DEF PathOps, FdOps
<1>3. CASE /\ a.op \in FdOps \ {"WRITE"} /\ a = OnFd(a.op, a.fd, a.n)
           /\ a.n \in IF a.op = "CLOSE" THEN {0} ELSE Nat
  <2>1. a = [op |-> a.op, path |-> Nobody, fd |-> a.fd, n |-> a.n, data |-> <<>>]
    BY <1>3 DEF OnFd, NoCall
  <2>2. a = [op |-> a.op, path |-> a.path, fd |-> a.fd, n |-> a.n, data |-> a.data]
        /\ a.path = Nobody
    BY <2>1
  <2> QED BY <1>3, <2>2 DEF FdOps
<1>4. CASE a = Write(a.fd, a.data)
  <2>1. a = [op |-> "WRITE", path |-> Nobody, fd |-> a.fd, n |-> Len(a.data), data |-> a.data]
    BY <1>4 DEF Write, NoCall
  <2>2. /\ a = [op |-> a.op, path |-> a.path, fd |-> a.fd, n |-> a.n, data |-> a.data]
        /\ a.path = Nobody /\ a.op = "WRITE"
    BY <2>1
  <2> QED BY <2>2 DEF FdOps
<1> QED BY <1>1, <1>2, <1>3, <1>4 DEF IsCall

\* A request that came whole is the call that was made.
LEMMA WholeShifted ==
    ASSUME NEW a \in Requests, a.op # "WRITE"
    PROVE  Shifted(a, Parsed(a.op, Body(a)))
<1> DEFINE b == Body(a)
<1>0. /\ a.op \in Ops /\ a.data = <<>>
      /\ a.op \in FdOps => a.path = Nobody
      /\ a.op \in {"STAT", "UNLINK", "GETDIRTREE", "CLOSE"} => a.n = 0
  BY CallForms, UnusedFields DEF Typed
<1>1. CASE a.op = "OPEN"
  <2>1. b = <<<<"n", a.n>>, <<"path", a.path>>>>
    BY <1>1, BodyOf
  <2>2. Parsed(a.op, b) = OnPath(a.op, a.path, a.n)
    BY <1>1, <2>1 DEF Parsed
  <2>3. Parsed(a.op, b) = [op |-> a.op, path |-> a.path, fd |-> 0, n |-> a.n, data |-> <<>>]
    BY <2>2 DEF OnPath, NoCall
  <2> HIDE DEF b
  <2> QED BY <1>0, <1>1, <2>3 DEF Shifted, FdOps, b
<1>2. CASE a.op \in {"STAT", "UNLINK", "GETDIRTREE"}
  <2>1. b = <<<<"path", a.path>>>>
    BY <1>2, BodyOf
  <2>2. Parsed(a.op, b) = OnPath(a.op, a.path, 0)
    BY <1>2, <2>1 DEF Parsed
  <2>3. Parsed(a.op, b) = [op |-> a.op, path |-> a.path, fd |-> 0, n |-> 0, data |-> <<>>]
    BY <2>2 DEF OnPath, NoCall
  <2> HIDE DEF b
  <2> QED BY <1>0, <1>2, <2>3 DEF Shifted, FdOps, b
<1>3. CASE a.op = "CLOSE"
  <2>1. b = <<<<"fd", a.fd - OFFSET>>>>
    BY <1>3, BodyOf
  <2>2. Parsed(a.op, b) = OnFd(a.op, a.fd - OFFSET, 0)
    BY <1>3, <2>1 DEF Parsed
  <2>3. Parsed(a.op, b)
          = [op |-> a.op, path |-> Nobody, fd |-> a.fd - OFFSET, n |-> 0, data |-> <<>>]
    BY <2>2 DEF OnFd, NoCall
  <2> HIDE DEF b
  <2> QED BY <1>0, <1>3, <2>3 DEF Shifted, FdOps, b
<1>4. CASE a.op \in {"READ", "LSEEK", "GETDIRENTRIES"}
  <2>1. b = <<<<"fd", a.fd - OFFSET>>, <<"n", a.n>>>>
    BY <1>4, BodyOf
  <2>2. Parsed(a.op, b) = OnFd(a.op, a.fd - OFFSET, a.n)
    BY <1>4, <2>1 DEF Parsed
  <2>3. Parsed(a.op, b)
          = [op |-> a.op, path |-> Nobody, fd |-> a.fd - OFFSET, n |-> a.n, data |-> <<>>]
    BY <2>2 DEF OnFd, NoCall
  <2> HIDE DEF b
  <2> QED BY <1>0, <1>4, <2>3 DEF Shifted, FdOps, b
<1> QED BY <1>0, <1>1, <1>2, <1>3, <1>4 DEF Ops, PathOps, FdOps

\* What is left of the data of a write, and memory that nobody has written.
Rest(data, good) == [i \in 1..Len(data) |-> IF i > good THEN Junk ELSE data[i]]

LEMMA RestTorn ==
    ASSUME NEW a \in Requests, NEW good \in 0..Len(a.data)
    PROVE  /\ [a EXCEPT !.data = Rest(a.data, good)] \in Local!Torn(a)
           /\ Rest(a.data, good) \in Seq(Data)
           /\ good = Len(a.data) => Rest(a.data, good) = a.data
<1>1. a.data \in Seq(Data) /\ Len(a.data) \in Nat /\ DOMAIN a.data = 1..Len(a.data)
  BY CallForms, LenProperties DEF Typed
<1>2. Rest(a.data, good) = [i \in DOMAIN a.data |-> IF i > good THEN Local!Junk ELSE a.data[i]]
  BY <1>1 DEF Rest, Local!Junk, Junk
<1>3. [a EXCEPT !.data = Rest(a.data, good)] \in Local!Torn(a)
  BY <1>2 DEF Local!Torn
<1>4. Junk \in Data /\ \A i \in 1..Len(a.data) : a.data[i] \in Data
  BY <1>1, ElementOfSeq DEF Data
<1>5. Rest(a.data, good) \in Seq(Data)
  BY <1>1, <1>4 DEF Rest
<1>6. good = Len(a.data) => Rest(a.data, good) = a.data
  <2> SUFFICES ASSUME good = Len(a.data) PROVE Rest(a.data, good) = a.data
    OBVIOUS
  <2>1. Rest(a.data, good) = [i \in 1..Len(a.data) |-> a.data[i]]
    BY <1>1 DEF Rest
  <2> QED BY <1>1, <2>1
<1> QED BY <1>3, <1>5, <1>6

\* The handler makes the call that was sent, or, when its program has died, a
\* write of which the end may never have been written.
LEMMA ParsedShifted ==
    ASSUME NEW a \in Requests, NEW b \in Cuts(a)
    PROVE  /\ b = Body(a) => Shifted(a, Parsed(a.op, b))
           /\ \E t \in Local!Torn(a) : t \in Typed /\ t.op = a.op /\ Shifted(t, Parsed(a.op, b))
<1>0. /\ a \in Typed /\ Len(a.data) \in Nat /\ a.data \in Seq(Data)
      /\ a = [op |-> a.op, path |-> a.path, fd |-> a.fd, n |-> a.n, data |-> a.data]
  BY CallForms, UnusedFields, LenProperties DEF Typed
<1>1. CASE a.op # "WRITE"
  <2>1. b = Body(a)
    BY <1>1, CutForms, BodyShape
  <2>2. Shifted(a, Parsed(a.op, b))
    BY <1>1, <2>1, WholeShifted
  <2>3. a \in Local!Torn(a)
    <3>1. Len(a.data) \in 0..Len(a.data)
      BY <1>0
    <3>2. /\ [a EXCEPT !.data = Rest(a.data, Len(a.data))] \in Local!Torn(a)
          /\ Rest(a.data, Len(a.data)) = a.data
      BY <3>1, RestTorn
    <3>3. [a EXCEPT !.data = a.data] = a
      BY <1>0
    <3> QED BY <3>2, <3>3
  <2> QED BY <1>0, <2>2, <2>3
<1>2. CASE a.op = "WRITE"
  <2> DEFINE s    == SubSeq(b, 3, Len(b))
             good == Len(b) - 2
             sent == DataOf(b)
             e    == [i \in 1..a.n |-> IF i <= Len(sent) THEN sent[i] ELSE Junk]
             t    == [a EXCEPT !.data = Rest(a.data, good)]
  <2>1. a.n = Len(a.data) /\ a.path = Nobody
    BY <1>2, CallForms, UnusedFields DEF FdOps
  <2>2. Body(a) = <<<<"fd", a.fd - OFFSET>>, <<"n", a.n>>>> \o Bytes(a.data)
    BY <1>2, BodyOf
  <2>3. /\ Bytes(a.data) \in Seq(Unit) /\ Len(Bytes(a.data)) = Len(a.data)
        /\ \A i \in 1..Len(a.data) : Bytes(a.data)[i] = <<"byte", a.data[i]>>
    BY <1>0, ByteUnits
  <2>4. Len(Body(a)) = 2 + Len(a.data)
    BY <1>0, <2>2, <2>3
  <2>5. /\ Len(b) \in 2..2 + Len(a.data) /\ b \in Seq(Unit)
        /\ \A i \in 1..Len(b) : b[i] = Body(a)[i]
        /\ b = Body(a) => good = Len(a.data)
    BY <1>0, <1>2, <2>4, CutForms DEF Fields
  <2>6. b[1] = <<"fd", a.fd - OFFSET>> /\ b[2] = <<"n", a.n>>
    <3>1. b[1] = Body(a)[1] /\ b[2] = Body(a)[2]
      BY <1>0, <2>5
    <3> QED BY <3>1, <1>0, <2>2, <2>3
  <2>7. good \in 0..Len(a.data)
    BY <1>0, <2>5
  <2>8. ASSUME NEW i \in 1..good PROVE b[i + 2] = <<"byte", a.data[i]>>
    <3>1. i \in 1..Len(a.data) /\ i + 2 \in 1..Len(b)
      BY <1>0, <2>5
    <3>2. Body(a)[i + 2] = Bytes(a.data)[i]
      BY <1>0, <2>2, <2>3, <3>1
    <3> QED BY <2>3, <2>5, <3>1, <3>2
  <2>9. s \in Seq(Unit) /\ Len(s) = good /\ \A i \in 1..good : s[i] = b[i + 2]
    <3>1. \A i \in 3..Len(b) : b[i] \in Unit
      BY <2>5, ElementOfSeq
    <3>2. /\ s \in Seq(Unit) /\ Len(s) = IF 3 <= Len(b) THEN Len(b) - 3 + 1 ELSE 0
          /\ \A i \in 1..Len(b) - 3 + 1 : s[i] = b[3 + i - 1]
      BY <2>5, <3>1, SubSeqProperties
    <3>3. Len(s) = good /\ good = Len(b) - 3 + 1
      <4>1. Len(b) \in Int /\ Len(b) >= 2
        BY <1>0, <2>5
      <4> DEFINE l == Len(b)
                 m == Len(s)
      <4>2. l \in Int /\ l >= 2 /\ m = IF 3 <= l THEN l - 3 + 1 ELSE 0
        BY <3>2, <4>1
      <4> HIDE DEF l, m
      <4>3. m = l - 2 /\ l - 2 = l - 3 + 1
        BY <4>2
      <4> QED BY <4>3 DEF l, m
    <3>4. \A i \in 1..good : 3 + i - 1 = i + 2
      BY <2>5
    <3> QED BY <3>2, <3>3, <3>4
  <2> HIDE DEF s, good
  <2>10. sent = [i \in DOMAIN s |-> s[i][2]]
    BY DEF DataOf, Values, s
  <2>11. Len(sent) = good /\ \A i \in 1..good : sent[i] = a.data[i]
    <3>1. DOMAIN s = 1..good /\ good \in Nat
      BY <2>7, <2>9
    <3>2. \A i \in 1..good : s[i][2] = a.data[i]
      BY <2>8, <2>9
    <3> QED BY <2>10, <3>1, <3>2
  <2> HIDE DEF sent
  <2>12. e = Rest(a.data, good)
    <3>1. ASSUME NEW i \in 1..Len(a.data)
          PROVE  (IF i <= Len(sent) THEN sent[i] ELSE Junk)
                   = IF i > good THEN Junk ELSE a.data[i]
      BY <1>0, <2>7, <2>11
    <3> QED BY <2>1, <3>1 DEF Rest
  <2>13. Parsed(a.op, b) = Write(a.fd - OFFSET, e)
    BY <1>2, <2>6 DEF Parsed, sent
  <2>14. /\ t \in Local!Torn(a) /\ Rest(a.data, good) \in Seq(Data)
         /\ good = Len(a.data) => Rest(a.data, good) = a.data
    BY <2>7, RestTorn
  <2>15. Len(Rest(a.data, good)) = a.n
    BY <1>0, <2>1 DEF Rest
  <2> HIDE DEF e
  <2> DEFINE d == Rest(a.data, good)
  <2>16. Parsed(a.op, b) = [op |-> "WRITE", path |-> Nobody, fd |-> a.fd - OFFSET,
                            n |-> a.n, data |-> d]
    BY <2>12, <2>13, <2>15 DEF Write, NoCall
  <2>17. t = [op |-> a.op, path |-> a.path, fd |-> a.fd, n |-> a.n, data |-> d]
    BY <1>0
  <2> HIDE DEF d, t
  <2>18. Shifted(t, Parsed(a.op, b)) /\ t.op = a.op
    BY <1>2, <2>1, <2>16, <2>17 DEF Shifted
  <2>19. t \in Typed
    BY <1>0, <2>14, <2>17 DEF Typed, d
  <2>20. b = Body(a) => Shifted(a, Parsed(a.op, b))
    BY <1>2, <2>1, <2>5, <2>14, <2>16 DEF Shifted, d
  <2> QED BY <2>14, <2>18, <2>19, <2>20
<1> QED BY <1>1, <1>2

-----------------------------------------------------------------------------
(* What the library makes of a reply                                       *)

\* The fields of a result that the reply to an operation does not carry.
Fits(op, r) ==
  /\ op \notin {"READ", "GETDIRENTRIES"} => r.data = <<>>
  /\ op # "GETDIRENTRIES" => r.base = 0
  /\ op # "GETDIRTREE" => r.tree = NoTree
  /\ op = "GETDIRTREE" => r.ret \in {0, -1}

LEMMA PlainFits ==
    /\ \A op, e : Fits(op, Fails(e))
    /\ \A op, n : op # "GETDIRTREE" => Fits(op, Returns(n))
    /\ \A d : Fits("READ", [Returns(Len(d)) EXCEPT !.data = d])
    /\ \A d, p : Fits("GETDIRENTRIES", [Returns(Len(d)) EXCEPT !.data = d, !.base = p])
    /\ \A t : Fits("GETDIRTREE", [Returns(0) EXCEPT !.tree = t])
<1>1. \A n : Returns(n) = [ret |-> n, errno |-> Nobody, data |-> <<>>, base |-> 0, tree |-> NoTree]
  BY DEF Returns, NoResult, Outcome
<1>2. ASSUME NEW e
      PROVE  Fails(e) = [ret |-> -1, errno |-> e, data |-> <<>>, base |-> 0, tree |-> NoTree]
  <2>1. NoResult = [ret |-> 0, errno |-> Nobody, data |-> <<>>, base |-> 0, tree |-> NoTree]
    BY DEF NoResult, Outcome
  <2>2. Fails(e) = [NoResult EXCEPT !.ret = -1, !.errno = e]
    BY DEF Fails
  <2> HIDE DEF NoResult
  <2> QED BY <2>1, <2>2
<1>3. \A op, e : Fits(op, Fails(e))
  BY <1>2 DEF Fits
<1>4. \A op, n : op # "GETDIRTREE" => Fits(op, Returns(n))
  BY <1>1 DEF Fits
<1>5. ASSUME NEW d PROVE [Returns(Len(d)) EXCEPT !.data = d]
        = [ret |-> Len(d), errno |-> Nobody, data |-> d, base |-> 0, tree |-> NoTree]
  BY <1>1
<1>6. ASSUME NEW d, NEW p PROVE [Returns(Len(d)) EXCEPT !.data = d, !.base = p]
        = [ret |-> Len(d), errno |-> Nobody, data |-> d, base |-> p, tree |-> NoTree]
  <2> DEFINE o(b) == [ret |-> Len(d), errno |-> Nobody, data |-> d, base |-> b, tree |-> NoTree]
  <2>1. [Returns(Len(d)) EXCEPT !.data = d, !.base = p] = [o(0) EXCEPT !.base = p]
    BY <1>5
  <2>2. [o(0) EXCEPT !.base = p] = o(p)
    OBVIOUS
  <2> QED BY <2>1, <2>2
<1>7. ASSUME NEW t PROVE [Returns(0) EXCEPT !.tree = t]
        = [ret |-> 0, errno |-> Nobody, data |-> <<>>, base |-> 0, tree |-> t]
  BY <1>1
<1>8. \A d : Fits("READ", [Returns(Len(d)) EXCEPT !.data = d])
  BY <1>5 DEF Fits
<1>9. \A d, p : Fits("GETDIRENTRIES", [Returns(Len(d)) EXCEPT !.data = d, !.base = p])
  BY <1>6 DEF Fits
<1>10. \A t : Fits("GETDIRTREE", [Returns(0) EXCEPT !.tree = t])
  BY <1>7 DEF Fits
<1> QED BY <1>3, <1>4, <1>8, <1>9, <1>10

LEMMA SyscallFits ==
    ASSUME NEW k, NEW c, NEW a, a.op \in Ops
    PROVE  Fits(a.op, Syscall(k, c, a).result)
<1> DEFINE s == Syscall(k, c, a)
           r == s.result
<1> SUFFICES Fits(a.op, r)
  OBVIOUS
<1>0. \A l, q : Step(l, q).result = q
  BY DEF Step
<1>1. CASE a.op \in FdOps /\ ~IsOpen(k, c, a.fd)
  <2>1. r = Fails("EBADF")
    BY <1>0, <1>1 DEF Syscall
  <2> HIDE DEF r
  <2> QED BY <1>0, <2>1, PlainFits
<1>2. CASE a.op = "OPEN"
  <2>1. r = Open(k, c, a.path, a.n = 1).result
    BY <1>2 DEF Syscall, FdOps
  <2>2. \A l, of : \E n : Opened(l, c, of).result = Returns(n)
    BY <1>0 DEF Opened
  <2>3. \A path, creat :
          \/ \E e : Open(k, c, path, creat).result = Fails(e)
          \/ \E l, of : Open(k, c, path, creat) = Opened(l, c, of)
    <3> SUFFICES ASSUME NEW path, NEW creat
                 PROVE  \/ \E e : Open(k, c, path, creat).result = Fails(e)
                        \/ \E l, of : Open(k, c, path, creat) = Opened(l, c, of)
      OBVIOUS
    <3>1. CASE FreeFds(k, c) = {}
      BY <1>0, <3>1 DEF Open
    <3>2. CASE FreeFds(k, c) # {} /\ path \in Dirs /\ path \notin Files
      BY <3>2 DEF Open
    <3>3. CASE FreeFds(k, c) # {} /\ path \in Files /\ path \notin Dirs
      BY <1>0, <3>3 DEF Open
    <3>4. CASE FreeFds(k, c) # {} /\ path \notin Dirs /\ path \notin Files
      BY <1>0, <3>4 DEF Open
    <3>5. Dirs \cap Files = {}
      BY RemoteAssumption
    <3> QED BY <3>1, <3>2, <3>3, <3>4, <3>5
  <2>4. (\E e : r = Fails(e)) \/ \E n : r = Returns(n)
    <3> HIDE DEF r
    <3> QED BY <2>1, <2>2, <2>3
  <2> HIDE DEF r
  <2> QED BY <1>2, <2>4, PlainFits
<1>3. CASE a.op = "CLOSE" /\ IsOpen(k, c, a.fd)
  <2>1. r = Returns(0)
    BY <1>0, <1>3 DEF Syscall, Close
  <2> HIDE DEF r
  <2> QED BY <1>3, <2>1, PlainFits
<1>4. CASE a.op = "READ" /\ IsOpen(k, c, a.fd)
  <2>1. s = Read(k, c, a.fd, a.n)
    BY <1>4 DEF Syscall
  <2>2. (\E e : r = Fails(e)) \/ \E d : r = [Returns(Len(d)) EXCEPT !.data = d]
    <3> DEFINE d == Window(k.inodes[k.fds[c][a.fd].of], k.fds[c][a.fd].pos, a.n)
    <3>1. r = IF IsDir(k, c, a.fd) THEN Fails("EISDIR") ELSE [Returns(Len(d)) EXCEPT !.data = d]
      BY <1>0, <2>1 DEF Read
    <3> HIDE DEF d, r
    <3> QED BY <3>1, Zenon
  <2>3. /\ \A e : Fits(a.op, Fails(e))
        /\ \A d : Fits(a.op, [Returns(Len(d)) EXCEPT !.data = d])
    BY <1>4, PlainFits
  <2> HIDE DEF r
  <2> QED BY <2>2, <2>3, Zenon
<1>5. CASE a.op = "WRITE" /\ IsOpen(k, c, a.fd)
  <2>1. s = Written(k, c, a.fd, a.data)
    BY <1>5 DEF Syscall
  <2>2. (\E e : r = Fails(e)) \/ \E n : r = Returns(n)
    <3> HIDE DEF s
    <3>1. CASE IsDir(k, c, a.fd)
      <4>1. s = Step(k, Fails("EBADF"))
        BY <2>1, <3>1, Zenon DEF Written
      <4> QED BY <1>0, <4>1
    <3>2. CASE ~IsDir(k, c, a.fd) /\ a.data = <<>>
      <4>1. s = Step(k, Returns(0))
        BY <2>1, <3>2, Zenon DEF Written
      <4> QED BY <1>0, <4>1
    <3>3. CASE ~IsDir(k, c, a.fd) /\ a.data # <<>>
      <4>1. \E j : s = Step(j, Returns(Len(a.data)))
        BY <2>1, <3>3, Zenon DEF Written
      <4> QED BY <1>0, <4>1
    <3> QED BY <3>1, <3>2, <3>3
  <2> HIDE DEF r
  <2> QED BY <1>5, <2>2, PlainFits
<1>6. CASE a.op = "LSEEK" /\ IsOpen(k, c, a.fd)
  <2>1. r = Returns(a.n)
    BY <1>0, <1>6 DEF Syscall, Seek
  <2> HIDE DEF r
  <2> QED BY <1>6, <2>1, PlainFits
<1>7. CASE a.op = "UNLINK"
  <2>1. s = Unlink(k, a.path)
    BY <1>7 DEF Syscall, FdOps
  <2>2. (\E e : r = Fails(e)) \/ \E n : r = Returns(n)
    BY <1>0, <2>1 DEF Unlink
  <2> HIDE DEF r
  <2> QED BY <1>7, <2>2, PlainFits
<1>8. CASE a.op = "STAT"
  <2>1. r = IF Exists(k, a.path) THEN Returns(0) ELSE Fails("ENOENT")
    BY <1>0, <1>8 DEF Syscall, FdOps
  <2> HIDE DEF r
  <2> QED BY <1>8, <2>1, PlainFits
<1>9. CASE a.op = "GETDIRENTRIES" /\ IsOpen(k, c, a.fd)
  <2>1. s = List(k, c, a.fd, a.n)
    BY <1>9 DEF Syscall
  <2>2. (\E e : r = Fails(e)) \/ \E d, p : r = [Returns(Len(d)) EXCEPT !.data = d, !.base = p]
    <3> DEFINE p == k.fds[c][a.fd].pos
               d == Window(Entries[k.fds[c][a.fd].of], p, a.n)
    <3>1. r = IF ~IsDir(k, c, a.fd) THEN Fails("ENOTDIR")
              ELSE [Returns(Len(d)) EXCEPT !.data = d, !.base = p]
      <4> HIDE DEF s
      <4>1. CASE ~IsDir(k, c, a.fd)
        <5>1. s = Step(k, Fails("ENOTDIR"))
          BY <2>1, <4>1, Zenon DEF List
        <5> QED BY <1>0, <4>1, <5>1
      <4>2. CASE IsDir(k, c, a.fd)
        <5>1. \E j : s = Step(j, [Returns(Len(d)) EXCEPT !.data = d, !.base = p])
          BY <2>1, <4>2, Zenon DEF List
        <5> HIDE DEF d, p
        <5> QED BY <1>0, <4>2, <5>1
      <4> QED BY <4>1, <4>2
    <3> HIDE DEF d, p, r
    <3> QED BY <3>1, Zenon
  <2> HIDE DEF r
  <2> DEFINE names(d, p) == [Returns(Len(d)) EXCEPT !.data = d, !.base = p]
  <2>3. /\ \A e : Fits(a.op, Fails(e))
        /\ \A d, p : Fits(a.op, names(d, p))
    BY <1>9, PlainFits
  <2>4. (\E e : r = Fails(e)) \/ \E d, p : r = names(d, p)
    BY <2>2
  <2> HIDE DEF names
  <2> QED BY <2>3, <2>4
<1>10. CASE a.op = "GETDIRTREE"
  <2>1. r = IF a.path \in Dirs THEN [Returns(0) EXCEPT !.tree = Tree[a.path]]
            ELSE Fails("ENOENT")
    BY <1>0, <1>10 DEF Syscall, FdOps
  <2> HIDE DEF r
  <2> QED BY <1>10, <2>1, PlainFits
<1> HIDE DEF r
<1> QED BY <1>1, <1>2, <1>3, <1>4, <1>5, <1>6, <1>7, <1>8, <1>9, <1>10
        DEF Ops, PathOps, FdOps

LEMMA Middle ==
    ASSUME NEW p \in Seq(Unit), NEW t \in Seq(Unit), NEW q \in Seq(Unit), Len(p) = 2
    PROVE  /\ SubSeq((p \o t) \o q, 3, 2 + Len(t)) = t
           /\ ((p \o t) \o q)[1] = p[1] /\ ((p \o t) \o q)[2] = p[2]
           /\ Len(q) = 1 => ((p \o t) \o q)[Len((p \o t) \o q)] = q[1]
<1> DEFINE l == Len(t)
           f == p \o t
           s == f \o q
           m == SubSeq(s, 3, 2 + l)
<1>1. /\ l \in Nat /\ f \in Seq(Unit) /\ Len(f) = 2 + l
      /\ \A i \in 1..2 : f[i] = p[i]
      /\ \A i \in 1..l : f[2 + i] = t[i]
  <2>1. /\ f \in Seq(Unit) /\ Len(f) = Len(p) + Len(t) /\ Len(t) \in Nat
        /\ \A i \in 1..Len(p) : f[i] = p[i]
        /\ \A i \in 1..Len(t) : f[Len(p) + i] = t[i]
    BY Joined
  <2> HIDE DEF f
  <2> QED BY <2>1
<1> HIDE DEF f
<1>2. /\ s \in Seq(Unit) /\ Len(s) = (2 + l) + Len(q) /\ Len(q) \in Nat
      /\ \A i \in 1..2 + l : s[i] = f[i]
      /\ \A i \in 1..Len(q) : s[(2 + l) + i] = q[i]
  <2>1. /\ s \in Seq(Unit) /\ Len(s) = Len(f) + Len(q) /\ Len(q) \in Nat
        /\ \A i \in 1..Len(f) : s[i] = f[i]
        /\ \A i \in 1..Len(q) : s[Len(f) + i] = q[i]
    <3>1. f \in Seq(Unit)
      BY <1>1
    <3> QED BY <3>1, Joined
  <2> HIDE DEF s, l
  <2> QED BY <1>1, <2>1
<1> HIDE DEF s
<1>3. \A i \in 1..l : s[i + 2] = t[i] /\ i + 2 \in 1..Len(s)
  <2> SUFFICES ASSUME NEW i \in 1..l PROVE s[i + 2] = t[i] /\ i + 2 \in 1..Len(s)
    OBVIOUS
  <2> HIDE DEF l
  <2>1. i + 2 \in 1..2 + l /\ i + 2 = 2 + i /\ i + 2 \in 1..Len(s)
    BY <1>1, <1>2
  <2> QED BY <1>1, <1>2, <2>1
<1>4. m \in Seq(Unit) /\ Len(m) = l /\ \A i \in 1..l : m[i] = s[i + 2]
  <2> HIDE DEF l
  <2>1. \A i \in 3..2 + l : i \in 1..Len(s)
    BY <1>1, <1>2
  <2>2. \A i \in 3..2 + l : s[i] \in Unit
    BY <1>2, <2>1, ElementOfSeq
  <2>3. 3 \in Int /\ 2 + l \in Int
    BY <1>1
  <2>4. /\ m \in Seq(Unit) /\ Len(m) = IF 3 <= 2 + l THEN (2 + l) - 3 + 1 ELSE 0
        /\ \A i \in 1..(2 + l) - 3 + 1 : m[i] = s[3 + i - 1]
    BY <2>2, <2>3, SubSeqProperties
  <2> HIDE DEF m
  <2>5. Len(m) = l /\ (2 + l) - 3 + 1 = l /\ \A i \in 1..l : 3 + i - 1 = i + 2
    BY <1>1, <2>4
  <2> QED BY <2>4, <2>5
<1> HIDE DEF m, l
<1>5. m = t
  <2>1. \A i \in 1..l : m[i] = t[i]
    BY <1>3, <1>4
  <2> QED BY <1>4, <2>1, SeqEqual DEF l
<1>6. s[1] = p[1] /\ s[2] = p[2]
  <2>1. 1 \in 1..2 /\ 2 \in 1..2 /\ 1 \in 1..2 + l /\ 2 \in 1..2 + l
    BY <1>1
  <2> QED BY <1>1, <1>2, <2>1
<1>7. Len(q) = 1 => s[Len(s)] = q[1]
  <2> SUFFICES ASSUME Len(q) = 1 PROVE s[Len(s)] = q[1]
    OBVIOUS
  <2>1. 1 \in 1..Len(q)
    OBVIOUS
  <2> QED BY <1>2, <2>1
<1> QED BY <1>5, <1>6, <1>7 DEF m, s, f, l

LEMMA ValuesOfBytes ==
    ASSUME NEW d \in Seq(Data)
    PROVE  Values(Bytes(d)) = d
<1>1. Bytes(d) = [i \in 1..Len(d) |-> <<"byte", d[i]>>]
  BY DEF Bytes
<1>2. Values(Bytes(d)) = [i \in 1..Len(d) |-> d[i]]
  BY <1>1 DEF Values
<1> QED BY <1>2

\* What the library returns to the program is what the call gave the handler,
\* the descriptor of open moved up by OFFSET.
LEMMA DecodedReply ==
    ASSUME RoundTrip, NEW op \in Ops, NEW r \in Results, Fits(op, r),
           op \in {"READ", "GETDIRENTRIES"} =>
             r.ret = Len(r.data) \/ (r.ret = -1 /\ r.data = <<>>),
           op = "GETDIRTREE" => r.ret # -1 /\ r.tree \in {Tree[d] : d \in Dirs}
    PROVE  Decoded(op, Reply(op, r)) = SeenResult(op, r)
<1> DEFINE ret == <<"ret", r.ret>>
           err == <<"errno", r.errno>>
           base == <<"base", r.base>>
           front == <<ret, err>>
           got == Reply(op, r)
<1>0. /\ r = [ret |-> r.ret, errno |-> r.errno, data |-> r.data, base |-> r.base, tree |-> r.tree]
      /\ r.ret \in Int /\ r.data \in Seq(Data) /\ Len(r.data) \in Nat
  BY LenProperties DEF Results
<1>1. ret \in Unit /\ err \in Unit /\ base \in Unit
  BY DEF Unit, Results
<1>2. /\ front \in Seq(Unit) /\ Len(front) = 2 /\ front[1] = ret /\ front[2] = err
      /\ <<base>> \in Seq(Unit) /\ Len(<<base>>) = 1 /\ <<base>>[1] = base /\ <<>> \in Seq(Unit)
  BY <1>1
<1>3. op # "OPEN" => SeenResult(op, r) = r
  BY ResultsSeen
<1>4. CASE op = "GETDIRTREE"
  <2> DEFINE nodes == serialize_dirtree[r.tree]
             size  == <<"size", Len(nodes)>>
  <2>1. nodes \in Seq({"node"} \X [name : STRING, subdirs : Nat])
    BY <1>4, TreesAssumption
  <2>2. deserialize_tree(nodes) = r.tree
    BY <1>4 DEF RoundTrip
  <2> HIDE DEF nodes
  <2>3. nodes \in Seq(Unit)
    <3>1. {"node"} \X [name : STRING, subdirs : Nat] \subseteq Unit
      BY DEF Unit
    <3> QED BY <2>1, <3>1, SeqMonotonic
  <2>4. Len(nodes) \in Nat
    BY <2>3, LenProperties
  <2>5. size \in Unit
    BY <2>4 DEF Unit
  <2> DEFINE top == <<err, size>>
  <2>6. top \in Seq(Unit) /\ Len(top) = 2 /\ top[1] = err
    BY <1>1, <2>5
  <2>7. got = top \o nodes
    BY <1>4 DEF Reply, nodes
  <2> HIDE DEF top, got
  <2>8. /\ got \in Seq(Unit) /\ Len(got) = 2 + Len(nodes) /\ got \o <<>> = got
        /\ SubSeq((top \o nodes) \o <<>>, 3, 2 + Len(nodes)) = nodes
        /\ ((top \o nodes) \o <<>>)[1] = err
    <3>1. top \o nodes \in Seq(Unit) /\ Len(top \o nodes) = 2 + Len(nodes)
      <4>1. top \o nodes \in Seq(Unit) /\ Len(top \o nodes) = Len(top) + Len(nodes)
        BY <2>3, <2>6, Joined
      <4> QED BY <2>6, <4>1
    <3>2. (top \o nodes) \o <<>> = top \o nodes
      BY <3>1, Joined
    <3> QED BY <1>2, <2>3, <2>6, <2>7, <3>1, <3>2, Middle
  <2>9. SubSeq(got, 3, Len(got)) = nodes /\ got[1] = err
    BY <2>7, <2>8
  <2>10. Decoded(op, got) = [NoResult EXCEPT !.errno = r.errno, !.tree = r.tree]
    <3>1. Decoded(op, got) = [NoResult EXCEPT !.errno = got[1][2],
                                !.tree = deserialize_tree(SubSeq(got, 3, Len(got)))]
      BY <1>4 DEF Decoded
    <3>2. got[1][2] = r.errno
      BY <2>9
    <3> QED BY <2>2, <2>9, <3>1, <3>2, Zenon
  <2>11. r.ret = 0 /\ r.data = <<>> /\ r.base = 0
    BY <1>4 DEF Fits
  <2>12. [NoResult EXCEPT !.errno = r.errno, !.tree = r.tree]
           = [ret |-> 0, errno |-> r.errno, data |-> <<>>, base |-> 0, tree |-> r.tree]
    <3> DEFINE e == r.errno
               t == r.tree
    <3>1. NoResult = [ret |-> 0, errno |-> Nobody, data |-> <<>>, base |-> 0, tree |-> NoTree]
      BY DEF NoResult, Outcome
    <3> HIDE DEF NoResult, e, t
    <3>2. [NoResult EXCEPT !.errno = e, !.tree = t]
            = [ret |-> 0, errno |-> e, data |-> <<>>, base |-> 0, tree |-> t]
      <4> DEFINE x(u) == [ret |-> 0, errno |-> u, data |-> <<>>, base |-> 0, tree |-> NoTree]
      <4>1. NoResult = x(Nobody)
        BY <3>1
      <4>2. [x(Nobody) EXCEPT !.errno = e] = x(e)
        OBVIOUS
      <4>3. [x(e) EXCEPT !.tree = t] = [ret |-> 0, errno |-> e, data |-> <<>>, base |-> 0, tree |-> t]
        OBVIOUS
      <4> HIDE DEF x
      <4>4. [NoResult EXCEPT !.errno = e, !.tree = t] = [[x(Nobody) EXCEPT !.errno = e] EXCEPT !.tree = t]
        BY <4>1
      <4> QED BY <4>2, <4>3, <4>4
    <3> QED BY <3>2 DEF e, t
  <2>13. Decoded(op, got) = r
    BY <1>0, <2>10, <2>11, <2>12
  <2> QED BY <1>3, <1>4, <2>13 DEF got
<1>5. CASE op \in {"READ", "GETDIRENTRIES"}
  <2> DEFINE bytes == Bytes(r.data)
             l == Len(r.data)
  <2>1. bytes \in Seq(Unit) /\ Len(bytes) = l /\ Values(bytes) = r.data
    BY <1>0, ByteUnits, ValuesOfBytes
  <2>2. Max({r.ret, 0}) = l
    <3>1. Max({r.ret, 0}) = IF r.ret <= 0 THEN 0 ELSE r.ret
      <4>1. 0 \in Int
        OBVIOUS
      <4> QED BY <1>0, <4>1, OfTwo, Zenon
    <3>2. r.data = <<>> => l = 0
      OBVIOUS
    <3> HIDE DEF l
    <3>3. r.ret = l \/ (r.ret = -1 /\ l = 0)
      BY <1>5, <3>2 DEF l
    <3> QED BY <1>0, <3>1, <3>3 DEF l
  <2> HIDE DEF bytes, l, front, got
  <2>3. CASE op = "READ"
    <3>1. got = (front \o bytes) \o <<>>
      <4>1. got = front \o bytes
        BY <2>3 DEF Reply, bytes, front, got
      <4>2. (front \o bytes) \in Seq(Unit)
        BY <1>2, <2>1, Joined
      <4> QED BY <1>2, <4>1, <4>2, Joined
    <3>2. SubSeq(got, 3, 2 + l) = bytes /\ got[1] = ret /\ got[2] = err
      <4> DEFINE q == <<>>
                 s == (front \o bytes) \o q
      <4>1. got = s
        BY <3>1
      <4>2. front \in Seq(Unit) /\ Len(front) = 2 /\ bytes \in Seq(Unit) /\ q \in Seq(Unit)
        BY <1>2, <2>1
      <4> HIDE DEF q
      <4>3. SubSeq(s, 3, 2 + Len(bytes)) = bytes /\ s[1] = front[1] /\ s[2] = front[2]
        BY <4>2, Middle
      <4> HIDE DEF s
      <4> QED BY <1>2, <2>1, <4>1, <4>3
    <3>3. DataLength(op, got) = l
      <4>1. DataLength(op, got) = Max({got[1][2], 0})
        BY <2>3 DEF DataLength
      <4> QED BY <2>2, <3>2, <4>1
    <3>4. Decoded(op, got) = Outcome(r.ret, r.errno, r.data, 0, NoTree)
      <4>1. Decoded(op, got) = Outcome(got[1][2], got[2][2],
                                 Values(SubSeq(got, 3, 2 + DataLength(op, got))), 0, NoTree)
        BY <2>3 DEF Decoded
      <4>2. got[1][2] = r.ret /\ got[2][2] = r.errno
        BY <3>2
      <4> QED BY <2>1, <3>2, <3>3, <4>1, <4>2, Zenon
    <3>5. r.base = 0 /\ r.tree = NoTree
      BY <2>3 DEF Fits
    <3>6. Decoded(op, got) = r
      BY <1>0, <3>4, <3>5 DEF Outcome
    <3> QED BY <1>3, <2>3, <3>6 DEF got
  <2>4. CASE op = "GETDIRENTRIES"
    <3>1. got = (front \o bytes) \o <<base>>
      BY <2>4 DEF Reply, bytes, front, got
    <3> HIDE DEF base
    <3>2. /\ SubSeq(got, 3, 2 + l) = bytes /\ got[1] = ret /\ got[2] = err
          /\ got[Len(got)] = base
      <4> DEFINE q == <<base>>
                 s == (front \o bytes) \o q
      <4>1. got = s
        BY <3>1
      <4>2. /\ front \in Seq(Unit) /\ Len(front) = 2 /\ bytes \in Seq(Unit)
            /\ q \in Seq(Unit) /\ Len(q) = 1
        BY <1>2, <2>1
      <4>3. q[1] = base
        BY <1>2
      <4> HIDE DEF q
      <4>4. /\ SubSeq(s, 3, 2 + Len(bytes)) = bytes /\ s[1] = front[1] /\ s[2] = front[2]
            /\ s[Len(s)] = q[1]
        BY <4>2, Middle
      <4> HIDE DEF s
      <4> QED BY <1>2, <2>1, <4>1, <4>3, <4>4
    <3>3. DataLength(op, got) = l
      <4>1. DataLength(op, got) = Max({got[1][2], 0})
        BY <2>4 DEF DataLength
      <4> QED BY <2>2, <3>2, <4>1
    <3>4. Decoded(op, got) = Outcome(r.ret, r.errno, r.data, r.base, NoTree)
      <4>1. Decoded(op, got) = Outcome(got[1][2], got[2][2],
              Values(SubSeq(got, 3, 2 + DataLength(op, got))), got[Len(got)][2], NoTree)
        BY <2>4 DEF Decoded
      <4>2. got[1][2] = r.ret /\ got[2][2] = r.errno /\ got[Len(got)][2] = r.base
        BY <3>2 DEF base
      <4> QED BY <2>1, <3>2, <3>3, <4>1, <4>2, Zenon
    <3>5. r.tree = NoTree
      BY <2>4 DEF Fits
    <3>6. Decoded(op, got) = r
      BY <1>0, <3>4, <3>5 DEF Outcome
    <3> QED BY <1>3, <2>4, <3>6 DEF got
  <2> QED BY <1>5, <2>3, <2>4
<1>6. CASE op \notin {"GETDIRTREE", "READ", "GETDIRENTRIES"}
  <2>1. got = front
    BY <1>6 DEF Reply
  <2>2. r.data = <<>> /\ r.base = 0 /\ r.tree = NoTree
    BY <1>6 DEF Fits
  <2>3. CASE op = "OPEN"
    <3>1. Decoded(op, got) = Outcome(IF r.ret < 0 THEN r.ret ELSE r.ret + OFFSET,
                                     r.errno, <<>>, 0, NoTree)
      BY <1>2, <2>1, <2>3 DEF Decoded
    <3>2. SeenResult(op, r) = IF r.ret >= 0 THEN [r EXCEPT !.ret = r.ret + OFFSET] ELSE r
      BY <2>3 DEF SeenResult
    <3>3. [r EXCEPT !.ret = r.ret + OFFSET]
            = [ret |-> r.ret + OFFSET, errno |-> r.errno, data |-> r.data, base |-> r.base,
               tree |-> r.tree]
      BY <1>0
    <3> HIDE DEF got
    <3> QED BY <1>0, <2>2, <3>1, <3>2, <3>3 DEF Outcome, got
  <2>4. CASE op # "OPEN"
    <3>1. Decoded(op, got) = Outcome(r.ret, r.errno, <<>>, 0, NoTree)
      BY <1>2, <1>6, <2>1, <2>4 DEF Decoded
    <3> HIDE DEF got
    <3>2. Decoded(op, got) = r
      BY <1>0, <2>2, <3>1 DEF Outcome
    <3> QED BY <1>3, <2>4, <3>2 DEF got
  <2> QED BY <2>3, <2>4
<1> QED BY <1>4, <1>5, <1>6

-----------------------------------------------------------------------------
(* The variables of LocalFiles                                             *)

SeenCall   == [c \in Clients |-> client[c].call]
SeenKilled == {c \in Clients : client[c].pc = "gone"}

\* state[c] and answer[c].
Stage(c) ==
  CASE child[c].pc \in {"ended", "dead"}                         -> "over"
    [] child[c].pc \notin {"ended", "dead"} /\ client[c].pc # "gone" ->
         IF client[c].pc = "idle" THEN "idle" ELSE IF Replied(c) THEN "done" ELSE "asked"
    [] OTHER -> IF Pending(c) THEN "asked"
                ELSE IF client[c].call = NoCall THEN "idle" ELSE "done"
Got(c) ==
  IF Replied(c) THEN Decoded(client[c].call.op, client[c].got \o toClient[c]) ELSE NoResult

LEMMA SeenKernel == asSeen = Seen(kernel) /\ asSeen' = Seen(kernel')
<1>1. asSeen = Seen(kernel)
  BY DEF asSeen, Seen, SeenEnds, SeenFds
<1>2. asSeen' = Seen(kernel')
  BY DEF asSeen, Seen, SeenEnds, SeenFds
<1> QED BY <1>1, <1>2

LEMMA Stages ==
    ASSUME NEW c \in Clients
    PROVE  /\ state[c] = Stage(c) /\ answer[c] = Got(c)
           /\ child[c].pc \in {"ended", "dead"} => Stage(c) = "over"
           /\ child[c].pc \notin {"ended", "dead"} /\ client[c].pc # "gone" =>
                Stage(c) = IF client[c].pc = "idle" THEN "idle"
                           ELSE IF Replied(c) THEN "done" ELSE "asked"
           /\ child[c].pc \notin {"ended", "dead"} /\ client[c].pc = "gone" =>
                Stage(c) = IF Pending(c) THEN "asked"
                           ELSE IF client[c].call = NoCall THEN "idle" ELSE "done"
<1>1. state[c] = Stage(c) /\ answer[c] = Got(c)
  BY DEF state, answer, Stage, Got
<1> QED BY <1>1 DEF Stage

LEMMA NextStages ==
    ASSUME NEW c \in Clients
    PROVE  /\ child'[c].pc \in {"ended", "dead"} => Stage(c)' = "over"
           /\ child'[c].pc \notin {"ended", "dead"} /\ client'[c].pc # "gone" =>
                Stage(c)' = IF client'[c].pc = "idle" THEN "idle"
                            ELSE IF Replied(c)' THEN "done" ELSE "asked"
           /\ child'[c].pc \notin {"ended", "dead"} /\ client'[c].pc = "gone" =>
                Stage(c)' = IF Pending(c)' THEN "asked"
                            ELSE IF client'[c].call = NoCall THEN "idle" ELSE "done"
  BY DEF Stage

\* A step of one program and its child changes what is seen of it alone.
LEMMA OneSeen ==
    ASSUME NEW c \in Clients,
           \A d \in Clients \ {c} :
             /\ client'[d] = client[d] /\ child'[d] = child[d]
             /\ toServer'[d] = toServer[d] /\ toClient'[d] = toClient[d]
    PROVE  /\ state' = [state EXCEPT ![c] = Stage(c)']
           /\ answer' = [answer EXCEPT ![c] = Got(c)']
           /\ SeenCall' = [SeenCall EXCEPT ![c] = client'[c].call]
           /\ client'[c].pc = "gone" => SeenKilled' = SeenKilled \cup {c}
           /\ (client'[c].pc = "gone" <=> client[c].pc = "gone") => SeenKilled' = SeenKilled
           /\ Got(c)' = Got(c) => answer' = answer
<1>1. \A d \in Clients \ {c} : Stage(d)' = Stage(d) /\ Got(d)' = Got(d)
  BY DEF Stage, Got, Replied, Pending
<1>2. state = [d \in Clients |-> Stage(d)] /\ answer = [d \in Clients |-> Got(d)]
  BY DEF state, answer, Stage, Got
<1>3. state' = [d \in Clients |-> Stage(d)'] /\ answer' = [d \in Clients |-> Got(d)']
  BY DEF state, answer, Stage, Got
<1>4. SeenCall' = [SeenCall EXCEPT ![c] = client'[c].call]
  BY DEF SeenCall
<1>5. /\ client'[c].pc = "gone" => SeenKilled' = SeenKilled \cup {c}
      /\ (client'[c].pc = "gone" <=> client[c].pc = "gone") => SeenKilled' = SeenKilled
  BY DEF SeenKilled
<1>6. Got(c)' = Got(c) => answer' = answer
  BY <1>1, <1>2, <1>3
<1>7. state' = [state EXCEPT ![c] = Stage(c)'] /\ answer' = [answer EXCEPT ![c] = Got(c)']
  BY <1>1, <1>2, <1>3
<1> QED BY <1>4, <1>5, <1>6, <1>7

LEMMA Unseen ==
    ASSUME NEW c \in Clients,
           \A d \in Clients \ {c} :
             /\ client'[d] = client[d] /\ child'[d] = child[d]
             /\ toServer'[d] = toServer[d] /\ toClient'[d] = toClient[d],
           Stage(c)' = Stage(c), Got(c)' = Got(c), client'[c].call = client[c].call,
           client'[c].pc = client[c].pc, kernel' = kernel, returned' = returned
    PROVE  UNCHANGED Local!vars
<1>1. state[c] = Stage(c) /\ answer[c] = Got(c)
  BY Stages
<1>2. state' = state /\ answer' = answer
  <2>1. DOMAIN state = Clients /\ DOMAIN answer = Clients
    BY DEF state, answer
  <2>2. state = [d \in Clients |-> state[d]] /\ answer = [d \in Clients |-> answer[d]]
    BY DEF state, answer
  <2>3. state' = [state EXCEPT ![c] = state[c]] /\ answer' = [answer EXCEPT ![c] = answer[c]]
    BY <1>1, OneSeen
  <2> HIDE DEF state, answer
  <2> QED BY <2>1, <2>2, <2>3
<1>3. SeenCall' = SeenCall /\ SeenKilled' = SeenKilled
  BY OneSeen DEF SeenCall, SeenKilled
<1>4. asSeen' = asSeen
  BY SeenKernel
<1> QED BY <1>2, <1>3, <1>4 DEF Local!vars, SeenCall, SeenKilled

LEMMA CallSeen ==
    ASSUME IInv, NEW c \in Clients, Call(c) PROVE Local!Ask(c)
<1>1. /\ client[c].pc = "idle" /\ toClient[c] = <<>> /\ child[c].pc \in {"none", "header"}
      /\ DOMAIN client = Clients
  BY Facts DEF Call, Channel, IInv, TypeInv
<1>2. PICK a \in Calls[c] :
        client' = [client EXCEPT
             ![c] = [pc   |-> IF IsLocal(a) THEN "local" ELSE "waiting",
                     call |-> a, got |-> <<>>, made |-> client[c].made + 1]]
  BY DEF Call
<1>3. /\ client'[c].pc \in {"local", "waiting"} /\ client'[c].call = a /\ client'[c].got = <<>>
      /\ toClient' = toClient /\ child' = child /\ kernel' = kernel
      /\ returned' = [returned EXCEPT ![c] = NoResult]
  BY <1>1, <1>2 DEF Call
<1>4. \A d \in Clients \ {c} :
         /\ client'[d] = client[d] /\ child'[d] = child[d]
         /\ toServer'[d] = toServer[d] /\ toClient'[d] = toClient[d]
  BY <1>2 DEF Call, IInv, TypeInv
<1>5. state[c] = "idle" /\ Got(c) = NoResult
  BY <1>1, Stages DEF Got, Replied
<1>6. Stage(c)' = "asked" /\ Got(c)' = NoResult
  <2>1. client'[c].got \o toClient'[c] = <<>>
    BY <1>1, <1>3
  <2>2. ~Replied(c)'
    BY <2>1 DEF Replied
  <2> QED BY <1>1, <1>3, <2>2, NextStages DEF Got
<1>7. /\ state' = [state EXCEPT ![c] = Stage(c)'] /\ answer' = answer
      /\ SeenCall' = [SeenCall EXCEPT ![c] = a] /\ SeenKilled' = SeenKilled
  BY <1>1, <1>3, <1>4, <1>5, <1>6, OneSeen
<1>8. asSeen' = asSeen
  BY <1>3, SeenKernel
<1>9. c \notin SeenKilled
  BY <1>1 DEF SeenKilled
<1> QED BY <1>3, <1>5, <1>6, <1>7, <1>8, <1>9, SameNames DEF Local!Ask, SeenCall, SeenKilled

LEMMA SameCall ==
    ASSUME NEW c \in Clients,
           \A d \in Clients \ {c} :
             /\ client'[d] = client[d] /\ child'[d] = child[d]
             /\ toServer'[d] = toServer[d] /\ toClient'[d] = toClient[d],
           client'[c].call = client[c].call
    PROVE  SeenCall' = SeenCall /\ SeenCall[c] = client[c].call
<1>1. SeenCall' = [SeenCall EXCEPT ![c] = client'[c].call]
  BY OneSeen
<1>2. SeenCall[c] = client[c].call /\ SeenCall = [d \in Clients |-> SeenCall[d]]
  BY DEF SeenCall
<1> HIDE DEF SeenCall
<1> QED BY <1>1, <1>2

\* A call takes effect.
LEMMA DoSeen ==
    ASSUME NEW c \in Clients,
           \A d \in Clients \ {c} :
             /\ client'[d] = client[d] /\ child'[d] = child[d]
             /\ toServer'[d] = toServer[d] /\ toClient'[d] = toClient[d],
           Stage(c) = "asked", Stage(c)' = "done", client[c].pc # "gone", client'[c].pc # "gone",
           client'[c].call = client[c].call, returned' = returned,
           Local!Syscall(Seen(kernel), c, client[c].call) = Step(Seen(kernel'), Got(c)')
    PROVE  Local!Do(c)
<1>1. /\ state' = [state EXCEPT ![c] = "done"] /\ answer' = [answer EXCEPT ![c] = Got(c)']
      /\ SeenKilled' = SeenKilled
  BY OneSeen
<1>2. SeenCall' = SeenCall /\ SeenCall[c] = client[c].call
  BY SameCall
<1>3. state[c] = "asked" /\ c \notin SeenKilled
  BY Stages DEF SeenKilled
<1>4. /\ Local!Syscall(asSeen, c, SeenCall[c]).kernel = asSeen'
      /\ Local!Syscall(asSeen, c, SeenCall[c]).result = Got(c)'
  <2>1. Local!Syscall(asSeen, c, SeenCall[c]) = Step(asSeen', Got(c)')
    BY <1>2, SeenKernel
  <2> QED BY <2>1 DEF Step
<1> QED BY <1>1, <1>2, <1>3, <1>4 DEF Local!Do, SeenCall, SeenKilled

LEMMA CallLocalSeen ==
    ASSUME IInv, SeeksStayLow, RoundTrip, NEW c \in Clients, CallLocal(c)
    PROVE  Local!Do(c)
<1> DEFINE a == client[c].call
           r == Reply(a.op, Fails("EBADF"))
<1>1. /\ ClientOK(c, client[c]) /\ client[c].pc = "local"
      /\ a \in Calls[c] /\ IsLocal(a) /\ a \in Requests
      /\ toClient[c] = <<>> /\ child[c].pc \in {"none", "header"}
  BY Facts DEF CallLocal, ClientOK, Channel
<1>2. a.op \in FdOps /\ a.op \in Ops /\ a.fd \in Int /\ a.fd < OFFSET
  BY <1>1, CallForms DEF IsLocal, SeeksStayLow, Ops, FdOps, Typed
<1>3. Fails("EBADF") \in Results /\ Fails("EBADF").ret = -1 /\ Fails("EBADF").data = <<>>
  <2>1. "EBADF" \in Errors
    BY DEF Errors
  <2>2. Fails("EBADF").data = <<>>
    BY DEF Fails, NoResult, Outcome
  <2> QED BY <2>1, <2>2, Typical
<1>4. /\ r \in Seq(Unit) /\ Len(r) >= 2
      /\ Decoded(a.op, r) = Fails("EBADF")
  <2>1. a.op # "GETDIRTREE" /\ a.op # "OPEN" /\ Fits(a.op, Fails("EBADF"))
    BY <1>2, PlainFits DEF FdOps
  <2>2. r \in Seq(Unit) /\ Complete(a.op, r)
    BY <1>2, <1>3, <2>1, ReplyComplete
  <2>3. Decoded(a.op, r) = SeenResult(a.op, Fails("EBADF"))
    BY <1>2, <1>3, <2>1, DecodedReply
  <2> QED BY <2>1, <2>2, <2>3, ResultsSeen DEF Complete
<1>5. /\ client' = [client EXCEPT ![c] = [client[c] EXCEPT !.pc = "waiting", !.got = r]]
      /\ toClient' = toClient /\ toServer' = toServer /\ child' = child
      /\ kernel' = kernel /\ returned' = returned
  BY DEF CallLocal
<1> HIDE DEF r
<1>6. client'[c].pc = "waiting" /\ client'[c].got = r /\ client'[c].call = a
  <2>1. client'[c] = [client[c] EXCEPT !.pc = "waiting", !.got = r]
    BY <1>5 DEF IInv, TypeInv
  <2> QED BY <1>1, <2>1 DEF ClientOK
<1>7. \A d \in Clients \ {c} : client'[d] = client[d]
  BY <1>5 DEF IInv, TypeInv
<1>8. Stage(c) = "asked"
  <2>1. ~Replied(c)
    BY <1>1 DEF Replied
  <2> QED BY <1>1, <2>1, Stages
<1>9. Stage(c)' = "done" /\ Got(c)' = Fails("EBADF")
  <2>1. client'[c].got \o toClient'[c] = r
    BY <1>1, <1>4, <1>5, <1>6, Joined
  <2>2. Replied(c)'
    BY <1>4, <1>6, <2>1 DEF Replied
  <2> QED BY <1>1, <1>4, <1>5, <1>6, <2>1, <2>2, NextStages DEF Got
<1>10. Local!Syscall(Seen(kernel), c, a) = Step(Seen(kernel'), Fails("EBADF"))
  <2>1. a.fd \notin SeenFds
    BY <1>2, RemoteAssumption DEF SeenFds
  <2>2. ~Local!IsOpen(Seen(kernel), c, a.fd)
    BY <2>1 DEF Local!IsOpen, SeenFds
  <2> QED BY <1>2, <1>5, <2>2, SameNames DEF Local!Syscall
<1> QED BY <1>1, <1>5, <1>6, <1>7, <1>8, <1>9, <1>10, DoSeen

LEMMA AcceptSeen ==
    ASSUME IInv, NEW c \in Clients, Accept(c) PROVE UNCHANGED Local!vars
<1>1. /\ child' = [child EXCEPT ![c] = [child[c] EXCEPT !.pc = "header"]]
      /\ client' = client /\ toServer' = toServer /\ toClient' = toClient
      /\ kernel' = kernel /\ returned' = returned /\ child[c].pc = "none"
  BY DEF Accept
<1>2. child'[c].pc = "header" /\ \A d \in Clients \ {c} : child'[d] = child[d]
  <2>1. child'[c] = [child[c] EXCEPT !.pc = "header"] /\ ChildOK(child[c])
    BY <1>1, Facts DEF IInv, TypeInv
  <2> QED BY <1>1, <2>1 DEF ChildOK, IInv, TypeInv
<1>3. Stage(c)' = Stage(c) /\ Got(c)' = Got(c)
  BY <1>1, <1>2 DEF Stage, Got, Replied, Pending
<1> QED BY <1>1, <1>2, <1>3, Unseen

LEMMA RecvHeaderSeen ==
    ASSUME IInv, NEW c \in Clients, RecvHeader(c) PROVE UNCHANGED Local!vars
<1>1. /\ client' = client /\ toClient' = toClient /\ kernel' = kernel /\ returned' = returned
      /\ child[c].pc = "header" /\ toServer[c] # <<>>
  BY DEF RecvHeader
<1>2. /\ child'[c].pc = "body"
      /\ \A d \in Clients \ {c} : child'[d] = child[d] /\ toServer'[d] = toServer[d]
  BY DEF RecvHeader, IInv, TypeInv
<1>3. Stage(c)' = Stage(c) /\ Got(c)' = Got(c)
  <2>1. Pending(c) /\ Pending(c)' /\ (Replied(c)' <=> Replied(c))
    BY <1>1, <1>2 DEF Pending, Replied
  <2> QED BY <1>1, <1>2, <2>1 DEF Stage, Got
<1> QED BY <1>1, <1>2, <1>3, Unseen

LEMMA RecvBodySeen ==
    ASSUME IInv, NEW c \in Clients, RecvBody(c) PROVE UNCHANGED Local!vars
<1>1. /\ client' = client /\ toClient' = toClient /\ kernel' = kernel /\ returned' = returned
      /\ child[c].pc = "body"
  BY DEF RecvBody
<1>2. PICK rv : /\ child' = [child EXCEPT ![c].buf = @ \o SubSeq(toServer[c], 1, rv)]
                /\ toServer' = [toServer EXCEPT ![c] = SubSeq(@, rv + 1, Len(@))]
  BY DEF RecvBody
<1>3. /\ child'[c].pc = "body"
      /\ \A d \in Clients \ {c} : child'[d] = child[d] /\ toServer'[d] = toServer[d]
  <2>1. ChildOK(child[c]) /\ child'[c] = [child[c] EXCEPT !.buf = @ \o SubSeq(toServer[c], 1, rv)]
    BY <1>2, Facts DEF IInv, TypeInv
  <2>2. child'[c].pc = child[c].pc
    BY <2>1 DEF ChildOK
  <2> QED BY <1>1, <1>2, <2>2 DEF IInv, TypeInv
<1>4. Stage(c)' = Stage(c) /\ Got(c)' = Got(c)
  <2>1. Pending(c) /\ Pending(c)' /\ (Replied(c)' <=> Replied(c))
    BY <1>1, <1>3 DEF Pending, Replied
  <2> QED BY <1>1, <1>3, <2>1 DEF Stage, Got
<1> QED BY <1>1, <1>3, <1>4, Unseen

LEMMA TakeSeen ==
    ASSUME IInv, NEW c \in Clients, NEW rv \in 1..Len(toClient[c]), Take(c, rv),
           client[c].pc = "waiting"
    PROVE  UNCHANGED Local!vars
<1> DEFINE got  == client[c].got
           to   == toClient[c]
           more == SubSeq(to, 1, rv)
           rest == SubSeq(to, rv + 1, Len(to))
<1>1. ClientOK(c, client[c]) /\ got \in Seq(Unit) /\ to \in Seq(Unit)
  BY Facts
<1>2. (got \o more) \o rest = got \o to
  <2>1. rv \in 0..Len(to)
    <3>1. Len(to) \in Nat
      BY <1>1, LenProperties
    <3> QED BY <3>1
  <2> HIDE DEF got, to
  <2> QED BY <1>1, <2>1, Moved, Zenon
<1>3. /\ client' = [client EXCEPT ![c] = [client[c] EXCEPT !.got = got \o more]]
      /\ toClient' = [toClient EXCEPT ![c] = rest]
      /\ toServer' = toServer /\ child' = child /\ kernel' = kernel /\ returned' = returned
  BY DEF Take
<1> HIDE DEF more, rest
<1>4. /\ client'[c].pc = "waiting" /\ client'[c].got = got \o more
      /\ client'[c].call = client[c].call /\ toClient'[c] = rest
  <2>1. client'[c] = [client[c] EXCEPT !.got = got \o more] /\ toClient'[c] = rest
    BY <1>3 DEF IInv, TypeInv
  <2> QED BY <1>1, <2>1 DEF ClientOK
<1>5. \A d \in Clients \ {c} : client'[d] = client[d] /\ toClient'[d] = toClient[d]
  BY <1>3 DEF IInv, TypeInv
<1>6. client'[c].got \o toClient'[c] = got \o to
  BY <1>2, <1>4
<1>7. Stage(c)' = Stage(c) /\ Got(c)' = Got(c)
  <2>1. Replied(c)' <=> Replied(c)
    BY <1>4, <1>6 DEF Replied
  <2>2. Pending(c)' <=> Pending(c)
    BY <1>3 DEF Pending
  <2>3. Got(c)' = Got(c)
    BY <1>4, <1>6, <2>1, Zenon DEF Got
  <2>4. Stage(c)' = Stage(c)
    <3>1. child'[c].pc = child[c].pc /\ client'[c].pc = client[c].pc /\ client'[c].pc # "gone"
      BY <1>3, <1>4
    <3> QED BY <1>4, <2>1, <2>2, <3>1, Stages, NextStages DEF Stage
  <2> QED BY <2>3, <2>4
<1> QED BY <1>3, <1>4, <1>5, <1>7, Unseen

LEMMA ReceivedSeen ==
    ASSUME IInv, NEW c \in Clients, RecvField(c) \/ RecvData(c) \/ RecvBasep(c)
    PROVE  UNCHANGED Local!vars
<1>1. toClient[c] \in Seq(Unit) /\ client[c].pc = "waiting"
  BY Facts DEF RecvField, RecvData, RecvBasep
<1>2. CASE RecvField(c) \/ RecvBasep(c)
  <2>1. 1 \in 1..Len(toClient[c]) /\ Take(c, 1)
    BY <1>1, <1>2 DEF RecvField, RecvBasep
  <2> QED BY <1>1, <2>1, TakeSeen
<1>3. CASE RecvData(c)
  <2>1. \E rv \in 1..Len(toClient[c]) : Take(c, rv)
    BY <1>3, DataTaken
  <2> QED BY <1>1, <2>1, TakeSeen
<1> QED BY <1>2, <1>3

\* Until the handler answers, the call has had no effect.
LEMMA BodyAsked ==
    ASSUME IInv, NEW c \in Clients, BodyOver(c)
    PROVE  Stage(c) = "asked" /\ Got(c) = NoResult /\ client[c].call \in Typed
<1>1. /\ client[c].call \in Requests /\ toClient[c] = <<>> /\ client[c].got = <<>>
      /\ client[c].pc \in {"waiting", "gone"} /\ child[c].pc = "body"
  BY BodyThere DEF BodyOver
<1>2. ~Replied(c) /\ Pending(c)
  <2>1. client[c].got \o toClient[c] = <<>>
    BY <1>1
  <2> QED BY <1>1, <2>1 DEF Replied, Pending
<1> QED BY <1>1, <1>2, Stages, CallForms DEF Got

LEMMA NotNoCall == \A a \in Requests : a # NoCall
<1>1. \A a \in Requests : a.op \in Ops
  BY CallForms DEF Typed
<1>2. NoCall.op \notin Ops
  BY DEF NoCall, Nobody, Ops, PathOps, FdOps
<1> QED BY <1>1, <1>2

LEMMA AnswerSeen ==
    ASSUME IInv, RoundTrip, NEW c \in Clients, Answer(c)
    PROVE  Local!Do(c) \/ Local!DoForKilled(c)
<1> DEFINE a  == client[c].call
           b  == child[c].buf
           r  == Called(c).result
           reply == Reply(a.op, r)
<1>1. /\ BodyOver(c) /\ ~Unanswerable(a.op, r) /\ KernelOK(kernel)
      /\ client[c].pc \in {"waiting", "gone"} /\ child[c].head.op = a.op
      /\ a \in Requests /\ b \in Cuts(a) /\ (client[c].pc = "waiting" => b = Body(a))
      /\ toServer[c] = <<>> /\ toClient[c] = <<>> /\ client[c].got = <<>>
  BY Facts, BodyThere DEF Answer
<1>2. /\ a.op \in Ops /\ r \in Results
      /\ a.op \in {"READ", "GETDIRENTRIES"} /\ r.ret # -1 => r.ret = Len(r.data)
      /\ a.op = "GETDIRTREE" /\ r.ret # -1 => r.tree \in {Tree[d] : d \in Dirs}
  BY <1>1, CalledGood
<1>3. Called(c) = Syscall(kernel, c, Parsed(a.op, b)) /\ Called(c) = Step(kernel', r)
  <2>1. Called(c) = Syscall(kernel, c, Parsed(a.op, b))
    BY <1>1 DEF Called
  <2>2. Parsed(a.op, b) \in Typed
    BY <1>1, ParsedTyped
  <2>3. Good(Called(c))
    BY <1>1, <2>1, <2>2, SyscallGood
  <2>4. kernel' = Called(c).kernel
    BY DEF Answer
  <2> QED BY <2>1, <2>3, <2>4 DEF Good
<1>4. Fits(a.op, r)
  <2>1. Parsed(a.op, b).op = a.op
    BY <1>1, ParsedTyped
  <2> DEFINE q == Parsed(a.op, b)
  <2>2. q.op = a.op
    BY <2>1
  <2>3. r = Syscall(kernel, c, q).result
    BY <1>3
  <2> HIDE DEF q, r, a
  <2> QED BY <1>2, <2>2, <2>3, SyscallFits
<1> HIDE DEF r
<1>5. /\ reply \in Seq(Unit) /\ Len(reply) >= 2
      /\ Decoded(a.op, reply) = SeenResult(a.op, r)
  <2>1. a.op \in {"READ", "GETDIRENTRIES", "GETDIRTREE"} => r.ret # -1
    BY <1>1 DEF Unanswerable
  <2>2. reply \in Seq(Unit) /\ Complete(a.op, reply)
    BY <1>2, <2>1, ReplyComplete
  <2>3. Decoded(a.op, reply) = SeenResult(a.op, r)
    BY <1>2, <1>4, <2>1, DecodedReply
  <2> QED BY <2>2, <2>3 DEF Complete
<1>6. /\ toClient' = [toClient EXCEPT ![c] = IF client[c].pc = "gone" THEN @ ELSE @ \o reply]
      /\ child' = [child EXCEPT ![c] = [NoChild EXCEPT !.pc = "header"]]
      /\ client' = client /\ toServer' = toServer /\ returned' = returned
  BY <1>1 DEF Answer, Handled, r
<1> HIDE DEF reply
<1>7. /\ toClient'[c] = IF client[c].pc = "gone" THEN <<>> ELSE reply
      /\ child'[c].pc = "header"
      /\ \A d \in Clients \ {c} : child'[d] = child[d] /\ toClient'[d] = toClient[d]
  <2>1. <<>> \o reply = reply
    BY <1>5
  <2>2. child'[c] = [NoChild EXCEPT !.pc = "header"]
    BY <1>6 DEF IInv, TypeInv
  <2>3. child'[c].pc = "header"
    BY <2>2 DEF NoChild
  <2> QED BY <1>1, <1>6, <2>1, <2>3 DEF IInv, TypeInv
<1>8. Stage(c) = "asked" /\ Got(c) = NoResult /\ a \in Typed
  BY <1>1, BodyAsked
<1>9. CASE client[c].pc = "waiting"
  <2>1. toClient'[c] = reply
    BY <1>7, <1>9
  <2>2. client'[c].got \o toClient'[c] = reply
    <3>1. <<>> \o reply = reply
      BY <1>5
    <3> QED BY <1>1, <1>6, <2>1, <3>1
  <2>3. Replied(c)'
    BY <1>5, <1>6, <1>9, <2>2 DEF Replied
  <2>4. Stage(c)' = "done" /\ Got(c)' = SeenResult(a.op, r)
    BY <1>5, <1>6, <1>7, <1>9, <2>2, <2>3, NextStages DEF Got
  <2>5. Shifted(a, Parsed(a.op, b))
    BY <1>1, <1>9, ParsedShifted
  <2>6. Local!Syscall(Seen(kernel), c, a) = SeenStep(a.op, Called(c))
    <3> DEFINE q == Parsed(a.op, b)
    <3>1. Shifted(a, q) /\ Called(c) = Syscall(kernel, c, q)
      BY <1>3, <2>5
    <3> HIDE DEF q, a
    <3> QED BY <1>1, <1>8, <3>1, SyscallSeen
  <2>7. Local!Syscall(Seen(kernel), c, a) = Step(Seen(kernel'), Got(c)')
    BY <1>3, <2>4, <2>6 DEF SeenStep, Step
  <2> QED BY <1>6, <1>7, <1>8, <1>9, <2>4, <2>7, DoSeen
<1>10. CASE client[c].pc = "gone"
  <2>1. ~Pending(c)' /\ ~Replied(c)' /\ ~Replied(c)
    BY <1>1, <1>6, <1>7, <1>10 DEF Pending, Replied
  <2>2. Stage(c)' = "done" /\ Got(c)' = Got(c)
    <3>1. a # NoCall
      BY <1>1, NotNoCall
    <3> QED BY <1>6, <1>7, <1>10, <2>1, <3>1, NextStages DEF Got
  <2>3. PICK t \in Local!Torn(a) : t \in Typed /\ t.op = a.op /\ Shifted(t, Parsed(a.op, b))
    BY <1>1, ParsedShifted
  <2>4. Local!Syscall(Seen(kernel), c, t) = SeenStep(a.op, Called(c))
    <3> DEFINE q == Parsed(a.op, b)
    <3>1. Shifted(t, q) /\ Called(c) = Syscall(kernel, c, q)
      BY <1>3, <2>3
    <3> HIDE DEF q
    <3>2. Local!Syscall(Seen(kernel), c, t) = SeenStep(t.op, Called(c))
      BY <1>1, <2>3, <3>1, SyscallSeen
    <3> QED BY <2>3, <3>2
  <2>5. Local!Syscall(asSeen, c, t).kernel = asSeen'
    BY <1>3, <2>4, SeenKernel DEF SeenStep, Step
  <2>6. SeenCall' = SeenCall /\ SeenCall[c] = a
    BY <1>6, <1>7, SameCall
  <2>7. /\ state' = [state EXCEPT ![c] = "done"] /\ answer' = answer
        /\ SeenKilled' = SeenKilled
    BY <1>6, <1>7, <2>2, OneSeen
  <2>8. state[c] = "asked" /\ c \in SeenKilled
    BY <1>8, <1>10, Stages DEF SeenKilled
  <2> QED BY <1>6, <2>3, <2>5, <2>6, <2>7, <2>8 DEF Local!DoForKilled, SeenCall, SeenKilled
<1> QED BY <1>1, <1>9, <1>10

\* A handler that cannot answer has made the call of the program as it is.
LEMMA CrashSeen ==
    ASSUME IInv, NEW c \in Clients, Crash(c) PROVE Local!Lose(c)
<1> DEFINE a == client[c].call
           b == child[c].buf
           q == Parsed(a.op, b)
<1>1. /\ BodyOver(c) /\ Unanswerable(a.op, Called(c).result) /\ KernelOK(kernel)
      /\ child[c].head.op = a.op /\ a \in Requests /\ b \in Cuts(a)
  BY Facts, BodyThere DEF Crash, BodyOver
<1>2. a.op \in {"READ", "GETDIRENTRIES", "GETDIRTREE"} /\ Called(c).result.ret = -1
  BY <1>1 DEF Unanswerable
<1>3. b = Body(a)
  BY <1>1, <1>2, CutForms, BodyShape
<1>4. Shifted(a, q) /\ Called(c) = Syscall(kernel, c, q)
  BY <1>1, <1>2, <1>3, WholeShifted DEF Called
<1>5. Stage(c) = "asked" /\ a \in Typed
  BY <1>1, BodyAsked
<1>6. /\ child' = [child EXCEPT ![c] = [NoChild EXCEPT !.pc = "dead"]]
      /\ client' = client /\ toServer' = toServer /\ toClient' = toClient
      /\ returned' = returned /\ kernel' = CloseAll(kernel, c)
  BY DEF Crash
<1> HIDE DEF q, b
<1>7. child'[c].pc = "dead" /\ \A d \in Clients \ {c} : child'[d] = child[d]
  <2>1. child'[c] = [NoChild EXCEPT !.pc = "dead"]
    BY <1>6 DEF IInv, TypeInv
  <2>2. child'[c].pc = "dead"
    BY <2>1 DEF NoChild
  <2> QED BY <1>6, <2>2 DEF IInv, TypeInv
<1>8. Stage(c)' = "over" /\ Got(c)' = Got(c)
  BY <1>6, <1>7, NextStages DEF Got, Replied
<1>9. /\ state' = [state EXCEPT ![c] = "over"] /\ answer' = answer /\ SeenKilled' = SeenKilled
  BY <1>6, <1>7, <1>8, OneSeen
<1>10. SeenCall' = SeenCall /\ SeenCall[c] = a
  BY <1>6, <1>7, SameCall
<1>11. asSeen' = Local!CloseAll(asSeen, c)
  BY <1>1, <1>6, SeenKernel, ClosedSeen
<1>12. Local!Syscall(asSeen, c, a).result.ret = -1
  <2> HIDE DEF a
  <2>1. Local!Syscall(Seen(kernel), c, a) = SeenStep(a.op, Called(c))
    BY <1>1, <1>4, <1>5, SyscallSeen
  <2>2. SeenStep(a.op, Called(c)).result = Called(c).result
    BY <1>2, SameNames DEF SeenStep, SeenResult, Step
  <2> QED BY <1>2, <2>1, <2>2, SeenKernel
<1>13. state[c] = "asked" /\ a.op \in Local!Unreported
  BY <1>2, <1>5, Stages DEF Local!Unreported
<1> QED BY <1>6, <1>9, <1>10, <1>11, <1>12, <1>13 DEF Local!Lose, SeenCall, SeenKilled

LEMMA EndChildSeen ==
    ASSUME IInv, NEW c \in Clients, EndChild(c) PROVE Local!CloseForKilled(c)
<1>1. /\ client[c].pc = "gone" /\ toServer[c] = <<>> /\ child[c].pc = "header"
      /\ child' = [child EXCEPT ![c] = [child[c] EXCEPT !.pc = "ended"]]
      /\ client' = client /\ toServer' = toServer /\ toClient' = toClient
      /\ returned' = returned /\ kernel' = CloseAll(kernel, c) /\ KernelOK(kernel)
  BY Facts DEF EndChild, NoMore
<1>2. child'[c].pc = "ended" /\ \A d \in Clients \ {c} : child'[d] = child[d]
  <2>1. ChildOK(child[c]) /\ child'[c] = [child[c] EXCEPT !.pc = "ended"]
    BY <1>1, Facts DEF IInv, TypeInv
  <2>2. child'[c].pc = "ended"
    BY <2>1 DEF ChildOK
  <2> QED BY <1>1, <2>2 DEF IInv, TypeInv
<1>3. Stage(c)' = "over" /\ Got(c)' = Got(c)
  BY <1>1, <1>2, NextStages DEF Got, Replied
<1>4. state[c] \in {"idle", "done"} /\ c \in SeenKilled
  <2>1. ~Pending(c)
    BY <1>1 DEF Pending
  <2> QED BY <1>1, <2>1, Stages DEF SeenKilled
<1>5. /\ state' = [state EXCEPT ![c] = "over"] /\ answer' = answer /\ SeenKilled' = SeenKilled
  BY <1>1, <1>2, <1>3, OneSeen
<1>6. SeenCall' = SeenCall
  BY <1>1, <1>2, SameCall
<1>7. asSeen' = Local!CloseAll(asSeen, c)
  BY <1>1, SeenKernel, ClosedSeen
<1> QED BY <1>1, <1>4, <1>5, <1>6, <1>7 DEF Local!CloseForKilled, SeenCall, SeenKilled

LEMMA ReturnSeen ==
    ASSUME IInv, NEW c \in Clients, Return(c) PROVE Local!Return(c)
<1> DEFINE a   == client[c].call
           got == client[c].got
<1>1. /\ ClientOK(c, client[c]) /\ client[c].pc = "waiting" /\ Complete(a.op, got)
      /\ got \in Seq(Unit) /\ toClient[c] = <<>> /\ child[c].pc \in {"none", "header"}
  BY Facts, AllTaken DEF Return
<1>2. got \o toClient[c] = got
  BY <1>1, Joined
<1>3. Stage(c) = "done" /\ Got(c) = Decoded(a.op, got)
  <2>1. Replied(c)
    BY <1>1, <1>2 DEF Replied, Complete
  <2> QED BY <1>1, <1>2, <2>1, Stages DEF Got
<1>4. /\ client' = [client EXCEPT ![c] = [client[c] EXCEPT !.pc = "idle", !.call = NoCall,
                                                         !.got = <<>>]]
      /\ toServer' = toServer /\ toClient' = toClient /\ child' = child /\ kernel' = kernel
      /\ returned' = [returned EXCEPT ![c] = Decoded(a.op, got)]
  BY DEF Return
<1>5. client'[c].pc = "idle" /\ client'[c].call = NoCall
  <2>1. client'[c] = [client[c] EXCEPT !.pc = "idle", !.call = NoCall, !.got = <<>>]
    BY <1>4 DEF IInv, TypeInv
  <2> QED BY <1>1, <2>1 DEF ClientOK
<1>6. \A d \in Clients \ {c} : client'[d] = client[d]
  BY <1>4 DEF IInv, TypeInv
<1>7. Stage(c)' = "idle" /\ Got(c)' = NoResult
  <2>1. ~Replied(c)'
    BY <1>5 DEF Replied
  <2> QED BY <1>1, <1>4, <1>5, <2>1, NextStages DEF Got
<1>8. /\ state' = [state EXCEPT ![c] = "idle"] /\ answer' = [answer EXCEPT ![c] = NoResult]
      /\ SeenCall' = [SeenCall EXCEPT ![c] = NoCall] /\ SeenKilled' = SeenKilled
  BY <1>1, <1>4, <1>5, <1>6, <1>7, OneSeen
<1>9. state[c] = "done" /\ answer[c] = Decoded(a.op, got) /\ c \notin SeenKilled
  BY <1>1, <1>3, Stages DEF SeenKilled
<1>10. asSeen' = asSeen
  BY <1>4, SeenKernel
<1> QED BY <1>4, <1>8, <1>9, <1>10, SameNames DEF Local!Return, SeenCall, SeenKilled

\* A program that rests is in no call.
Rests == \A c \in Clients : client[c].pc = "idle" => client[c].call = NoCall

LEMMA RestsFirst == Init => Rests
  BY DEF Init, Rests

LEMMA RestsKept == IInv /\ Rests /\ [Next]_vars => Rests'
<1> SUFFICES ASSUME IInv, Rests, [Next]_vars PROVE Rests'
  OBVIOUS
<1>1. DOMAIN client = Clients /\ \A c \in Clients : ClientOK(c, client[c])
  BY DEF IInv, TypeInv
<1>2. ASSUME NEW c \in Clients, Call(c) PROVE Rests'
  <2>1. PICK a : client' = [client EXCEPT
             ![c] = [pc   |-> IF IsLocal(a) THEN "local" ELSE "waiting",
                     call |-> a, got |-> <<>>, made |-> client[c].made + 1]]
    BY <1>2 DEF Call
  <2> QED BY <1>1, <2>1 DEF Rests
<1>3. ASSUME NEW c \in Clients, NEW pc, NEW got, pc # "idle",
             client' = [client EXCEPT ![c] = [client[c] EXCEPT !.pc = pc, !.got = got]]
      PROVE  Rests'
  <2>1. client'[c] = [client[c] EXCEPT !.pc = pc, !.got = got]
    BY <1>1, <1>3
  <2>2. client'[c].pc = pc
    BY <1>1, <2>1 DEF ClientOK
  <2> QED BY <1>1, <1>3, <2>2 DEF Rests
<1>4. ASSUME NEW c \in Clients, CallLocal(c) \/ Die(c) PROVE Rests'
  <2>1. CASE CallLocal(c)
    <3> DEFINE got == Reply(client[c].call.op, Fails("EBADF"))
    <3>1. client' = [client EXCEPT ![c] = [client[c] EXCEPT !.pc = "waiting", !.got = got]]
      BY <2>1 DEF CallLocal
    <3> HIDE DEF got
    <3> QED BY <1>3, <3>1
  <2>2. CASE Die(c)
    <3>1. client' = [client EXCEPT ![c] = [client[c] EXCEPT !.pc = "gone", !.got = <<>>]]
      BY <2>2 DEF Die
    <3> QED BY <1>3, <3>1
  <2> QED BY <1>4, <2>1, <2>2
<1>5. ASSUME NEW c \in Clients, NEW rv, Take(c, rv), client[c].pc = "waiting" PROVE Rests'
  <2> DEFINE got == client[c].got \o SubSeq(toClient[c], 1, rv)
  <2>1. client' = [client EXCEPT ![c] = [client[c] EXCEPT !.got = got]]
    BY <1>5 DEF Take
  <2> HIDE DEF got
  <2>2. client'[c] = [client[c] EXCEPT !.got = got]
    BY <1>1, <2>1
  <2>3. client'[c].pc = "waiting"
    BY <1>1, <1>5, <2>2 DEF ClientOK
  <2> QED BY <1>1, <2>1, <2>3 DEF Rests
<1>6. ASSUME NEW c \in Clients, RecvField(c) \/ RecvData(c) \/ RecvBasep(c) PROVE Rests'
  BY <1>5, <1>6 DEF RecvField, RecvData, RecvBasep
<1>7. ASSUME NEW c \in Clients, Return(c) PROVE Rests'
  <2>1. client' = [client EXCEPT ![c] = [client[c] EXCEPT !.pc = "idle", !.call = NoCall,
                                                          !.got = <<>>]]
    BY <1>7 DEF Return
  <2>2. client'[c] = [client[c] EXCEPT !.pc = "idle", !.call = NoCall, !.got = <<>>]
    BY <1>1, <2>1
  <2>3. client'[c].call = NoCall
    BY <1>1, <2>2 DEF ClientOK
  <2> QED BY <1>1, <2>1, <2>3 DEF Rests
<1>8. ASSUME NEW c \in Clients, Serves(c) PROVE Rests'
  BY <1>8 DEF Serves, Accept, RecvHeader, RecvBody, Answer, Crash, EndChild, Rests
<1>9. CASE UNCHANGED vars
  BY <1>9 DEF vars, Rests
<1> QED BY <1>2, <1>4, <1>6, <1>7, <1>8, <1>9 DEF Next, Runs

\* The request of a killed program still comes, a call without one is lost.
LEMMA DieSeen ==
    ASSUME IInv, Rests, NEW c \in Clients, Die(c) PROVE Local!Leave(c)
<1> DEFINE a == client[c].call
<1>1. /\ ClientOK(c, client[c]) /\ Channel(c) /\ client[c].pc # "gone"
      /\ client[c].pc \in {"idle", "local", "waiting"}
      /\ a \in Calls[c] => a # NoCall
  BY Facts, NotNoCall DEF Die, ClientOK
<1>2. PICK units \in Sent(toServer[c]) : toServer' = [toServer EXCEPT ![c] = units]
  BY DEF Die
<1>3. /\ client' = [client EXCEPT ![c] = [client[c] EXCEPT !.pc = "gone", !.got = <<>>]]
      /\ toClient' = [toClient EXCEPT ![c] = <<>>] /\ child' = child /\ kernel' = kernel
      /\ returned' = [returned EXCEPT ![c] = NoResult]
  BY DEF Die
<1>4. client'[c].pc = "gone" /\ client'[c].call = a /\ toServer'[c] = units
  <2>1. client'[c] = [client[c] EXCEPT !.pc = "gone", !.got = <<>>]
    BY <1>3 DEF IInv, TypeInv
  <2> QED BY <1>1, <1>2, <2>1 DEF ClientOK, IInv, TypeInv
<1>5. \A d \in Clients \ {c} :
         client'[d] = client[d] /\ toServer'[d] = toServer[d] /\ toClient'[d] = toClient[d]
  BY <1>2, <1>3 DEF IInv, TypeInv
<1>6. toServer[c] = <<>> => units = <<>>
  <2> SUFFICES ASSUME toServer[c] = <<>> PROVE units = <<>>
    OBVIOUS
  <2>1. PICK k \in 0..Len(toServer[c]) : units = SubSeq(toServer[c], 1, k)
    BY DEF Sent
  <2> QED BY <2>1
<1>7. Stage(c)' = Stage(c) \/ (Stage(c) = "asked" /\ Stage(c)' = "done")
  <2>1. CASE child[c].pc \in {"ended", "dead"}
    BY <1>3, <2>1, Stages, NextStages
  <2>2. CASE child[c].pc \notin {"ended", "dead"} /\ client[c].pc = "idle"
    <3>1. ~Pending(c)'
      BY <1>1, <1>3, <1>4, <1>6, <2>2 DEF Channel, Pending
    <3>2. a = NoCall
      BY <2>2 DEF Rests
    <3> QED BY <1>3, <1>4, <2>2, <3>1, <3>2, Stages, NextStages
  <2>3. CASE child[c].pc \notin {"ended", "dead"} /\ client[c].pc = "local"
    <3>1. ~Pending(c)' /\ ~Replied(c)
      BY <1>1, <1>3, <1>4, <1>6, <2>3 DEF Channel, Pending, Replied
    <3>2. a # NoCall
      BY <1>1, <2>3 DEF ClientOK
    <3> QED BY <1>3, <1>4, <2>3, <3>1, <3>2, Stages, NextStages
  <2>4. CASE client[c].pc = "waiting" /\ Requested(c)
    <3>1. ~Replied(c)
      BY <2>4 DEF Requested, Replied
    <3>2. Pending(c)' /\ child[c].pc \notin {"ended", "dead"}
      <4>1. CASE child[c].pc = "body"
        BY <1>3, <4>1 DEF Pending
      <4>2. CASE child[c].pc # "body"
        <5>1. PICK b \in Bodies(c) : toServer[c] = <<<<"head", HeadOf(a)>>>> \o b
          BY <2>4, <4>2 DEF Requested
        <5>2. a \in Requests /\ b \in Cuts(a)
          BY <2>4, <5>1, Facts, WholeIsACut DEF Requested, Bodies
        <5>3. units \in Sent(<<<<"head", HeadOf(a)>>>> \o b)
          BY <5>1
        <5> HIDE DEF a
        <5>4. PICK d \in Cuts(a) : units = <<<<"head", HeadOf(a)>>>> \o d
          BY <5>2, <5>3, HeadNotLost
        <5>5. units # <<>>
          BY <5>2, <5>4, MessageOf, CutForms, Split
        <5> QED BY <1>4, <2>4, <4>2, <5>5 DEF Pending, Requested
      <4> QED BY <4>1, <4>2
    <3> QED BY <1>3, <1>4, <2>4, <3>1, <3>2, Stages, NextStages
  <2>5. CASE client[c].pc = "waiting" /\ Answered(c)
    <3>1. Replied(c) /\ ~Pending(c)'
      BY <1>3, <1>4, <1>6, <2>5 DEF Answered, Complete, Replied, Pending
    <3>2. a # NoCall
      BY <1>1, <2>5 DEF ClientOK
    <3> QED BY <1>3, <1>4, <2>5, <3>1, <3>2, Stages, NextStages DEF Answered
  <2> QED BY <1>1, <2>1, <2>2, <2>3, <2>4, <2>5 DEF Channel
<1>8. Got(c)' = NoResult
  BY <1>4 DEF Got, Replied
<1>9. /\ state' = [state EXCEPT ![c] = Stage(c)'] /\ answer' = [answer EXCEPT ![c] = NoResult]
      /\ SeenKilled' = SeenKilled \cup {c}
  BY <1>3, <1>4, <1>5, <1>8, OneSeen
<1>10. SeenCall' = SeenCall
  BY <1>3, <1>4, <1>5, SameCall
<1>11. state' \in {state, [state EXCEPT ![c] = IF @ = "asked" THEN "done" ELSE @]}
  <2>1. state[c] = Stage(c)
    BY Stages
  <2>2. state = [d \in Clients |-> state[d]]
    BY DEF state
  <2> HIDE DEF state
  <2>3. CASE Stage(c)' = Stage(c)
    BY <1>9, <2>1, <2>2, <2>3
  <2>4. CASE Stage(c) = "asked" /\ Stage(c)' = "done"
    BY <1>9, <2>1, <2>4
  <2> QED BY <1>7, <2>3, <2>4
<1>12. asSeen' = asSeen /\ c \notin SeenKilled
  BY <1>1, <1>3, SeenKernel DEF SeenKilled
<1> QED BY <1>3, <1>9, <1>10, <1>11, <1>12, SameNames DEF Local!Leave, SeenCall, SeenKilled

LEMMA InitSeen == Init => Local!Init
<1> SUFFICES ASSUME Init PROVE Local!Init
  OBVIOUS
<1>1. \A c \in Clients : /\ client[c].pc = "idle" /\ client[c].call = NoCall
                         /\ child[c].pc = "none" /\ toServer[c] = <<>>
  BY DEF Init, NoChild
<1>2. \A c \in Clients : Stage(c) = "idle" /\ Got(c) = NoResult
  <2> TAKE c \in Clients
  <2>1. ~Replied(c)
    BY <1>1 DEF Replied
  <2> QED BY <1>1, <2>1, Stages DEF Got
<1>3. state = [c \in Clients |-> "idle"] /\ answer = [c \in Clients |-> NoResult]
  <2>1. state = [d \in Clients |-> Stage(d)] /\ answer = [d \in Clients |-> Got(d)]
    BY DEF state, answer, Stage, Got
  <2> QED BY <1>2, <2>1
<1>4. SeenCall = [c \in Clients |-> NoCall] /\ SeenKilled = {}
  BY <1>1 DEF SeenCall, SeenKilled
<1>5. asSeen = Local!Fresh(Contents)
  <2> DEFINE g == CHOOSE g \in [DOMAIN Contents -> Inodes] : IsInjective(g)
             file == AntiFunction(g)
             n == [f \in Files |-> IF f \in DOMAIN Contents THEN g[f] ELSE Nobody]
             h == [i \in Inodes |-> IF i \in DOMAIN file THEN Contents[file[i]] ELSE <<>>]
             e == [c \in Clients |-> [fd \in Fds |-> Closed]]
             t == [c \in Clients |-> [fd \in SeenFds |-> Closed]]
  <2>1. kernel = [names |-> n, inodes |-> h, fds |-> e]
    BY DEF Init, Fresh
  <2> HIDE DEF n, h
  <2>2. Local!Fresh(Contents) = [names |-> n, inodes |-> h, fds |-> t]
    <3>1. \A f : Local!AntiFunction(f) = AntiFunction(f)
      BY DEF Local!AntiFunction, AntiFunction, Local!Inverse, Inverse, Local!Range, Range
    <3>2. \A f : Local!IsInjective(f) <=> IsInjective(f)
      BY DEF Local!IsInjective, IsInjective
    <3>3. (CHOOSE f \in [DOMAIN Contents -> Inodes] : Local!IsInjective(f)) = g
      BY <3>2
    <3> DEFINE g1 == CHOOSE f \in [DOMAIN Contents -> Inodes] : Local!IsInjective(f)
               m1 == Local!AntiFunction(g1)
    <3>4. Local!Fresh(Contents) =
            [names  |-> [f \in Files |-> IF f \in DOMAIN Contents THEN g1[f] ELSE Local!Nobody],
             inodes |-> [i \in Inodes |-> IF i \in DOMAIN m1 THEN Contents[m1[i]] ELSE <<>>],
             fds    |-> [c \in Clients |-> [fd \in SeenFds |-> Local!Closed]]]
      BY DEF Local!Fresh, SeenFds
    <3>5. g1 = g /\ m1 = file
      BY <3>1, <3>3
    <3> HIDE DEF g, g1, file, m1
    <3> QED BY <3>4, <3>5, SameNames DEF n, h, t
  <2>3. SeenEnds(kernel) = t
    <3>1. \A fd \in SeenFds : fd - OFFSET \in Fds
      BY RemoteAssumption DEF SeenFds
    <3>2. kernel.fds = e
      BY <2>1
    <3> QED BY <3>1, <3>2 DEF SeenEnds
  <2>4. Seen(kernel) = [names |-> n, inodes |-> h, fds |-> SeenEnds(kernel)]
    BY <2>1 DEF Seen
  <2> QED BY <2>2, <2>3, <2>4, SeenKernel
<1>6. returned = [c \in Clients |-> NoResult]
  BY DEF Init
<1> QED BY <1>3, <1>4, <1>5, <1>6, SameNames DEF Local!Init, SeenCall, SeenKilled

\* Every step is one of LocalFiles, or none.
LEMMA StepSeen ==
    ASSUME SeeksStayLow, RoundTrip, IInv, Rests, [Next]_vars
    PROVE  [Local!Next]_(Local!vars)
<1>1. ASSUME NEW c \in Clients, Call(c) \/ Die(c) PROVE Local!Next
  BY <1>1, CallSeen, DieSeen DEF Local!Next
<1>2. ASSUME NEW c \in Clients, Runs(c) PROVE [Local!Next]_(Local!vars)
  <2>1. CASE CallLocal(c)
    BY <2>1, CallLocalSeen DEF Local!Next
  <2>2. CASE RecvField(c) \/ RecvData(c) \/ RecvBasep(c)
    BY <2>2, ReceivedSeen
  <2>3. CASE Return(c)
    BY <2>3, ReturnSeen DEF Local!Next
  <2> QED BY <1>2, <2>1, <2>2, <2>3 DEF Runs
<1>3. ASSUME NEW c \in Clients, Serves(c) PROVE [Local!Next]_(Local!vars)
  <2>1. CASE Accept(c) \/ RecvHeader(c) \/ RecvBody(c)
    BY <2>1, AcceptSeen, RecvHeaderSeen, RecvBodySeen
  <2>2. CASE Answer(c)
    BY <2>2, AnswerSeen DEF Local!Next
  <2>3. CASE Crash(c) \/ EndChild(c)
    BY <2>3, CrashSeen, EndChildSeen DEF Local!Next
  <2> QED BY <1>3, <2>1, <2>2, <2>3 DEF Serves
<1>4. CASE UNCHANGED vars
  BY <1>4 DEF vars, Local!vars, asSeen, state, answer, Replied, Pending
<1> QED BY <1>1, <1>2, <1>3, <1>4 DEF Next

\* Each call of a program takes effect once, at one instant between the call
\* and its return, and returns what the same call on the server's machine
\* would, however messages are cut up and whatever other programs do
\* (mylib.c:167-709, server.c:192-465).  Two facts about the calls and the
\* directories are taken, which TLC evaluates: no seek is kept from the server
\* by the comparison of mylib.c:441 (else such a seek fails and the theorem with
\* it), and the trees there are can be read back from what is sent of them.
THEOREM ImplementsHolds ==
    ASSUME SeeksStayLow, RoundTrip
    PROVE  Spec => Implements
<1>1. IInv /\ Rests /\ [Next]_vars => [Local!Next]_(Local!vars)
  BY StepSeen
<1>2. Spec => []Rests
  BY RestsFirst, RestsKept, InvHolds, PTL DEF Spec
<1> QED BY <1>1, <1>2, InitSeen, InvHolds, PTL DEF Spec, Implements, Local!Spec
=============================================================================
