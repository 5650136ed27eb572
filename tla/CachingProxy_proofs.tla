---------------------------- MODULE CachingProxy_proofs ----------------------------
(***************************************************************************)
(* Proofs about CachingProxy, for any clients, paths, capacity and bounds. *)
(***************************************************************************)
EXTENDS CachingProxy, FiniteSetTheorems, WellFoundedInduction, TLAPS

-----------------------------------------------------------------------------
(* Sums over finite sets                                                   *)

\* SumFunction folds with a function on the subsets of the domain; Sums(f, g)
\* says that g is that function.
Sums(f, g) ==
    g = [s \in SUBSET DOMAIN f |->
           IF s = {} THEN 0
           ELSE LET x == CHOOSE x \in s : TRUE IN f[x] + g[s \ {x}]]

\* What the fold of the library is, written out.
LEMMA SumWritten ==
    ASSUME NEW f
    PROVE  SumFunction(f) = (CHOOSE g : Sums(f, g))[DOMAIN f]
  BY DEF SumFunction, SumFunctionOnSet, FoldFunctionOnSet, MapThenFoldSet, Sums

\* Up(f, n, g): g sums the sets of at most n elements.
Small(S, n) == {s \in SUBSET S : Cardinality(s) <= n}
Up(f, n, g) ==
    /\ g \in [Small(DOMAIN f, n) -> Int]
    /\ \A s \in Small(DOMAIN f, n) :
         g[s] = IF s = {} THEN 0
                ELSE LET x == CHOOSE x \in s : TRUE IN f[x] + g[s \ {x}]

\* A function of integers on a finite set can be summed up to any cardinality.
LEMMA SumUpTo ==
    ASSUME NEW f, IsFiniteSet(DOMAIN f), \A x \in DOMAIN f : f[x] \in Int
    PROVE  \A n \in Nat : \E g : Up(f, n, g)
<1> DEFINE Bad == {n \in Nat : ~ \E g : Up(f, n, g)}
<1> SUFFICES ASSUME Bad # {} PROVE FALSE
  OBVIOUS
<1> HIDE DEF Bad
<1>0. Bad \subseteq Nat
  BY DEF Bad
<1>1. PICK m \in Bad : \A y \in Bad : ~(<<y, m>> \in OpToRel(<, Nat))
  BY <1>0, NatLessThanWellFounded, WFMin
<1>2. m \in Nat
  BY <1>0
<1>3. \A y \in Bad : ~(y < m)
  BY <1>0, <1>1, <1>2 DEF OpToRel
<1>4. \A s \in SUBSET DOMAIN f : IsFiniteSet(s) /\ Cardinality(s) \in Nat
  BY FS_Subset, FS_CardinalityType
<1>5. CASE m = 0
  <2> DEFINE g == [s \in Small(DOMAIN f, 0) |-> 0]
  <2>1. \A s \in Small(DOMAIN f, 0) : s = {}
    BY <1>4, FS_EmptySet DEF Small
  <2>2. Up(f, 0, g)
    BY <2>1 DEF Up
  <2> QED
    BY <2>2, <1>5, <1>1 DEF Bad
<1>6. CASE m # 0
  <2>1. m - 1 \in Nat /\ m - 1 \notin Bad
    BY <1>2, <1>3, <1>6
  <2>2. PICK h : Up(f, m - 1, h)
    BY <2>1 DEF Bad
  <2> DEFINE g == [s \in Small(DOMAIN f, m) |->
                     IF s = {} THEN 0
                     ELSE LET x == CHOOSE x \in s : TRUE IN f[x] + h[s \ {x}]]
  <2> HIDE DEF g
  <2>3. ASSUME NEW s \in Small(DOMAIN f, m), s # {}, NEW x, x = CHOOSE y \in s : TRUE
        PROVE  /\ x \in s /\ x \in DOMAIN f
               /\ s \ {x} \in Small(DOMAIN f, m - 1)
               /\ s \ {x} \in Small(DOMAIN f, m)
               /\ g[s] = f[x] + h[s \ {x}]
    <3>1. x \in s /\ s \subseteq DOMAIN f /\ IsFiniteSet(s) /\ Cardinality(s) <= m
             /\ Cardinality(s) \in Nat
      BY <2>3, <1>4 DEF Small
    <3>2. Cardinality(s \ {x}) = Cardinality(s) - 1
      BY <3>1, FS_RemoveElement
    <3>3. s \ {x} \in SUBSET DOMAIN f
      BY <3>1
    <3>4. Cardinality(s \ {x}) <= m - 1 /\ Cardinality(s \ {x}) <= m
      BY <3>1, <3>2, <1>2
    <3>5. g[s] = f[x] + h[s \ {x}]
      BY <2>3 DEF g
    <3> QED
      BY <3>1, <3>3, <3>4, <3>5 DEF Small
  <2>4. \A s \in Small(DOMAIN f, m) : s = {} => g[s] = 0
    BY DEF g
  <2>5. ASSUME NEW s \in Small(DOMAIN f, m)
        PROVE  g[s] \in Int
    <3> DEFINE x == CHOOSE x \in s : TRUE
    <3>1. CASE s = {}
      BY <2>4, <3>1
    <3>2. CASE s # {}
      <4>1. x \in DOMAIN f /\ s \ {x} \in Small(DOMAIN f, m - 1)
              /\ g[s] = f[x] + h[s \ {x}]
        BY <2>3, <3>2
      <4>2. h[s \ {x}] \in Int
        BY <4>1, <2>2 DEF Up
      <4> QED
        BY <4>1, <4>2
    <3> QED
      BY <3>1, <3>2
  <2>6. \A s \in Small(DOMAIN f, m - 1) : s \in Small(DOMAIN f, m) /\ g[s] = h[s]
    <3> SUFFICES ASSUME NEW s \in Small(DOMAIN f, m - 1)
                 PROVE  s \in Small(DOMAIN f, m) /\ g[s] = h[s]
      OBVIOUS
    <3>1. s \in Small(DOMAIN f, m)
      BY <1>2, <1>4 DEF Small
    <3>2. h[s] = IF s = {} THEN 0
                 ELSE LET x == CHOOSE x \in s : TRUE IN f[x] + h[s \ {x}]
      BY <2>2 DEF Up
    <3>3. CASE s = {}
      BY <3>1, <3>2, <3>3, <2>4
    <3>4. CASE s # {}
      BY <3>1, <3>2, <3>4, <2>3
    <3> QED
      BY <3>1, <3>3, <3>4
  <2>7. ASSUME NEW s \in Small(DOMAIN f, m)
        PROVE  g[s] = IF s = {} THEN 0
                      ELSE LET x == CHOOSE x \in s : TRUE IN f[x] + g[s \ {x}]
    <3>1. CASE s = {}
      BY <2>4, <3>1
    <3>2. CASE s # {}
      BY <2>3, <2>6, <3>2
    <3> QED
      BY <3>1, <3>2
  <2>8. g \in [Small(DOMAIN f, m) -> Int]
    BY <2>5 DEF g
  <2>9. Up(f, m, g)
    BY <2>7, <2>8 DEF Up
  <2> QED
    BY <2>9, <1>1 DEF Bad
<1> QED
  BY <1>5, <1>6

\* The sum of a function of integers on a finite set is an integer.
LEMMA SumIsInt ==
    ASSUME NEW f, IsFiniteSet(DOMAIN f), \A x \in DOMAIN f : f[x] \in Int
    PROVE  SumFunction(f) \in Int
<1> DEFINE n == Cardinality(DOMAIN f)
<1>1. n \in Nat
  BY FS_CardinalityType
<1>2. PICK g : Up(f, n, g)
  BY <1>1, SumUpTo
<1>3. Small(DOMAIN f, n) = SUBSET DOMAIN f
  BY FS_Subset DEF Small
<1>4. g \in [SUBSET DOMAIN f -> Int]
  BY <1>2, <1>3 DEF Up
<1>5. Sums(f, g)
  BY <1>2, <1>3, <1>4 DEF Up, Sums
<1> DEFINE h == CHOOSE h : Sums(f, h)
<1>6. Sums(f, h)
  BY <1>5
<1> HIDE DEF h
<1>7. \A s \in SUBSET DOMAIN f : IsFiniteSet(s) /\ Cardinality(s) \in Nat
  BY FS_Subset, FS_CardinalityType
<1> DEFINE Bad == {i \in Nat : \E s \in SUBSET DOMAIN f : Cardinality(s) = i /\ h[s] \notin Int}
<1>8. Bad = {}
  <2> SUFFICES ASSUME Bad # {} PROVE FALSE
    OBVIOUS
  <2> HIDE DEF Bad
  <2>0. Bad \subseteq Nat
    BY DEF Bad
  <2>1. PICK m \in Bad : \A y \in Bad : ~(<<y, m>> \in OpToRel(<, Nat))
    BY <2>0, NatLessThanWellFounded, WFMin
  <2>2. m \in Nat /\ \A y \in Bad : ~(y < m)
    BY <2>0, <2>1 DEF OpToRel
  <2>3. PICK s \in SUBSET DOMAIN f : Cardinality(s) = m /\ h[s] \notin Int
    BY <2>1 DEF Bad
  <2>4. h[s] = IF s = {} THEN 0
               ELSE LET x == CHOOSE x \in s : TRUE IN f[x] + h[s \ {x}]
    BY <1>6 DEF Sums
  <2>5. s # {}
    BY <2>3, <2>4
  <2> DEFINE x == CHOOSE x \in s : TRUE
  <2>6. x \in s /\ x \in DOMAIN f
    BY <2>5
  <2>7. h[s] = f[x] + h[s \ {x}]
    BY <2>4, <2>5
  <2> HIDE DEF x
  <2>8. s \ {x} \in SUBSET DOMAIN f /\ Cardinality(s \ {x}) = m - 1
    BY <2>3, <2>6, <1>7, FS_RemoveElement
  <2>9. Cardinality(s \ {x}) \in Nat
    BY <2>8, <1>7
  <2>10. m - 1 \notin Bad
    BY <2>2
  <2>11. h[s \ {x}] \in Int
    BY <2>8, <2>9, <2>10 DEF Bad
  <2> QED
    BY <2>3, <2>6, <2>7, <2>11
<1>9. h[DOMAIN f] \in Int
  BY <1>7, <1>8
<1> QED
  BY <1>9, SumWritten DEF h

-----------------------------------------------------------------------------
(* The parts of the state, and what the operations do to them              *)

\* Server.java's tables.
ServerOK ==
    /\ DOMAIN served \subseteq Paths
    /\ served \in [DOMAIN served -> Seq(Chunks)]
    /\ DOMAIN max_versions \subseteq Paths
    /\ max_versions \in [DOMAIN max_versions -> Nat \ {0}]

\* The map of Cache.java: every entry has a count.
CacheOK ==
    /\ cache = [entries |-> cache.entries, clients |-> cache.clients,
                size |-> cache.size]
    /\ IsFiniteSet(DOMAIN cache.entries)
    /\ cache.entries \in [DOMAIN cache.entries -> Nat]
    /\ DOMAIN cache.entries \subseteq DOMAIN cache.clients
    /\ DOMAIN cache.clients \subseteq Keys
    /\ cache.clients \in [DOMAIN cache.clients -> Nat]
    /\ cache.size \in Int

\* The cache directory.
FilesOK ==
    /\ inodes \in Seq(Seq(Chunks))
    /\ DOMAIN disk \subseteq Keys
    /\ disk \in [DOMAIN disk -> DOMAIN inodes]

\* Inodes are never given up and never become shorter.
InodesGrow ==
    /\ DOMAIN inodes \subseteq DOMAIN inodes'
    /\ Len(inodes) <= Len(inodes')
    /\ \A i \in DOMAIN inodes : Len(inodes[i]) <= Len(inodes'[i])

\* Files leave the directory only with an entry that counts no client.
OnlyIdleGone ==
    \A k \in DOMAIN disk : /\ k \notin DOMAIN disk' => cache'.clients[k] = 0
                           /\ k \in DOMAIN disk' => disk'[k] = disk[k]

NoNewEntry == DOMAIN cache'.entries \subseteq DOMAIN cache.entries

LEMMA WithTyped ==
    ASSUME NEW f, NEW T, f \in [DOMAIN f -> T], NEW x, NEW v \in T
    PROVE  /\ With(f, x, v) \in [DOMAIN f \cup {x} -> T]
           /\ DOMAIN With(f, x, v) = DOMAIN f \cup {x}
           /\ With(f, x, v)[x] = v
           /\ \A y \in DOMAIN f \ {x} : With(f, x, v)[y] = f[y]
  BY DEF With

LEMMA WithoutTyped ==
    ASSUME NEW f, NEW T, f \in [DOMAIN f -> T], NEW S
    PROVE  /\ Without(f, S) \in [DOMAIN f \ S -> T]
           /\ DOMAIN Without(f, S) = DOMAIN f \ S
           /\ \A y \in DOMAIN f \ S : Without(f, S)[y] = f[y]
  BY DEF Without

LEMMA LeftTyped ==
    ASSUME NEW e, IsFiniteSet(DOMAIN e), NEW S
    PROVE  /\ Left(e, S) \in [DOMAIN e \ S -> Nat]
           /\ DOMAIN Left(e, S) = DOMAIN e \ S
           /\ IsFiniteSet(DOMAIN Left(e, S))
<1> DEFINE rest == DOMAIN e \ S
<1>1. IsFiniteSet(rest)
  BY FS_Difference
<1>2. \A k \in rest : {j \in rest : e[j] <= e[k]} \subseteq rest
  OBVIOUS
<1>3. \A k \in rest : Cardinality({j \in rest : e[j] <= e[k]}) \in Nat
  BY <1>1, <1>2, FS_Subset, FS_CardinalityType
<1> QED
  BY <1>1, <1>3 DEF Left

LEMMA UsedTyped ==
    ASSUME NEW e, IsFiniteSet(DOMAIN e), NEW k
    PROVE  /\ Used(e, k) \in [DOMAIN e \cup {k} -> Nat]
           /\ DOMAIN Used(e, k) = DOMAIN e \cup {k}
           /\ IsFiniteSet(DOMAIN Used(e, k))
<1> DEFINE l == Left(e, {k})
           n == Cardinality(DOMAIN l) + 1
<1>1. l \in [DOMAIN e \ {k} -> Nat] /\ DOMAIN l = DOMAIN e \ {k}
         /\ IsFiniteSet(DOMAIN l)
  BY LeftTyped
<1>2. n \in Nat
  BY <1>1, FS_CardinalityType
<1>3. Used(e, k) = With(l, k, n)
  BY DEF Used
<1> HIDE DEF l, n
<1>4. With(l, k, n) \in [DOMAIN l \cup {k} -> Nat] /\ DOMAIN With(l, k, n) = DOMAIN l \cup {k}
  <2>1. l \in [DOMAIN l -> Nat]
    BY <1>1
  <2> QED
    BY <1>2, <2>1 DEF With
<1>5. DOMAIN l \cup {k} = DOMAIN e \cup {k}
  BY <1>1
<1>6. IsFiniteSet(DOMAIN l \cup {k})
  BY <1>1, FS_AddElement
<1> QED
  BY <1>3, <1>4, <1>5, <1>6

LEMMA LengthTyped ==
    ASSUME FilesOK, NEW k
    PROVE  FileLength(k) \in Nat
<1>1. CASE k \in DOMAIN disk
  <2>1. inodes[disk[k]] \in Seq(Chunks)
    BY <1>1 DEF FilesOK
  <2> QED
    BY <2>1, <1>1 DEF FileLength
<1>2. CASE k \notin DOMAIN disk
  BY <1>2 DEF FileLength
<1> QED
  BY <1>1, <1>2

LEMMA TotalTyped ==
    ASSUME FilesOK, NEW S, IsFiniteSet(S)
    PROVE  Total(S) \in Int
<1> DEFINE f == [k \in S |-> FileLength(k)]
<1>1. DOMAIN f = S /\ \A k \in DOMAIN f : f[k] \in Int
  BY LengthTyped
<1>2. SumFunction(f) \in Int
  <2> HIDE DEF f
  <2> QED
    BY <1>1, SumIsInt
<1> QED
  BY <1>2 DEF Total

LEMMA EntriesAndSize ==
    ASSUME NEW c, c = [entries |-> c.entries, clients |-> c.clients, size |-> c.size],
           NEW e, NEW z
    PROVE  [c EXCEPT !.entries = e, !.size = z]
             = [entries |-> e, clients |-> c.clients, size |-> z]
<1>1. PICK e0, n0, z0 : c = [entries |-> e0, clients |-> n0, size |-> z0]
  OBVIOUS
<1>2. c.clients = n0
  BY <1>1
<1> DEFINE d == [c EXCEPT !.entries = e]
<1>3. d = [entries |-> e, clients |-> n0, size |-> z0]
  BY <1>1
<1>4. [c EXCEPT !.entries = e, !.size = z] = [d EXCEPT !.size = z]
  OBVIOUS
<1> HIDE DEF d
<1>5. [d EXCEPT !.size = z] = [entries |-> e, clients |-> n0, size |-> z]
  BY <1>3
<1> QED
  BY <1>2, <1>4, <1>5

LEMMA ClientsAndSize ==
    ASSUME NEW c, c = [entries |-> c.entries, clients |-> c.clients, size |-> c.size],
           NEW n, NEW z
    PROVE  [c EXCEPT !.clients = n, !.size = z]
             = [entries |-> c.entries, clients |-> n, size |-> z]
<1>1. PICK e0, n0, z0 : c = [entries |-> e0, clients |-> n0, size |-> z0]
  OBVIOUS
<1>2. c.entries = e0
  BY <1>1
<1> DEFINE d == [c EXCEPT !.clients = n]
<1>3. d = [entries |-> e0, clients |-> n, size |-> z0]
  BY <1>1
<1>4. [c EXCEPT !.clients = n, !.size = z] = [d EXCEPT !.size = z]
  OBVIOUS
<1> HIDE DEF d
<1>5. [d EXCEPT !.size = z] = [entries |-> e0, clients |-> n, size |-> z]
  BY <1>3
<1> QED
  BY <1>2, <1>4, <1>5

\* Dropped takes entries away and nothing else.
LEMMA DroppedTyped ==
    ASSUME CacheOK, FilesOK, NEW c,
           c = [entries |-> c.entries, clients |-> c.clients, size |-> c.size],
           IsFiniteSet(DOMAIN c.entries), c.size \in Int,
           NEW S \in SUBSET DOMAIN c.entries
    PROVE  /\ Dropped(c, S) = [entries |-> Left(c.entries, S),
                               clients |-> c.clients,
                               size |-> c.size - Total(S)]
           /\ c.size - Total(S) \in Int
           /\ Left(c.entries, S) \in [DOMAIN c.entries \ S -> Nat]
           /\ DOMAIN Left(c.entries, S) = DOMAIN c.entries \ S
           /\ IsFiniteSet(DOMAIN Left(c.entries, S))
<1>1. IsFiniteSet(S)
  BY FS_Subset
<1>2. Total(S) \in Int
  BY <1>1, TotalTyped
<1>3. Dropped(c, S) = [entries |-> Left(c.entries, S), clients |-> c.clients,
                       size |-> c.size - Total(S)]
  <2> DEFINE e == Left(c.entries, S)
             z == c.size - Total(S)
  <2>1. Dropped(c, S) = [c EXCEPT !.entries = e, !.size = z]
    BY DEF Dropped
  <2> HIDE DEF e, z
  <2>2. [c EXCEPT !.entries = e, !.size = z]
          = [entries |-> e, clients |-> c.clients, size |-> z]
    BY EntriesAndSize
  <2> QED
    BY <2>1, <2>2 DEF e, z
<1>4. c.size - Total(S) \in Int
  BY <1>2
<1> QED
  BY <1>3, <1>4, LeftTyped

\* Removing files from the directory.
LEMMA WithoutFiles ==
    ASSUME FilesOK, NEW S, disk' = Without(disk, S), inodes' = inodes
    PROVE  FilesOK' /\ InodesGrow /\ DOMAIN disk' = DOMAIN disk \ S
           /\ \A k \in DOMAIN disk' : disk'[k] = disk[k]
<1>1. disk' \in [DOMAIN disk \ S -> DOMAIN inodes] /\ DOMAIN disk' = DOMAIN disk \ S
         /\ \A k \in DOMAIN disk \ S : disk'[k] = disk[k]
  BY WithoutTyped DEF FilesOK
<1>2. FilesOK'
  BY <1>1 DEF FilesOK
<1>3. \A i \in DOMAIN inodes : inodes[i] \in Seq(Chunks)
  BY DEF FilesOK
<1>4. InodesGrow
  BY <1>3 DEF InodesGrow, FilesOK
<1> QED
  BY <1>1, <1>2, <1>4

\* Opening a file by its key: it has an inode after it.
LEMMA OpenFileEffect ==
    ASSUME FilesOK, NEW k \in Keys, OpenFile(k)
    PROVE  /\ FilesOK' /\ InodesGrow
           /\ DOMAIN disk' = DOMAIN disk \cup {k}
           /\ \A j \in DOMAIN disk : disk'[j] = disk[j]
           /\ disk'[k] = InodeOf(k)
           /\ InodeOf(k) \in DOMAIN inodes'
           /\ \A i \in DOMAIN inodes : inodes'[i] = inodes[i]
<1>0. inodes \in Seq(Seq(Chunks)) /\ <<>> \in Seq(Chunks)
  BY DEF FilesOK
<1>1. CASE k \in DOMAIN disk
  <2>1. inodes' = inodes /\ InodeOf(k) = disk[k] /\ disk' = With(disk, k, InodeOf(k))
    BY <1>1 DEF OpenFile, InodeOf
  <2>2. InodeOf(k) \in DOMAIN inodes
    BY <2>1, <1>1 DEF FilesOK
  <2>3. /\ disk' \in [DOMAIN disk \cup {k} -> DOMAIN inodes]
        /\ DOMAIN disk' = DOMAIN disk \cup {k}
        /\ disk'[k] = InodeOf(k)
        /\ \A j \in DOMAIN disk \ {k} : disk'[j] = disk[j]
    BY <2>1, <2>2 DEF FilesOK, With
  <2>4. \A j \in DOMAIN disk : disk'[j] = disk[j]
    BY <2>1, <2>3
  <2>5. \A i \in DOMAIN inodes : inodes[i] \in Seq(Chunks)
    BY DEF FilesOK
  <2> QED
    BY <1>0, <2>1, <2>2, <2>3, <2>4, <2>5 DEF FilesOK, InodesGrow
<1>2. CASE k \notin DOMAIN disk
  <2>1. /\ inodes' = Append(inodes, <<>>) /\ InodeOf(k) = Len(inodes) + 1
        /\ disk' = With(disk, k, InodeOf(k))
    BY <1>2 DEF OpenFile, InodeOf
  <2>2. /\ inodes' \in Seq(Seq(Chunks)) /\ Len(inodes') = Len(inodes) + 1
        /\ DOMAIN inodes' = 1..Len(inodes)+1 /\ DOMAIN inodes = 1..Len(inodes)
        /\ Len(inodes) \in Nat
        /\ \A i \in DOMAIN inodes : inodes'[i] = inodes[i]
    BY <1>0, <2>1
  <2>3. InodeOf(k) \in DOMAIN inodes' /\ DOMAIN inodes \subseteq DOMAIN inodes'
    BY <2>1, <2>2
  <2>4. disk \in [DOMAIN disk -> DOMAIN inodes']
    BY <2>3 DEF FilesOK
  <2>5. /\ disk' \in [DOMAIN disk \cup {k} -> DOMAIN inodes']
        /\ DOMAIN disk' = DOMAIN disk \cup {k}
        /\ disk'[k] = InodeOf(k)
        /\ \A j \in DOMAIN disk \ {k} : disk'[j] = disk[j]
    BY <2>1, <2>3, <2>4 DEF With
  <2>6. FilesOK'
    BY <2>2, <2>5 DEF FilesOK
  <2>7. \A i \in DOMAIN inodes : inodes[i] \in Seq(Chunks)
    BY DEF FilesOK
  <2>8. InodesGrow
    BY <2>2, <2>3, <2>7 DEF InodesGrow
  <2> QED
    BY <1>2, <2>2, <2>3, <2>5, <2>6, <2>8
<1> QED
  BY <1>1, <1>2

LEMMA OverlayTyped ==
    ASSUME NEW content \in Seq(Chunks), NEW pos \in Nat, NEW chunk \in Chunks
    PROVE  /\ Overlay(content, pos, chunk) \in Seq(Chunks)
           /\ Len(Overlay(content, pos, chunk)) >= Len(content)
           /\ Len(Overlay(content, pos, chunk)) >= pos + 1
<1> DEFINE n == IF pos < Len(content) THEN Len(content) ELSE pos + 1
<1>1. n \in Nat /\ n >= Len(content) /\ n >= pos + 1
  OBVIOUS
<1>2. Zero \in Chunks
  BY ChunksAssumption
<1>3. \A i \in 1..n : (IF i = pos + 1 THEN chunk
                       ELSE IF i <= Len(content) THEN content[i] ELSE Zero) \in Chunks
  BY <1>2
<1>4. Overlay(content, pos, chunk) \in [1..n -> Chunks]
  BY <1>3 DEF Overlay
<1> HIDE DEF n
<1>5. Overlay(content, pos, chunk) \in Seq(Chunks) /\ Len(Overlay(content, pos, chunk)) = n
  BY <1>1, <1>4
<1> QED
  BY <1>1, <1>5

\* Writing a chunk of an inode.
LEMMA WriteEffect ==
    ASSUME FilesOK, NEW i \in DOMAIN inodes, NEW pos \in Nat, NEW chunk \in Chunks,
           WriteChunk(i, pos, chunk)
    PROVE  /\ FilesOK' /\ InodesGrow /\ cache' = cache /\ disk' = disk
           /\ Len(inodes'[i]) >= pos + 1
<1>1. /\ inodes \in Seq(Seq(Chunks)) /\ inodes[i] \in Seq(Chunks)
      /\ inodes' = [inodes EXCEPT ![i] = Overlay(inodes[i], pos, chunk)]
      /\ cache' = cache /\ disk' = disk
  BY DEF FilesOK, WriteChunk
<1> DEFINE o == Overlay(inodes[i], pos, chunk)
<1>2. o \in Seq(Chunks) /\ Len(o) >= Len(inodes[i]) /\ Len(o) >= pos + 1
  BY <1>1, OverlayTyped
<1> HIDE DEF o
<1>3. inodes' = [inodes EXCEPT ![i] = o]
  BY <1>1 DEF o
<1>4. /\ inodes' \in Seq(Seq(Chunks)) /\ DOMAIN inodes' = DOMAIN inodes
      /\ Len(inodes') = Len(inodes) /\ inodes'[i] = o
      /\ \A j \in DOMAIN inodes : j # i => inodes'[j] = inodes[j]
  BY <1>1, <1>2, <1>3
<1>5. FilesOK'
  BY <1>1, <1>4 DEF FilesOK
<1>6. \A j \in DOMAIN inodes : Len(inodes[j]) \in Nat
  BY <1>1
<1>7. ASSUME NEW j \in DOMAIN inodes PROVE Len(inodes[j]) <= Len(inodes'[j])
  <2>1. CASE j = i
    BY <2>1, <1>2, <1>4
  <2>2. CASE j # i
    BY <2>2, <1>4, <1>6
  <2> QED
    BY <2>1, <2>2
<1>8. InodesGrow
  BY <1>1, <1>4, <1>7 DEF InodesGrow
<1> QED
  BY <1>1, <1>2, <1>4, <1>5, <1>8

\* What every operation of the cache does: keys with a count stay, files go
\* only when nobody counts.
CacheStep ==
    /\ CacheOK' /\ FilesOK' /\ InodesGrow /\ inodes' = inodes
    /\ DOMAIN disk' \subseteq DOMAIN disk
    /\ \A k \in DOMAIN disk' : disk'[k] = disk[k]

LEMMA PutEffect ==
    ASSUME CacheOK, FilesOK, NEW k \in Keys, Put(k)
    PROVE  /\ CacheStep /\ OnlyIdleGone
           /\ DOMAIN cache'.clients = DOMAIN cache.clients \cup {k}
           /\ \A j \in DOMAIN cache.clients : cache'.clients[j] = cache.clients[j]
           /\ k \notin DOMAIN cache.clients => cache'.clients[k] = 0
           /\ DOMAIN cache'.entries \subseteq DOMAIN cache.entries \cup {k}
           /\ \A j \in DOMAIN disk : j \notin DOMAIN disk' => j \in DOMAIN cache.entries
<1> DEFINE clients == IF k \in DOMAIN cache.clients THEN cache.clients
                      ELSE With(cache.clients, k, 0)
           size == cache.size + FileLength(k)
           counted == [cache EXCEPT
                         !.clients = IF k \in DOMAIN @ THEN @ ELSE With(@, k, 0),
                         !.size = @ + FileLength(k)]
           stale == IF k.fd = Shared THEN StaleEntries(counted, k) ELSE {}
           gone == stale \cup Evicted(counted, stale)
<1>1. /\ cache' = [Dropped(counted, gone) EXCEPT !.entries = Used(@, k)]
      /\ disk' = Without(disk, gone) /\ inodes' = inodes
  BY DEF Put
<1>2. counted = [entries |-> cache.entries, clients |-> clients, size |-> size]
  <2>1. counted = [cache EXCEPT !.clients = clients, !.size = size]
    OBVIOUS
  <2> HIDE DEF counted, clients, size
  <2>2. cache = [entries |-> cache.entries, clients |-> cache.clients, size |-> cache.size]
    BY DEF CacheOK
  <2>3. [cache EXCEPT !.clients = clients, !.size = size]
          = [entries |-> cache.entries, clients |-> clients, size |-> size]
    BY <2>2, ClientsAndSize
  <2> QED
    BY <2>1, <2>3
<1>3. size \in Int
  BY LengthTyped DEF CacheOK
<1>4. /\ clients \in [DOMAIN cache.clients \cup {k} -> Nat]
      /\ DOMAIN clients = DOMAIN cache.clients \cup {k}
      /\ \A j \in DOMAIN cache.clients : clients[j] = cache.clients[j]
      /\ k \notin DOMAIN cache.clients => clients[k] = 0
  <2>1. CASE k \in DOMAIN cache.clients
    <3>1. DOMAIN cache.clients \cup {k} = DOMAIN cache.clients
      BY <2>1
    <3> QED
      BY <2>1, <3>1 DEF CacheOK
  <2>2. CASE k \notin DOMAIN cache.clients
    BY <2>2 DEF CacheOK, With
  <2> QED
    BY <2>1, <2>2
<1> HIDE DEF clients, size, counted
<1>5. stale \subseteq DOMAIN cache.entries /\ \A j \in stale : clients[j] = 0
  BY <1>2 DEF StaleEntries, IdleEntry
<1> HIDE DEF stale
<1>6. /\ Evicted(counted, stale) \subseteq DOMAIN cache.entries
      /\ \A j \in Evicted(counted, stale) : clients[j] = 0
  BY <1>2 DEF Evicted, MayEvict, IdleEntry
<1> HIDE DEF gone
<1>7. gone \subseteq DOMAIN cache.entries /\ \A j \in gone : clients[j] = 0
  BY <1>5, <1>6 DEF gone
<1> DEFINE e == Left(cache.entries, gone)
           z == size - Total(gone)
<1>8. /\ Dropped(counted, gone) = [entries |-> e, clients |-> clients, size |-> z]
      /\ z \in Int /\ DOMAIN e = DOMAIN cache.entries \ gone /\ IsFiniteSet(DOMAIN e)
  <2>1. /\ counted = [entries |-> counted.entries, clients |-> counted.clients,
                      size |-> counted.size]
        /\ counted.entries = cache.entries /\ counted.clients = clients
        /\ counted.size = size
    BY <1>2
  <2>2. IsFiniteSet(DOMAIN counted.entries) /\ counted.size \in Int
           /\ gone \in SUBSET DOMAIN counted.entries
    BY <2>1, <1>3, <1>7 DEF CacheOK
  <2>3. /\ Dropped(counted, gone) = [entries |-> Left(counted.entries, gone),
                                     clients |-> counted.clients,
                                     size |-> counted.size - Total(gone)]
        /\ counted.size - Total(gone) \in Int
        /\ DOMAIN Left(counted.entries, gone) = DOMAIN counted.entries \ gone
        /\ IsFiniteSet(DOMAIN Left(counted.entries, gone))
    BY <2>1, <2>2, DroppedTyped
  <2> QED
    BY <2>1, <2>3
<1> HIDE DEF e, z
<1>9. cache' = [entries |-> Used(e, k), clients |-> clients, size |-> z]
  BY <1>1, <1>8
<1>10. /\ Used(e, k) \in [DOMAIN e \cup {k} -> Nat] /\ DOMAIN Used(e, k) = DOMAIN e \cup {k}
       /\ IsFiniteSet(DOMAIN Used(e, k))
  BY <1>8, UsedTyped
<1>11. CacheOK'
  <2>1. /\ cache'.entries = Used(e, k) /\ cache'.clients = clients /\ cache'.size = z
    BY <1>9
  <2>2. DOMAIN Used(e, k) \subseteq DOMAIN clients
    BY <1>4, <1>8, <1>10 DEF CacheOK
  <2>3. DOMAIN clients \subseteq Keys
    BY <1>4 DEF CacheOK
  <2>4. cache'.entries \in [DOMAIN cache'.entries -> Nat]
    BY <2>1, <1>10
  <2>5. cache'.clients \in [DOMAIN cache'.clients -> Nat]
    BY <2>1, <1>4
  <2> QED
    BY <1>9, <1>8, <1>10, <2>1, <2>2, <2>3, <2>4, <2>5 DEF CacheOK
<1>12. FilesOK' /\ InodesGrow /\ DOMAIN disk' = DOMAIN disk \ gone
          /\ \A j \in DOMAIN disk' : disk'[j] = disk[j]
  BY <1>1, WithoutFiles
<1>13. OnlyIdleGone
  BY <1>7, <1>9, <1>12 DEF OnlyIdleGone
<1>14. DOMAIN cache'.entries \subseteq DOMAIN cache.entries \cup {k}
  BY <1>8, <1>9, <1>10
<1> QED
  BY <1>1, <1>4, <1>7, <1>9, <1>11, <1>12, <1>13, <1>14 DEF CacheStep

LEMMA AddEffect ==
    ASSUME CacheOK, FilesOK, NEW k, AddClient(k)
    PROVE  /\ CacheStep /\ disk' = disk
           /\ DOMAIN cache'.clients = DOMAIN cache.clients
           /\ \A j \in DOMAIN cache.clients :
                cache'.clients[j] = IF j = k THEN cache.clients[j] + 1
                                    ELSE cache.clients[j]
<1> DEFINE clients == [cache.clients EXCEPT ![k] = @ + 1]
<1>1. cache' = [cache EXCEPT !.clients = clients] /\ disk' = disk /\ inodes' = inodes
  BY DEF AddClient
<1>2. /\ clients \in [DOMAIN cache.clients -> Nat] /\ DOMAIN clients = DOMAIN cache.clients
      /\ \A j \in DOMAIN cache.clients :
           clients[j] = IF j = k THEN cache.clients[j] + 1 ELSE cache.clients[j]
  <2>1. cache.clients \in [DOMAIN cache.clients -> Nat]
    BY DEF CacheOK
  <2>2. k \in DOMAIN cache.clients => cache.clients[k] + 1 \in Nat
    BY <2>1
  <2>3. DOMAIN clients = DOMAIN cache.clients
    BY <2>1
  <2>4. \A j \in DOMAIN cache.clients :
           clients[j] = IF j = k THEN cache.clients[j] + 1 ELSE cache.clients[j]
    BY <2>1
  <2> QED
    BY <2>1, <2>2, <2>3, <2>4
<1> HIDE DEF clients
<1>3. cache' = [entries |-> cache.entries, clients |-> clients, size |-> cache.size]
  BY <1>1 DEF CacheOK
<1>4. CacheOK'
  BY <1>2, <1>3 DEF CacheOK
<1>5. \A i \in DOMAIN inodes : inodes[i] \in Seq(Chunks)
  BY DEF FilesOK
<1>6. FilesOK' /\ InodesGrow
  BY <1>1, <1>5 DEF FilesOK, InodesGrow
<1> QED
  BY <1>1, <1>2, <1>3, <1>4, <1>6 DEF CacheStep

LEMMA OneLess ==
    ASSUME NEW n \in Nat
    PROVE  /\ OneClientLess(n) \in Nat
           /\ n # 0 => OneClientLess(n) = n - 1
  BY DEF OneClientLess

LEMMA TouchedTyped ==
    ASSUME CacheOK, NEW k
    PROVE  /\ Touched(cache, k) = [entries |-> Touched(cache, k).entries,
                                   clients |-> cache.clients, size |-> cache.size]
           /\ IsFiniteSet(DOMAIN Touched(cache, k).entries)
           /\ Touched(cache, k).entries \in [DOMAIN cache.entries -> Nat]
           /\ DOMAIN Touched(cache, k).entries = DOMAIN cache.entries
<1>1. CASE k \in DOMAIN cache.entries
  <2>1. Touched(cache, k) = [entries |-> Used(cache.entries, k),
                             clients |-> cache.clients, size |-> cache.size]
    BY <1>1 DEF Touched, CacheOK
  <2>2. DOMAIN cache.entries \cup {k} = DOMAIN cache.entries
    BY <1>1
  <2>3. /\ Used(cache.entries, k) \in [DOMAIN cache.entries -> Nat]
        /\ DOMAIN Used(cache.entries, k) = DOMAIN cache.entries
        /\ IsFiniteSet(DOMAIN Used(cache.entries, k))
    BY <2>2, UsedTyped DEF CacheOK
  <2> QED
    BY <2>1, <2>3
<1>2. CASE k \notin DOMAIN cache.entries
  BY <1>2 DEF Touched, CacheOK
<1> QED
  BY <1>1, <1>2

\* The count of k goes down by one.
CountedDown(k) ==
    /\ DOMAIN cache'.clients = DOMAIN cache.clients
    /\ \A j \in DOMAIN cache.clients :
         cache'.clients[j] = IF j = k THEN OneClientLess(cache.clients[j])
                             ELSE cache.clients[j]

LEMMA CountDown ==
    ASSUME CacheOK, NEW k, NEW clients,
           clients = [cache.clients EXCEPT ![k] = OneClientLess(@)]
    PROVE  /\ clients \in [DOMAIN cache.clients -> Nat]
           /\ DOMAIN clients = DOMAIN cache.clients
           /\ \A j \in DOMAIN cache.clients :
                clients[j] = IF j = k THEN OneClientLess(cache.clients[j])
                             ELSE cache.clients[j]
<1>1. cache.clients \in [DOMAIN cache.clients -> Nat]
  BY DEF CacheOK
<1>2. k \in DOMAIN cache.clients => OneClientLess(cache.clients[k]) \in Nat
  BY <1>1, OneLess
<1>3. DOMAIN clients = DOMAIN cache.clients
  BY <1>1
<1>4. \A j \in DOMAIN cache.clients :
        clients[j] = IF j = k THEN OneClientLess(cache.clients[j]) ELSE cache.clients[j]
  BY <1>1
<1> QED
  BY <1>1, <1>2, <1>3, <1>4

LEMMA RemoveReaderEffect ==
    ASSUME CacheOK, FilesOK, NEW k, RemoveReader(k)
    PROVE  CacheStep /\ OnlyIdleGone /\ CountedDown(k) /\ NoNewEntry
<1> DEFINE clients == [cache.clients EXCEPT ![k] = OneClientLess(@)]
           touched == Touched(cache, k)
           left == [touched EXCEPT !.clients[k] = OneClientLess(@)]
           stale == StaleEntries(left, k)
           e == Left(left.entries, stale)
           z == left.size - Total(stale)
<1>1. cache' = Dropped(left, stale) /\ disk' = Without(disk, stale) /\ inodes' = inodes
  BY DEF RemoveReader
<1>2. /\ touched = [entries |-> touched.entries, clients |-> cache.clients,
                    size |-> cache.size]
      /\ IsFiniteSet(DOMAIN touched.entries)
      /\ touched.entries \in [DOMAIN cache.entries -> Nat]
      /\ DOMAIN touched.entries = DOMAIN cache.entries
  BY TouchedTyped
<1>3. left = [entries |-> touched.entries, clients |-> clients, size |-> cache.size]
  <2> HIDE DEF touched
  <2>1. touched.clients = cache.clients
    BY <1>2
  <2>2. left = [touched EXCEPT !.clients = clients]
    BY <2>1
  <2> QED
    BY <1>2, <2>2
<1>4. /\ clients \in [DOMAIN cache.clients -> Nat]
      /\ DOMAIN clients = DOMAIN cache.clients
      /\ \A j \in DOMAIN cache.clients :
           clients[j] = IF j = k THEN OneClientLess(cache.clients[j])
                        ELSE cache.clients[j]
  BY CountDown
<1> HIDE DEF clients, touched, left
<1>5. stale \in SUBSET DOMAIN left.entries /\ \A j \in stale : clients[j] = 0
  BY <1>3 DEF StaleEntries, IdleEntry
<1> HIDE DEF stale
<1>6. /\ cache' = [entries |-> e, clients |-> left.clients, size |-> z]
      /\ z \in Int
      /\ e \in [DOMAIN left.entries \ stale -> Nat]
      /\ DOMAIN e = DOMAIN left.entries \ stale
      /\ IsFiniteSet(DOMAIN e)
  <2>1. /\ left = [entries |-> left.entries, clients |-> left.clients,
                   size |-> left.size]
        /\ IsFiniteSet(DOMAIN left.entries) /\ left.size \in Int
    BY <1>2, <1>3 DEF CacheOK
  <2> QED
    BY <1>1, <1>5, <2>1, DroppedTyped
<1> HIDE DEF e, z
<1>7. /\ cache' = [entries |-> e, clients |-> clients, size |-> z]
      /\ DOMAIN e \subseteq DOMAIN cache.entries
      /\ e \in [DOMAIN e -> Nat]
  BY <1>2, <1>3, <1>6
<1>8. CacheOK'
  <2>1. cache'.entries = e /\ cache'.clients = clients /\ cache'.size = z
    BY <1>7
  <2>2. cache'.clients \in [DOMAIN cache'.clients -> Nat]
    BY <2>1, <1>4
  <2>3. cache'.entries \in [DOMAIN cache'.entries -> Nat]
    BY <2>1, <1>7
  <2>4. DOMAIN e \subseteq DOMAIN clients /\ DOMAIN clients \subseteq Keys
    BY <1>4, <1>7 DEF CacheOK
  <2> QED
    BY <1>6, <1>7, <2>1, <2>2, <2>3, <2>4 DEF CacheOK
<1>9. FilesOK' /\ InodesGrow /\ DOMAIN disk' = DOMAIN disk \ stale
          /\ \A j \in DOMAIN disk' : disk'[j] = disk[j]
  BY <1>1, WithoutFiles
<1>10. OnlyIdleGone
  BY <1>5, <1>7, <1>9 DEF OnlyIdleGone
<1>11. CountedDown(k)
  BY <1>4, <1>7 DEF CountedDown
<1> QED
  BY <1>1, <1>7, <1>8, <1>9, <1>10, <1>11 DEF CacheStep, NoNewEntry

LEMMA RemoveWriterEffect ==
    ASSUME CacheOK, FilesOK, NEW k, RemoveWriter(k)
    PROVE  /\ CacheStep /\ CountedDown(k) /\ NoNewEntry
           /\ DOMAIN disk' = DOMAIN disk \ {k}
<1> DEFINE clients == [cache.clients EXCEPT ![k] = OneClientLess(@)]
           e == Left(cache.entries, {k})
           z == cache.size - FileLength(k)
<1>1. /\ cache' = [cache EXCEPT !.clients = clients, !.entries = e, !.size = z]
      /\ disk' = Without(disk, {k}) /\ inodes' = inodes
  BY DEF RemoveWriter
<1>2. z \in Int
  BY LengthTyped DEF CacheOK
<1>3. /\ e \in [DOMAIN cache.entries \ {k} -> Nat]
      /\ DOMAIN e = DOMAIN cache.entries \ {k} /\ IsFiniteSet(DOMAIN e)
  BY LeftTyped DEF CacheOK
<1>4. /\ clients \in [DOMAIN cache.clients -> Nat]
      /\ DOMAIN clients = DOMAIN cache.clients
      /\ \A j \in DOMAIN cache.clients :
           clients[j] = IF j = k THEN OneClientLess(cache.clients[j])
                        ELSE cache.clients[j]
  BY CountDown
<1> HIDE DEF clients, e, z
<1>5. cache' = [entries |-> e, clients |-> clients, size |-> z]
  <2> DEFINE d == [cache EXCEPT !.clients = clients]
  <2>1. d = [entries |-> cache.entries, clients |-> clients, size |-> cache.size]
    BY DEF CacheOK
  <2>2. cache' = [d EXCEPT !.entries = e, !.size = z]
    BY <1>1
  <2> HIDE DEF d
  <2>3. [d EXCEPT !.entries = e, !.size = z]
          = [entries |-> e, clients |-> d.clients, size |-> z]
    <3>1. d = [entries |-> d.entries, clients |-> d.clients, size |-> d.size]
      BY <2>1
    <3> QED
      BY <3>1, EntriesAndSize
  <2> QED
    BY <2>1, <2>2, <2>3
<1>6. CacheOK'
  <2>1. cache'.entries = e /\ cache'.clients = clients /\ cache'.size = z
    BY <1>5
  <2>2. cache'.clients \in [DOMAIN cache'.clients -> Nat]
    BY <2>1, <1>4
  <2>3. cache'.entries \in [DOMAIN cache'.entries -> Nat]
    BY <2>1, <1>3
  <2>4. DOMAIN e \subseteq DOMAIN clients /\ DOMAIN clients \subseteq Keys
    BY <1>3, <1>4 DEF CacheOK
  <2> QED
    BY <1>2, <1>3, <1>5, <2>1, <2>2, <2>3, <2>4 DEF CacheOK
<1>7. FilesOK' /\ InodesGrow /\ DOMAIN disk' = DOMAIN disk \ {k}
          /\ \A j \in DOMAIN disk' : disk'[j] = disk[j]
  BY <1>1, WithoutFiles
<1>8. CountedDown(k)
  BY <1>4, <1>5 DEF CountedDown
<1> QED
  BY <1>1, <1>3, <1>5, <1>6, <1>7, <1>8 DEF CacheStep, NoNewEntry

LEMMA DropStaleEffect ==
    ASSUME CacheOK, FilesOK, NEW victims, DropStale(victims)
    PROVE  /\ CacheStep /\ cache'.clients = cache.clients /\ NoNewEntry
           /\ \A k \in DOMAIN disk : k \notin DOMAIN disk' => k \in victims
<1> DEFINE there == victims \cap DOMAIN cache.entries
           e == Left(cache.entries, there)
           z == cache.size - Total(there)
<1>1. cache' = Dropped(cache, there) /\ disk' = Without(disk, there) /\ inodes' = inodes
  BY DEF DropStale
<1>2. there \in SUBSET DOMAIN cache.entries
  OBVIOUS
<1> HIDE DEF there
<1>3. /\ cache' = [entries |-> e, clients |-> cache.clients, size |-> z]
      /\ z \in Int
      /\ e \in [DOMAIN cache.entries \ there -> Nat]
      /\ DOMAIN e = DOMAIN cache.entries \ there
      /\ IsFiniteSet(DOMAIN e)
  <2>1. /\ cache = [entries |-> cache.entries, clients |-> cache.clients,
                   size |-> cache.size]
        /\ IsFiniteSet(DOMAIN cache.entries) /\ cache.size \in Int
    BY DEF CacheOK
  <2> QED
    BY <1>1, <1>2, <2>1, DroppedTyped
<1> HIDE DEF e, z
<1>4. CacheOK'
  <2>1. cache'.entries = e /\ cache'.clients = cache.clients /\ cache'.size = z
    BY <1>3
  <2>2. cache'.clients \in [DOMAIN cache'.clients -> Nat]
    BY <2>1 DEF CacheOK
  <2>3. cache'.entries \in [DOMAIN cache'.entries -> Nat]
    BY <2>1, <1>3
  <2>4. DOMAIN e \subseteq DOMAIN cache.clients
    BY <1>3 DEF CacheOK
  <2>5. DOMAIN cache'.clients \subseteq Keys
    BY <2>1 DEF CacheOK
  <2> QED
    BY <1>3, <2>1, <2>2, <2>3, <2>4, <2>5 DEF CacheOK
<1>5. FilesOK' /\ InodesGrow /\ DOMAIN disk' = DOMAIN disk \ there
          /\ \A j \in DOMAIN disk' : disk'[j] = disk[j]
  BY <1>1, WithoutFiles
<1>6. cache'.clients = cache.clients /\ cache'.entries = e
  BY <1>3
<1>7. CacheStep /\ NoNewEntry
  <2>1. DOMAIN cache'.entries \subseteq DOMAIN cache.entries
    BY <1>3, <1>6
  <2> QED
    BY <1>1, <1>4, <1>5, <1>6, <2>1 DEF CacheStep, NoNewEntry
<1>8. \A k \in DOMAIN disk : k \notin DOMAIN disk' => k \in victims
  <2>1. there \subseteq victims
    BY DEF there
  <2> QED
    BY <1>5, <2>1
<1> QED
  BY <1>6, <1>7, <1>8

\* Server.java keeps its tables whatever is called.
LEMMA ExistsKeeps ==
    ASSUME ServerOK, NEW p \in Paths, serverExists(p)
    PROVE  ServerOK' /\ VersionFound(p) \in Nat
<1>1. /\ served' = served
      /\ max_versions' = IF p \in DOMAIN served THEN Versioned(p) ELSE max_versions
  BY DEF serverExists
<1>2. DOMAIN Versioned(p) \subseteq Paths /\ Versioned(p) \in [DOMAIN Versioned(p) -> Nat \ {0}]
         /\ p \in DOMAIN Versioned(p)
  <2>1. CASE p \in DOMAIN max_versions
    BY <2>1 DEF Versioned, ServerOK
  <2>2. CASE p \notin DOMAIN max_versions
    <3>1. FirstVersion \in Nat \ {0}
      BY DEF FirstVersion
    <3>2. Versioned(p) = With(max_versions, p, FirstVersion)
      BY <2>2 DEF Versioned
    <3>3. With(max_versions, p, FirstVersion) \in [DOMAIN max_versions \cup {p} -> Nat \ {0}]
      BY <3>1 DEF With, ServerOK
    <3> QED
      BY <3>2, <3>3 DEF ServerOK
  <2> QED
    BY <2>1, <2>2
<1>3. ServerOK'
  BY <1>1, <1>2 DEF ServerOK
<1>4. VersionFound(p) \in Nat
  BY <1>2 DEF VersionFound
<1> QED
  BY <1>3, <1>4

LEMMA CreateKeeps ==
    ASSUME ServerOK, NEW p \in Paths, createFile(p)
    PROVE  ServerOK'
<1>1. <<>> \in Seq(Chunks)
  OBVIOUS
<1>2. CASE p \in DOMAIN served
  BY <1>2 DEF ServerOK, createFile
<1>3. CASE p \notin DOMAIN served
  <2>1. served' = With(served, p, <<>>) /\ max_versions' = max_versions
    BY <1>3 DEF createFile
  <2>2. served' \in [DOMAIN served \cup {p} -> Seq(Chunks)]
    BY <1>1, <2>1 DEF With, ServerOK
  <2> QED
    BY <2>1, <2>2 DEF ServerOK
<1> QED
  BY <1>2, <1>3

LEMMA UpdateKeeps ==
    ASSUME ServerOK, NEW p \in Paths, NEW pos \in Nat, NEW chunk \in Chunks,
           updateFile(p, pos, chunk)
    PROVE  ServerOK'
<1> DEFINE content == IF p \in DOMAIN served THEN served[p] ELSE <<>>
           o == Overlay(content, pos, chunk)
<1>1. /\ served' = With(served, p, o)
      /\ max_versions' = IF p \in DOMAIN max_versions
                         THEN [max_versions EXCEPT ![p] = NextVersion(@)]
                         ELSE max_versions
  BY DEF updateFile, Bumps
<1>2. content \in Seq(Chunks)
  BY DEF ServerOK
<1> HIDE DEF content
<1>3. o \in Seq(Chunks)
  BY <1>2, OverlayTyped
<1> HIDE DEF o
<1>4. served' \in [DOMAIN served \cup {p} -> Seq(Chunks)]
  BY <1>1, <1>3 DEF With, ServerOK
<1>5. max_versions' \in [DOMAIN max_versions -> Nat \ {0}]
  <2>1. p \in DOMAIN max_versions => NextVersion(max_versions[p]) \in Nat \ {0}
    BY DEF NextVersion, ServerOK
  <2> QED
    BY <1>1, <2>1 DEF ServerOK
<1> QED
  BY <1>4, <1>5 DEF ServerOK

LEMMA DeleteKeeps ==
    ASSUME ServerOK, NEW p, deleteFile(p)
    PROVE  ServerOK'
<1>1. served' = Without(served, {p}) /\ max_versions' = max_versions
  BY DEF deleteFile
<1>2. served' \in [DOMAIN served \ {p} -> Seq(Chunks)]
  BY <1>1 DEF Without, ServerOK
<1> QED
  BY <1>1, <1>2 DEF ServerOK

-----------------------------------------------------------------------------
(* The type invariant                                                      *)

OpenOps == {"READ", "WRITE", "CREATE", "CREATE_NEW"}
TakingFd == {"lock", "length", "fetch", "count", "unlock", "fd", "bump"}
UsingFd == {"reader", "writer", "copy", "own"}
Scanning == {"scan", "drop"}
Ending == {"put", "lengths", "send", "store", "settle", "release"}
Resting == {"idle", "dead"}

Locals == [pc : Resting \cup TakingFd \cup UsingFd \cup Scanning \cup Ending,
           op : OpenOps \cup {"none", "CLOSE"}, path : Paths \cup {"none"},
           ver : Nat, fd : Fds \cup {Shared}, raf : Nat, copy : Nat, pos : Nat,
           len : Nat, old : Int, victims : SUBSET Keys]
Names == [path : Paths, ver : Nat, write : BOOLEAN]

\* The locals of a thread go with where it is: the call, its file and its
\* descriptor, and the inodes it copies from and to, which are long enough.
LocalOK(l) ==
    /\ l \in Locals
    /\ l.pc \in Resting => l.op = "none"
    /\ l.pc \notin Resting => l.path \in Paths
    /\ l.pc \in TakingFd \cup UsingFd => l.op \in OpenOps
    /\ l.pc \in {"writer", "copy", "own"} => l.op # "READ"
    /\ l.pc \in {"count", "reader"} => l.op = "READ"
    /\ l.pc \in Scanning => l.op \in {"READ", "CLOSE"}
    /\ l.pc \in Ending => l.op = "CLOSE"
    /\ l.pc = "bump" \/ l.pc \in UsingFd \/ l.op = "CLOSE" => l.fd \in Fds
    /\ l.pc \in {"fetch", "writer", "copy", "send", "store"} => l.raf \in DOMAIN inodes
    /\ l.pc \in {"unlock", "fd", "bump"} /\ l.op # "READ" => l.raf \in DOMAIN inodes
    /\ l.pc = "copy" \/ l.op = "CLOSE" => l.copy \in DOMAIN inodes
    /\ l.pc = "copy" => l.len <= Len(inodes[l.raf])
    /\ l.pc \in {"send", "store"} => l.len <= Len(inodes[l.copy])
    /\ l.pc = "store" => l.pos < l.len
    /\ l.raf \in 0..Len(inodes) /\ l.copy \in 0..Len(inodes)

ThreadsOK ==
    /\ th \in [Threads -> Locals]
    /\ \A t \in Threads : LocalOK(th[t])

TablesOK ==
    /\ opened \in [Threads -> SUBSET Fds]
    /\ DOMAIN fd_paths \subseteq Fds
    /\ fd_paths \in [DOMAIN fd_paths -> Names]
    /\ DOMAIN fd_files \subseteq Fds
    /\ fd_files \in [DOMAIN fd_files -> DOMAIN inodes]
    /\ \A fd \in DOMAIN fd_paths : fd_paths[fd].write => fd \in DOMAIN fd_files
    /\ cache_lock \subseteq Threads

\* There are descriptors for all who still take one.  Without a race the one
\* who is between reading curr_fd and raising it has it to itself.
Openers == {u \in Threads : Opening(u)}
FdsOK ==
    /\ curr_fd \in Nat /\ curr_fd >= FirstFd
    /\ Openers # {} => curr_fd + Cardinality(Openers) <= MaxFd + 1
    /\ \A t \in Threads : At(t, "bump") =>
         th[t].fd + Cardinality(Openers) <= MaxFd + 1
    /\ ~raced => \A t \in Threads : At(t, "bump") =>
         /\ th[t].fd = curr_fd
         /\ \A u \in Threads : At(u, "bump") => u = t

TypeInv == /\ ServerOK /\ CacheOK /\ FilesOK
           /\ ThreadsOK /\ TablesOK /\ FdsOK

LEMMA LocalsKept ==
    ASSUME FilesOK, FilesOK', InodesGrow, NEW l, LocalOK(l)
    PROVE  /\ l.raf \in DOMAIN inodes => l.raf \in DOMAIN inodes'
           /\ l.copy \in DOMAIN inodes => l.copy \in DOMAIN inodes'
           /\ l.raf \in 0..Len(inodes') /\ l.copy \in 0..Len(inodes')
           /\ \A i \in DOMAIN inodes : l.len <= Len(inodes[i]) => l.len <= Len(inodes'[i])
<1>1. inodes \in Seq(Seq(Chunks)) /\ inodes' \in Seq(Seq(Chunks))
  BY DEF FilesOK
<1>2. \A i \in DOMAIN inodes : Len(inodes[i]) \in Nat /\ Len(inodes'[i]) \in Nat
  BY <1>1 DEF InodesGrow
<1>3. l.len \in Nat /\ l.raf \in 0..Len(inodes) /\ l.copy \in 0..Len(inodes)
  BY DEF LocalOK, Locals
<1>4. \A i \in DOMAIN inodes : Len(inodes[i]) <= Len(inodes'[i])
  BY DEF InodesGrow
<1>5. \A i \in DOMAIN inodes : l.len <= Len(inodes[i]) => l.len <= Len(inodes'[i])
  BY <1>2, <1>3, <1>4
<1>6. l.raf \in 0..Len(inodes') /\ l.copy \in 0..Len(inodes')
  BY <1>1, <1>3 DEF InodesGrow
<1>7. DOMAIN inodes \subseteq DOMAIN inodes'
  BY DEF InodesGrow
<1> QED
  BY <1>5, <1>6, <1>7

\* A thread that does nothing keeps good locals while inodes grow.
LEMMA LocalStays ==
    ASSUME FilesOK, FilesOK', InodesGrow, NEW t, LocalOK(th[t]), th'[t] = th[t]
    PROVE  LocalOK(th[t])'
<1> DEFINE l == th[t]
<1>1. /\ l.raf \in DOMAIN inodes => l.raf \in DOMAIN inodes'
      /\ l.copy \in DOMAIN inodes => l.copy \in DOMAIN inodes'
      /\ l.raf \in 0..Len(inodes') /\ l.copy \in 0..Len(inodes')
      /\ \A i \in DOMAIN inodes : l.len <= Len(inodes[i]) => l.len <= Len(inodes'[i])
  BY LocalsKept
<1>0. l.pc = "copy" => l.raf \in DOMAIN inodes /\ l.len <= Len(inodes[l.raf])
  BY DEF LocalOK
<1>2. l.pc = "copy" => l.len <= Len(inodes'[l.raf])
  BY <1>0, <1>1
<1>3. l.pc \in {"send", "store"} => l.op = "CLOSE"
  BY DEF LocalOK, Ending
<1>4. l.pc \in {"send", "store"} => l.len <= Len(inodes'[l.copy])
  BY <1>1, <1>3 DEF LocalOK
<1> QED
  BY <1>1, <1>2, <1>4 DEF LocalOK

LEMMA TablesStay ==
    ASSUME TablesOK, InodesGrow, UNCHANGED <<opened, tables>>, cache_lock' \subseteq Threads
    PROVE  TablesOK'
<1>1. opened' = opened /\ fd_paths' = fd_paths /\ fd_files' = fd_files
  BY DEF tables
<1>2. fd_files \in [DOMAIN fd_files -> DOMAIN inodes']
  BY DEF TablesOK, InodesGrow
<1> QED
  BY <1>1, <1>2 DEF TablesOK

\* A step of t.
Acts(t) == th' = [th EXCEPT ![t] = th'[t]]

LEMMA ThreadsStay ==
    ASSUME ThreadsOK, FilesOK, FilesOK', InodesGrow, NEW t \in Threads, Acts(t),
           LocalOK(th[t])'
    PROVE  ThreadsOK'
<1>1. th'[t] \in Locals
  BY DEF LocalOK
<1>2. th' \in [Threads -> Locals]
  BY <1>1 DEF Acts, ThreadsOK
<1>3. ASSUME NEW u \in Threads, u # t PROVE LocalOK(th[u])'
  <2>1. th'[u] = th[u] /\ LocalOK(th[u])
    BY <1>3 DEF Acts, ThreadsOK
  <2> QED
    BY <2>1, LocalStays
<1> QED
  BY <1>2, <1>3 DEF ThreadsOK

-----------------------------------------------------------------------------
(* Every action keeps the type invariant                                   *)

LEMMA FilesRest ==
    ASSUME FilesOK, UNCHANGED <<disk, inodes>>
    PROVE  FilesOK' /\ InodesGrow
<1>1. \A i \in DOMAIN inodes : inodes[i] \in Seq(Chunks)
  BY DEF FilesOK
<1> QED
  BY <1>1 DEF FilesOK, InodesGrow

LEMMA CacheRests ==
    ASSUME CacheOK, FilesOK, UNCHANGED cacheVars
    PROVE  CacheOK' /\ FilesOK' /\ InodesGrow
  BY FilesRest DEF CacheOK, cacheVars

LEMMA ServerRests ==
    ASSUME ServerOK, UNCHANGED serverVars
    PROVE  ServerOK'
  BY DEF ServerOK, serverVars

\* The parts of TypeInv together, for a step of t.
LEMMA Together ==
    ASSUME TypeInv, NEW t \in Threads, Acts(t), ServerOK', CacheOK', FilesOK',
           InodesGrow, LocalOK(th[t])', TablesOK', FdsOK'
    PROVE  TypeInv'
  BY ThreadsStay DEF TypeInv

\* The keys a thread uses are keys of the cache.
LEMMA KeysOfThread ==
    ASSUME NEW l, LocalOK(l), l.pc \notin Resting
    PROVE  /\ Key(l.path, l.ver, Shared) \in Keys
           /\ Key(l.path, NewVersion(l.ver), Shared) \in Keys
           /\ Key(l.path, l.ver, l.fd) \in Keys
<1>1. l.path \in Paths /\ l.ver \in Nat /\ l.fd \in Fds \cup {Shared}
  BY DEF LocalOK, Locals
<1> QED
  BY <1>1 DEF Key, Keys, NewVersion

\* The locals of a thread that makes no call.
LEMMA IdleTyped == Idle \in Locals
  BY DEF Idle, Locals, Resting, Shared

LEMMA RestOK ==
    ASSUME FilesOK', NEW t, th'[t] \in {Idle, [Idle EXCEPT !.pc = "dead"]}
    PROVE  LocalOK(th[t])'
<1>1. Len(inodes') \in Nat
  BY DEF FilesOK
<1>2. /\ th'[t].pc \in Resting /\ th'[t].op = "none" /\ th'[t].raf = 0 /\ th'[t].copy = 0
      /\ th'[t] \in Locals
  <2>1. [Idle EXCEPT !.pc = "dead"] \in Locals
    BY IdleTyped DEF Locals, Resting
  <2> QED
    BY <2>1, IdleTyped DEF Idle, Resting
<1> QED
  BY <1>1, <1>2 DEF LocalOK, Resting, TakingFd, UsingFd, Scanning, Ending

\* What FdsOK asks for stays true when t takes no descriptor.
LEMMA FdsStay ==
    ASSUME FdsOK, ThreadsOK, NEW t \in Threads, Acts(t), curr_fd' = curr_fd,
           raced => raced', th'[t].pc # "bump", Opening(t)' => Opening(t)
    PROVE  FdsOK'
<1>1. \A u \in Threads : u # t => th'[u] = th[u]
  BY DEF Acts, ThreadsOK
<1>2. Openers' \subseteq Openers
  BY <1>1 DEF Openers, Opening
<1>3. IsFiniteSet(Openers)
  BY ProxyAssumption, FS_Subset DEF Openers
<1>4. Cardinality(Openers') \in Nat /\ Cardinality(Openers) \in Nat
         /\ Cardinality(Openers') <= Cardinality(Openers)
  BY <1>2, <1>3, FS_Subset, FS_CardinalityType
<1>5. \A u \in Threads : At(u, "bump")' => At(u, "bump") /\ th'[u] = th[u]
  BY <1>1 DEF At
<1>6. curr_fd \in Nat /\ MaxFd \in Nat
  BY ProxyAssumption DEF FdsOK
<1>7. Openers' # {} => curr_fd' + Cardinality(Openers') <= MaxFd + 1
  BY <1>2, <1>4, <1>6 DEF FdsOK
<1>8. ASSUME NEW u \in Threads, At(u, "bump")'
      PROVE  /\ th'[u].fd + Cardinality(Openers') <= MaxFd + 1
             /\ ~raced' => /\ th'[u].fd = curr_fd'
                           /\ \A w \in Threads : At(w, "bump")' => w = u
  <2>1. At(u, "bump") /\ th'[u] = th[u]
    BY <1>5, <1>8
  <2>2. th[u].fd \in Nat
    BY <2>1 DEF ThreadsOK, Locals, Shared, Fds, FirstFd
  <2>3. th'[u].fd + Cardinality(Openers') <= MaxFd + 1
    BY <2>1, <2>2, <1>4, <1>6 DEF FdsOK
  <2>4. ~raced => th[u].fd = curr_fd /\ \A w \in Threads : At(w, "bump") => w = u
    BY <2>1 DEF FdsOK
  <2> QED
    BY <2>1, <2>3, <2>4, <1>5
<1> QED
  BY <1>6, <1>7, <1>8 DEF FdsOK

\* A thread that only goes on to another point of its program.
LEMMA GoneOn ==
    ASSUME ThreadsOK, NEW t \in Threads, NEW pc, Go(t, pc),
           pc \in Resting \cup TakingFd \cup UsingFd \cup Scanning \cup Ending
    PROVE  /\ Acts(t) /\ th'[t] \in Locals
           /\ th'[t] = [th[t] EXCEPT !.pc = pc]
           /\ th'[t].pc = pc /\ th'[t].op = th[t].op /\ th'[t].path = th[t].path
           /\ th'[t].ver = th[t].ver /\ th'[t].fd = th[t].fd /\ th'[t].raf = th[t].raf
           /\ th'[t].copy = th[t].copy /\ th'[t].pos = th[t].pos
           /\ th'[t].len = th[t].len
<1>1. th[t] \in Locals
  BY DEF ThreadsOK
<1>2. th' = [th EXCEPT ![t] = [th[t] EXCEPT !.pc = pc]]
  BY DEF Go
<1>3. th'[t] = [th[t] EXCEPT !.pc = pc]
  BY <1>2 DEF ThreadsOK
<1>4. Acts(t)
  BY <1>2, <1>3 DEF Acts
<1> QED
  BY <1>1, <1>3, <1>4 DEF Locals

LEMMA OpenTypes ==
    ASSUME TypeInv, NEW t \in Threads, NEW p \in Paths, NEW o \in Modes[t],
           Open(t, p, o), raced => raced'
    PROVE  TypeInv'
<1> DEFINE r == [Idle EXCEPT !.pc = "lock", !.op = o, !.path = p,
                             !.ver = VersionFound(p)]
<1>1. /\ At(t, "idle") /\ curr_fd + Cardinality(Openers) \in Fds /\ ~raced
      /\ o # "UNLINK" /\ serverExists(p)
      /\ th' = [th EXCEPT ![t] = r]
      /\ UNCHANGED <<cacheVars, opened, tables, cache_lock>>
  BY DEF Open, Openers
<1>2. ServerOK' /\ VersionFound(p) \in Nat
  BY <1>1, ExistsKeeps DEF TypeInv
<1>3. CacheOK' /\ FilesOK' /\ InodesGrow
  BY <1>1, CacheRests DEF TypeInv
<1>4. o \in OpenOps
  BY <1>1, ProxyAssumption DEF OpenOps
<1>5. /\ r.pc = "lock" /\ r.op = o /\ r.path = p /\ r.ver = VersionFound(p)
      /\ r.fd = Shared /\ r.raf = 0 /\ r.copy = 0 /\ r.pos = 0 /\ r.len = 0 /\ r.old = 0
  BY DEF Idle
<1>11. r \in Locals
  BY <1>2, <1>4, IdleTyped DEF Locals, TakingFd
<1> HIDE DEF r
<1>6. th'[t] = r /\ Acts(t)
  BY <1>1 DEF TypeInv, ThreadsOK, Acts
<1>7. Len(inodes') \in Nat
  BY <1>3 DEF FilesOK
<1>8. LocalOK(th[t])'
  BY <1>4, <1>5, <1>11, <1>6, <1>7 DEF LocalOK, OpenOps, TakingFd, UsingFd, Scanning, Ending, Resting
<1>9. TablesOK'
  BY <1>1, <1>3, TablesStay DEF TypeInv, TablesOK
<1>10. FdsOK'
  <2>1. Openers' = Openers \cup {t} /\ t \notin Openers
    BY <1>1, <1>5, <1>6 DEF Openers, Opening, At, Acts, TypeInv, ThreadsOK
  <2>2. IsFiniteSet(Openers)
    BY ProxyAssumption, FS_Subset DEF Openers
  <2>3. Cardinality(Openers') = Cardinality(Openers) + 1 /\ Cardinality(Openers) \in Nat
    BY <2>1, <2>2, FS_AddElement, FS_CardinalityType
  <2>4. curr_fd' = curr_fd /\ curr_fd \in Nat /\ curr_fd >= FirstFd /\ MaxFd \in Nat
    BY <1>1, ProxyAssumption DEF tables, TypeInv, FdsOK
  <2>5. curr_fd' + Cardinality(Openers') <= MaxFd + 1
    BY <1>1, <2>3, <2>4 DEF Fds, FirstFd
  <2>6. \A u \in Threads : At(u, "bump")' <=> At(u, "bump")
    BY <1>1, <1>5, <1>6 DEF At, Acts, TypeInv, ThreadsOK
  <2>7. \A u \in Threads : At(u, "bump") => th'[u].fd = th[u].fd
    BY <1>1, <1>6 DEF At, Acts, TypeInv, ThreadsOK
  <2>8. \A u \in Threads : At(u, "bump") =>
           th[u].fd = curr_fd /\ \A w \in Threads : At(w, "bump") => w = u
    BY <1>1 DEF TypeInv, FdsOK
  <2>9. \A u \in Threads : At(u, "bump")' => th'[u].fd = curr_fd
    BY <2>6, <2>7, <2>8
  <2>10. \A u \in Threads : At(u, "bump")' =>
           \A w \in Threads : At(w, "bump")' => w = u
    BY <2>6, <2>8
  <2> QED
    BY <2>4, <2>5, <2>9, <2>10 DEF FdsOK
<1> QED
  BY <1>2, <1>3, <1>6, <1>8, <1>9, <1>10, Together

LEMMA OpenRefusedTypes ==
    ASSUME TypeInv, NEW t \in Threads, OpenRefused(t), raced => raced'
    PROVE  TypeInv'
<1>1. /\ At(t, "lock") /\ th' = [th EXCEPT ![t] = Idle]
      /\ UNCHANGED <<serverVars, cacheVars, opened, tables, cache_lock>>
  BY DEF OpenRefused, Return
<1>2. ServerOK' /\ CacheOK' /\ FilesOK' /\ InodesGrow
  BY <1>1, CacheRests, ServerRests DEF TypeInv
<1>3. th'[t] = Idle /\ Acts(t)
  BY <1>1 DEF TypeInv, ThreadsOK, Acts
<1>4. LocalOK(th[t])'
  BY <1>2, <1>3, RestOK
<1>9. TablesOK'
  BY <1>1, <1>2, TablesStay DEF TypeInv, TablesOK
<1>10. FdsOK'
  BY <1>1, <1>3, FdsStay DEF At, Idle, Opening, tables, TypeInv
<1> QED
  BY <1>2, <1>3, <1>4, <1>9, <1>10, Together

LEMMA UnlockTypes ==
    ASSUME TypeInv, NEW t \in Threads, Unlock(t), raced => raced'
    PROVE  TypeInv'
<1>1. /\ At(t, "unlock") /\ cache_lock' = {} /\ Go(t, "fd")
      /\ UNCHANGED <<serverVars, cacheVars, opened, tables>>
  BY DEF Unlock, Unlocked
<1>2. ServerOK' /\ CacheOK' /\ FilesOK' /\ InodesGrow
  BY <1>1, CacheRests, ServerRests DEF TypeInv
<1>3. /\ Acts(t) /\ th'[t] \in Locals /\ th'[t].pc = "fd" /\ th'[t].op = th[t].op
      /\ th'[t].path = th[t].path /\ th'[t].raf = th[t].raf /\ th'[t].copy = th[t].copy
  BY <1>1, GoneOn DEF TypeInv, TakingFd
<1>4. LocalOK(th[t])'
  <2>1. LocalOK(th[t]) /\ th[t].pc = "unlock"
    BY <1>1 DEF TypeInv, ThreadsOK, At
  <2>2. /\ th[t].raf \in DOMAIN inodes => th[t].raf \in DOMAIN inodes'
        /\ th[t].raf \in 0..Len(inodes') /\ th[t].copy \in 0..Len(inodes')
    BY <1>2, <2>1, LocalsKept DEF TypeInv
  <2> QED
    BY <1>3, <2>1, <2>2
    DEF LocalOK, Resting, TakingFd, UsingFd, Scanning, Ending, OpenOps
<1>5. TablesOK'
  BY <1>1, <1>2, TablesStay DEF TypeInv
<1>6. FdsOK'
  BY <1>1, <1>3, FdsStay DEF At, Opening, tables, TypeInv
<1> QED
  BY <1>2, <1>3, <1>4, <1>5, <1>6, Together

LEMMA TouchKeeps ==
    ASSUME CacheOK, NEW k, cache' = Touched(cache, k)
    PROVE  CacheOK' /\ cache'.clients = cache.clients /\ NoNewEntry
<1>1. /\ cache' = [entries |-> Touched(cache, k).entries,
                   clients |-> cache.clients, size |-> cache.size]
      /\ IsFiniteSet(DOMAIN Touched(cache, k).entries)
      /\ Touched(cache, k).entries \in [DOMAIN cache.entries -> Nat]
      /\ DOMAIN Touched(cache, k).entries = DOMAIN cache.entries
  BY TouchedTyped
<1>2. cache'.entries = Touched(cache, k).entries /\ cache'.clients = cache.clients
         /\ cache'.size = cache.size
  BY <1>1
<1>3. /\ IsFiniteSet(DOMAIN cache'.entries)
      /\ cache'.entries \in [DOMAIN cache'.entries -> Nat]
      /\ DOMAIN cache'.entries = DOMAIN cache.entries
  BY <1>1, <1>2
<1>4. /\ DOMAIN cache'.entries \subseteq DOMAIN cache'.clients
      /\ DOMAIN cache'.clients \subseteq Keys
      /\ cache'.clients \in [DOMAIN cache'.clients -> Nat] /\ cache'.size \in Int
  BY <1>2, <1>3 DEF CacheOK
<1>5. cache' = [entries |-> cache'.entries, clients |-> cache'.clients,
                size |-> cache'.size]
  BY <1>1
<1> QED
  BY <1>2, <1>3, <1>4, <1>5 DEF CacheOK, NoNewEntry

LEMMA OpenHitReadTypes ==
    ASSUME TypeInv, NEW t \in Threads, OpenHit(t), Reading(t), raced => raced'
    PROVE  TypeInv'
<1>1. /\ At(t, "lock") /\ Locked(t) /\ th[t].op = "READ"
      /\ cache' = Touched(cache, SharedKey(t)) /\ Go(t, "count")
      /\ UNCHANGED <<disk, inodes>> /\ UNCHANGED <<serverVars, opened, tables>>
  BY DEF OpenHit, Reading
<1>2. LocalOK(th[t]) /\ th[t] \in Locals
  BY DEF TypeInv, ThreadsOK
<1>3. ServerOK' /\ CacheOK' /\ FilesOK' /\ InodesGrow
  BY <1>1, TouchKeeps, FilesRest, ServerRests DEF TypeInv
<1>4. Acts(t) /\ th'[t] = [th[t] EXCEPT !.pc = "count"]
  BY <1>1 DEF TypeInv, ThreadsOK, Acts, Go
<1>5. /\ th'[t] \in Locals
      /\ th'[t].pc = "count" /\ th'[t].op = th[t].op /\ th'[t].path = th[t].path
      /\ th'[t].raf = th[t].raf /\ th'[t].copy = th[t].copy
  <2>1. [th[t] EXCEPT !.pc = "count"] \in Locals
    BY <1>2 DEF Locals, Resting, TakingFd, UsingFd, Scanning, Ending
  <2>2. /\ th'[t].pc = "count" /\ th'[t].op = th[t].op /\ th'[t].path = th[t].path
        /\ th'[t].raf = th[t].raf /\ th'[t].copy = th[t].copy
    BY <1>2, <1>4 DEF Locals
  <2> QED
    BY <1>4, <2>1, <2>2
<1>6. LocalOK(th[t])'
  <2>1. /\ th[t].raf \in DOMAIN inodes => th[t].raf \in DOMAIN inodes'
        /\ th[t].copy \in DOMAIN inodes => th[t].copy \in DOMAIN inodes'
        /\ th[t].raf \in 0..Len(inodes') /\ th[t].copy \in 0..Len(inodes')
        /\ \A i \in DOMAIN inodes : th[t].len <= Len(inodes[i]) => th[t].len <= Len(inodes'[i])
    BY <1>2, <1>3, LocalsKept DEF TypeInv
  <2> QED
    BY <1>1, <1>2, <1>5, <2>1
    DEF LocalOK, At, Resting, TakingFd, UsingFd, Scanning, Ending, OpenOps
<1>7. TablesOK'
  BY <1>1, <1>3, TablesStay DEF TypeInv, TablesOK, Locked, Unlocked
<1>8. FdsOK'
  BY <1>1, <1>4, <1>5, FdsStay DEF At, Opening, tables, TypeInv
<1> QED
  BY <1>3, <1>4, <1>6, <1>7, <1>8, Together

LEMMA OpenHitWriteTypes ==
    ASSUME TypeInv, NEW t \in Threads, OpenHit(t), ~Reading(t), raced => raced'
    PROVE  TypeInv'
<1>1. /\ At(t, "lock") /\ Locked(t) /\ th[t].op # "READ"
      /\ cache' = Touched(cache, SharedKey(t)) /\ OpenFile(SharedKey(t))
      /\ th' = [th EXCEPT ![t].pc = "unlock", ![t].raf = InodeOf(SharedKey(t))]
      /\ UNCHANGED <<serverVars, opened, tables>>
  BY DEF OpenHit, Reading
<1>2. LocalOK(th[t]) /\ th[t] \in Locals
  BY DEF TypeInv, ThreadsOK
<1>9. SharedKey(t) \in Keys
  BY <1>1, <1>2, KeysOfThread DEF SharedKey, At, Resting
<1>10. FilesOK' /\ InodesGrow /\ InodeOf(SharedKey(t)) \in DOMAIN inodes'
  BY <1>1, <1>9, OpenFileEffect DEF TypeInv
<1>11. InodeOf(SharedKey(t)) \in Nat /\ InodeOf(SharedKey(t)) \in 0..Len(inodes')
  BY <1>10 DEF FilesOK
<1>3. ServerOK' /\ CacheOK' /\ FilesOK' /\ InodesGrow
  BY <1>1, <1>10, TouchKeeps, ServerRests DEF TypeInv
<1>4. Acts(t) /\ th'[t] = [th[t] EXCEPT !.pc = "unlock", !.raf = InodeOf(SharedKey(t))]
  BY <1>1 DEF TypeInv, ThreadsOK, Acts
<1>5. /\ th'[t] \in Locals
      /\ th'[t].pc = "unlock" /\ th'[t].op = th[t].op /\ th'[t].path = th[t].path
      /\ th'[t].raf = InodeOf(SharedKey(t)) /\ th'[t].copy = th[t].copy
  <2>1. [th[t] EXCEPT !.pc = "unlock", !.raf = InodeOf(SharedKey(t))] \in Locals
    BY <1>2, <1>11 DEF Locals, Resting, TakingFd, UsingFd, Scanning, Ending
  <2>2. /\ th'[t].pc = "unlock" /\ th'[t].op = th[t].op /\ th'[t].path = th[t].path
        /\ th'[t].raf = InodeOf(SharedKey(t)) /\ th'[t].copy = th[t].copy
    BY <1>2, <1>4 DEF Locals
  <2> QED
    BY <1>4, <2>1, <2>2
<1>6. LocalOK(th[t])'
  <2>1. /\ th[t].raf \in DOMAIN inodes => th[t].raf \in DOMAIN inodes'
        /\ th[t].copy \in DOMAIN inodes => th[t].copy \in DOMAIN inodes'
        /\ th[t].raf \in 0..Len(inodes') /\ th[t].copy \in 0..Len(inodes')
        /\ \A i \in DOMAIN inodes : th[t].len <= Len(inodes[i]) => th[t].len <= Len(inodes'[i])
    BY <1>2, <1>3, LocalsKept DEF TypeInv
  <2> QED
    BY <1>1, <1>2, <1>5, <2>1, <1>10, <1>11
    DEF LocalOK, At, Resting, TakingFd, UsingFd, Scanning, Ending, OpenOps
<1>7. TablesOK'
  BY <1>1, <1>3, TablesStay DEF TypeInv, TablesOK, Locked, Unlocked
<1>8. FdsOK'
  BY <1>1, <1>4, <1>5, FdsStay DEF At, Opening, tables, TypeInv
<1> QED
  BY <1>3, <1>4, <1>6, <1>7, <1>8, Together

LEMMA OpenMissTypes ==
    ASSUME TypeInv, NEW t \in Threads, OpenMiss(t), raced => raced'
    PROVE  TypeInv'
<1>1. /\ At(t, "lock") /\ Locked(t)
      /\ IF th[t].ver = 0 THEN createFile(th[t].path) ELSE UNCHANGED serverVars
      /\ th' = [th EXCEPT ![t].pc = "length", ![t].ver = IF @ = 0 THEN 1 ELSE @]
      /\ UNCHANGED <<cacheVars, opened, tables>>
  BY DEF OpenMiss
<1>2. LocalOK(th[t]) /\ th[t] \in Locals
  BY DEF TypeInv, ThreadsOK
<1>9. th[t].path \in Paths
  BY <1>1, <1>2 DEF At, LocalOK, Resting
<1>3. ServerOK' /\ CacheOK' /\ FilesOK' /\ InodesGrow
  BY <1>1, <1>9, CacheRests, ServerRests, CreateKeeps DEF TypeInv
<1>4. Acts(t) /\ th'[t] = [th[t] EXCEPT !.pc = "length", !.ver = IF @ = 0 THEN 1 ELSE @]
  BY <1>1 DEF TypeInv, ThreadsOK, Acts
<1>5. /\ th'[t] \in Locals
      /\ th'[t].pc = "length" /\ th'[t].op = th[t].op /\ th'[t].path = th[t].path
      /\ th'[t].raf = th[t].raf /\ th'[t].copy = th[t].copy
  <2>1. [th[t] EXCEPT !.pc = "length", !.ver = IF @ = 0 THEN 1 ELSE @] \in Locals
    <3> DEFINE v == IF th[t].ver = 0 THEN 1 ELSE th[t].ver
               pcs == Resting \cup TakingFd \cup UsingFd \cup Scanning \cup Ending
    <3>1. v \in Nat
      BY <1>2 DEF Locals
    <3>2. "length" \in pcs
      BY DEF TakingFd
    <3> HIDE DEF v, pcs
    <3>3. [th[t] EXCEPT !.pc = "length", !.ver = v] \in Locals
      BY <1>2, <3>1, <3>2 DEF Locals, pcs
    <3> QED
      BY <3>3 DEF v
  <2>2. /\ th'[t].pc = "length" /\ th'[t].op = th[t].op /\ th'[t].path = th[t].path
        /\ th'[t].raf = th[t].raf /\ th'[t].copy = th[t].copy
    BY <1>2, <1>4 DEF Locals
  <2> QED
    BY <1>4, <2>1, <2>2
<1>6. LocalOK(th[t])'
  <2>1. /\ th[t].raf \in DOMAIN inodes => th[t].raf \in DOMAIN inodes'
        /\ th[t].copy \in DOMAIN inodes => th[t].copy \in DOMAIN inodes'
        /\ th[t].raf \in 0..Len(inodes') /\ th[t].copy \in 0..Len(inodes')
        /\ \A i \in DOMAIN inodes : th[t].len <= Len(inodes[i]) => th[t].len <= Len(inodes'[i])
    BY <1>2, <1>3, LocalsKept DEF TypeInv
  <2> QED
    BY <1>1, <1>2, <1>5, <2>1
    DEF LocalOK, At, Resting, TakingFd, UsingFd, Scanning, Ending, OpenOps
<1>7. TablesOK'
  BY <1>1, <1>3, TablesStay DEF TypeInv, TablesOK, Locked, Unlocked
<1>8. FdsOK'
  BY <1>1, <1>4, <1>5, FdsStay DEF At, Opening, tables, TypeInv
<1> QED
  BY <1>3, <1>4, <1>6, <1>7, <1>8, Together

LEMMA FetchLengthTypes ==
    ASSUME TypeInv, NEW t \in Threads, FetchLength(t), raced => raced'
    PROVE  TypeInv'
<1>1. /\ At(t, "length")
      /\ OpenFile(SharedKey(t)) /\ createFile(th[t].path)
      /\ th' = [th EXCEPT ![t].pc = "fetch", ![t].raf = InodeOf(SharedKey(t)),
                          ![t].len = LengthOf(th[t].path)]
      /\ UNCHANGED <<cache, opened, tables, cache_lock>>
  BY DEF FetchLength, getFileLength
<1>2. LocalOK(th[t]) /\ th[t] \in Locals
  BY DEF TypeInv, ThreadsOK
<1>9. SharedKey(t) \in Keys /\ th[t].path \in Paths
  BY <1>1, <1>2, KeysOfThread DEF SharedKey, At, Resting, LocalOK
<1>10. FilesOK' /\ InodesGrow /\ InodeOf(SharedKey(t)) \in DOMAIN inodes'
  BY <1>1, <1>9, OpenFileEffect DEF TypeInv
<1>11. InodeOf(SharedKey(t)) \in Nat /\ InodeOf(SharedKey(t)) \in 0..Len(inodes')
  BY <1>10 DEF FilesOK
<1>12. LengthOf(th[t].path) \in Nat
  BY DEF LengthOf, TypeInv, ServerOK
<1>3. ServerOK' /\ CacheOK' /\ FilesOK' /\ InodesGrow
  BY <1>1, <1>9, <1>10, CreateKeeps DEF TypeInv, CacheOK
<1>4. Acts(t) /\ th'[t] = [th[t] EXCEPT !.pc = "fetch", !.raf = InodeOf(SharedKey(t)),
                                           !.len = LengthOf(th[t].path)]
  BY <1>1 DEF TypeInv, ThreadsOK, Acts
<1>5. /\ th'[t] \in Locals
      /\ th'[t].pc = "fetch" /\ th'[t].op = th[t].op /\ th'[t].path = th[t].path
      /\ th'[t].raf = InodeOf(SharedKey(t)) /\ th'[t].copy = th[t].copy
  <2>1. [th[t] EXCEPT !.pc = "fetch", !.raf = InodeOf(SharedKey(t)),
                                           !.len = LengthOf(th[t].path)] \in Locals
    BY <1>2, <1>11, <1>12 DEF Locals, Resting, TakingFd, UsingFd, Scanning, Ending
  <2>2. /\ th'[t].pc = "fetch" /\ th'[t].op = th[t].op /\ th'[t].path = th[t].path
        /\ th'[t].raf = InodeOf(SharedKey(t)) /\ th'[t].copy = th[t].copy
    BY <1>2, <1>4 DEF Locals
  <2> QED
    BY <1>4, <2>1, <2>2
<1>6. LocalOK(th[t])'
  <2>1. /\ th[t].raf \in DOMAIN inodes => th[t].raf \in DOMAIN inodes'
        /\ th[t].copy \in DOMAIN inodes => th[t].copy \in DOMAIN inodes'
        /\ th[t].raf \in 0..Len(inodes') /\ th[t].copy \in 0..Len(inodes')
        /\ \A i \in DOMAIN inodes : th[t].len <= Len(inodes[i]) => th[t].len <= Len(inodes'[i])
    BY <1>2, <1>3, LocalsKept DEF TypeInv
  <2> QED
    BY <1>1, <1>2, <1>5, <2>1, <1>10, <1>11
    DEF LocalOK, At, Resting, TakingFd, UsingFd, Scanning, Ending, OpenOps
<1>7. TablesOK'
  BY <1>1, <1>3, TablesStay DEF TypeInv, TablesOK, Locked, Unlocked
<1>8. FdsOK'
  BY <1>1, <1>4, <1>5, FdsStay DEF At, Opening, tables, TypeInv
<1> QED
  BY <1>3, <1>4, <1>6, <1>7, <1>8, Together

LEMMA FetchChunkTypes ==
    ASSUME TypeInv, NEW t \in Threads, FetchChunk(t), raced => raced'
    PROVE  TypeInv'
<1>1. /\ At(t, "fetch") /\ HasChunk(th[t].path, th[t].pos)
      /\ WriteChunk(th[t].raf, th[t].pos, served[th[t].path][th[t].pos + 1])
      /\ th' = [th EXCEPT ![t].pos = NextPos(@)]
      /\ UNCHANGED <<serverVars, opened, tables, cache_lock>>
  BY DEF FetchChunk
<1>2. LocalOK(th[t]) /\ th[t] \in Locals
  BY DEF TypeInv, ThreadsOK
<1>9. th[t].pos \in Nat /\ th[t].raf \in DOMAIN inodes
  BY <1>1, <1>2 DEF At, LocalOK, Locals
<1>10. served[th[t].path][th[t].pos + 1] \in Chunks
  <2>1. /\ served[th[t].path] \in Seq(Chunks)
        /\ th[t].pos < Len(served[th[t].path])
    BY <1>1 DEF HasChunk, TypeInv, ServerOK
  <2> QED
    BY <1>9, <2>1
<1>11. FilesOK' /\ InodesGrow /\ cache' = cache
  BY <1>1, <1>9, <1>10, WriteEffect DEF TypeInv
<1>3. ServerOK' /\ CacheOK' /\ FilesOK' /\ InodesGrow
  BY <1>1, <1>11, ServerRests DEF TypeInv, CacheOK
<1>4. Acts(t) /\ th'[t] = [th[t] EXCEPT !.pos = NextPos(@)]
  BY <1>1 DEF TypeInv, ThreadsOK, Acts
<1>5. /\ th'[t] \in Locals
      /\ th'[t].pc = th[t].pc /\ th'[t].op = th[t].op /\ th'[t].path = th[t].path
      /\ th'[t].raf = th[t].raf /\ th'[t].copy = th[t].copy
  <2>1. [th[t] EXCEPT !.pos = NextPos(@)] \in Locals
    BY <1>2 DEF Locals, Resting, TakingFd, UsingFd, Scanning, Ending, NextPos
  <2>2. /\ th'[t].pc = th[t].pc /\ th'[t].op = th[t].op /\ th'[t].path = th[t].path
        /\ th'[t].raf = th[t].raf /\ th'[t].copy = th[t].copy
    BY <1>2, <1>4 DEF Locals
  <2> QED
    BY <1>4, <2>1, <2>2
<1>6. LocalOK(th[t])'
  <2>1. /\ th[t].raf \in DOMAIN inodes => th[t].raf \in DOMAIN inodes'
        /\ th[t].copy \in DOMAIN inodes => th[t].copy \in DOMAIN inodes'
        /\ th[t].raf \in 0..Len(inodes') /\ th[t].copy \in 0..Len(inodes')
        /\ \A i \in DOMAIN inodes : th[t].len <= Len(inodes[i]) => th[t].len <= Len(inodes'[i])
    BY <1>2, <1>3, LocalsKept DEF TypeInv
  <2> QED
    BY <1>1, <1>2, <1>5, <2>1
    DEF LocalOK, At, Resting, TakingFd, UsingFd, Scanning, Ending, OpenOps
<1>7. TablesOK'
  BY <1>1, <1>3, TablesStay DEF TypeInv, TablesOK, Locked, Unlocked
<1>8. FdsOK'
  BY <1>1, <1>4, <1>5, FdsStay DEF At, Opening, tables, TypeInv
<1> QED
  BY <1>3, <1>4, <1>6, <1>7, <1>8, Together

LEMMA FetchFailsTypes ==
    ASSUME TypeInv, NEW t \in Threads, FetchFails(t), raced => raced'
    PROVE  TypeInv'
<1>1. /\ At(t, "fetch") /\ th' = [th EXCEPT ![t] = [Idle EXCEPT !.pc = "dead"]]
      /\ cache_lock' = {} /\ UNCHANGED <<serverVars, cacheVars, opened, tables>>
  BY DEF FetchFails, Die, Unlocked
<1>2. ServerOK' /\ CacheOK' /\ FilesOK' /\ InodesGrow
  BY <1>1, CacheRests, ServerRests DEF TypeInv
<1>3. th'[t] = [Idle EXCEPT !.pc = "dead"] /\ Acts(t)
  BY <1>1 DEF TypeInv, ThreadsOK, Acts
<1>4. LocalOK(th[t])'
  BY <1>2, <1>3, RestOK
<1>5. TablesOK'
  BY <1>1, <1>2, TablesStay DEF TypeInv
<1>6. FdsOK'
  BY <1>1, <1>3, FdsStay DEF At, Idle, Opening, tables, TypeInv
<1> QED
  BY <1>2, <1>3, <1>4, <1>5, <1>6, Together

LEMMA CachePutReadTypes ==
    ASSUME TypeInv, NEW t \in Threads, CachePut(t), Reading(t), raced => raced'
    PROVE  TypeInv'
<1>1. /\ At(t, "fetch") /\ th[t].op = "READ" /\ Put(SharedKey(t)) /\ Go(t, "count")
      /\ UNCHANGED <<serverVars, opened, tables, cache_lock>>
  BY DEF CachePut, Reading
<1>2. LocalOK(th[t]) /\ th[t] \in Locals
  BY DEF TypeInv, ThreadsOK
<1>9. SharedKey(t) \in Keys
  BY <1>1, <1>2, KeysOfThread DEF SharedKey, At, Resting
<1>3. ServerOK' /\ CacheOK' /\ FilesOK' /\ InodesGrow
  BY <1>1, <1>9, PutEffect, ServerRests DEF TypeInv, CacheStep
<1>4. Acts(t) /\ th'[t] = [th[t] EXCEPT !.pc = "count"]
  BY <1>1 DEF TypeInv, ThreadsOK, Acts, Go
<1>5. /\ th'[t] \in Locals
      /\ th'[t].pc = "count" /\ th'[t].op = th[t].op /\ th'[t].path = th[t].path
      /\ th'[t].raf = th[t].raf /\ th'[t].copy = th[t].copy
  <2>1. [th[t] EXCEPT !.pc = "count"] \in Locals
    BY <1>2 DEF Locals, Resting, TakingFd, UsingFd, Scanning, Ending
  <2>2. /\ th'[t].pc = "count" /\ th'[t].op = th[t].op /\ th'[t].path = th[t].path
        /\ th'[t].raf = th[t].raf /\ th'[t].copy = th[t].copy
    BY <1>2, <1>4 DEF Locals
  <2> QED
    BY <1>4, <2>1, <2>2
<1>6. LocalOK(th[t])'
  <2>1. /\ th[t].raf \in DOMAIN inodes => th[t].raf \in DOMAIN inodes'
        /\ th[t].copy \in DOMAIN inodes => th[t].copy \in DOMAIN inodes'
        /\ th[t].raf \in 0..Len(inodes') /\ th[t].copy \in 0..Len(inodes')
        /\ \A i \in DOMAIN inodes : th[t].len <= Len(inodes[i]) => th[t].len <= Len(inodes'[i])
    BY <1>2, <1>3, LocalsKept DEF TypeInv
  <2> QED
    BY <1>1, <1>2, <1>5, <2>1
    DEF LocalOK, At, Resting, TakingFd, UsingFd, Scanning, Ending, OpenOps
<1>7. TablesOK'
  BY <1>1, <1>3, TablesStay DEF TypeInv, TablesOK, Locked, Unlocked
<1>8. FdsOK'
  BY <1>1, <1>4, <1>5, FdsStay DEF At, Opening, tables, TypeInv
<1> QED
  BY <1>3, <1>4, <1>6, <1>7, <1>8, Together

LEMMA CachePutWriteTypes ==
    ASSUME TypeInv, NEW t \in Threads, CachePut(t), ~Reading(t), raced => raced'
    PROVE  TypeInv'
<1>1. /\ At(t, "fetch") /\ th[t].op # "READ" /\ Put(SharedKey(t)) /\ Go(t, "unlock")
      /\ UNCHANGED <<serverVars, opened, tables, cache_lock>>
  BY DEF CachePut, Reading
<1>2. LocalOK(th[t]) /\ th[t] \in Locals
  BY DEF TypeInv, ThreadsOK
<1>9. SharedKey(t) \in Keys
  BY <1>1, <1>2, KeysOfThread DEF SharedKey, At, Resting
<1>3. ServerOK' /\ CacheOK' /\ FilesOK' /\ InodesGrow
  BY <1>1, <1>9, PutEffect, ServerRests DEF TypeInv, CacheStep
<1>4. Acts(t) /\ th'[t] = [th[t] EXCEPT !.pc = "unlock"]
  BY <1>1 DEF TypeInv, ThreadsOK, Acts, Go
<1>5. /\ th'[t] \in Locals
      /\ th'[t].pc = "unlock" /\ th'[t].op = th[t].op /\ th'[t].path = th[t].path
      /\ th'[t].raf = th[t].raf /\ th'[t].copy = th[t].copy
  <2>1. [th[t] EXCEPT !.pc = "unlock"] \in Locals
    BY <1>2 DEF Locals, Resting, TakingFd, UsingFd, Scanning, Ending
  <2>2. /\ th'[t].pc = "unlock" /\ th'[t].op = th[t].op /\ th'[t].path = th[t].path
        /\ th'[t].raf = th[t].raf /\ th'[t].copy = th[t].copy
    BY <1>2, <1>4 DEF Locals
  <2> QED
    BY <1>4, <2>1, <2>2
<1>6. LocalOK(th[t])'
  <2>1. /\ th[t].raf \in DOMAIN inodes => th[t].raf \in DOMAIN inodes'
        /\ th[t].copy \in DOMAIN inodes => th[t].copy \in DOMAIN inodes'
        /\ th[t].raf \in 0..Len(inodes') /\ th[t].copy \in 0..Len(inodes')
        /\ \A i \in DOMAIN inodes : th[t].len <= Len(inodes[i]) => th[t].len <= Len(inodes'[i])
    BY <1>2, <1>3, LocalsKept DEF TypeInv
  <2> QED
    BY <1>1, <1>2, <1>5, <2>1
    DEF LocalOK, At, Resting, TakingFd, UsingFd, Scanning, Ending, OpenOps
<1>7. TablesOK'
  BY <1>1, <1>3, TablesStay DEF TypeInv, TablesOK, Locked, Unlocked
<1>8. FdsOK'
  BY <1>1, <1>4, <1>5, FdsStay DEF At, Opening, tables, TypeInv
<1> QED
  BY <1>3, <1>4, <1>6, <1>7, <1>8, Together

LEMMA CountTypes ==
    ASSUME TypeInv, NEW t \in Threads, Count(t), raced => raced'
    PROVE  TypeInv'
<1>1. /\ At(t, "count") /\ AddClient(SharedKey(t)) /\ Go(t, "unlock")
      /\ UNCHANGED <<serverVars, opened, tables, cache_lock>>
  BY DEF Count
<1>2. LocalOK(th[t]) /\ th[t] \in Locals
  BY DEF TypeInv, ThreadsOK
<1>3. ServerOK' /\ CacheOK' /\ FilesOK' /\ InodesGrow
  BY <1>1, AddEffect, ServerRests DEF TypeInv, CacheStep
<1>4. Acts(t) /\ th'[t] = [th[t] EXCEPT !.pc = "unlock"]
  BY <1>1 DEF TypeInv, ThreadsOK, Acts, Go
<1>5. /\ th'[t] \in Locals
      /\ th'[t].pc = "unlock" /\ th'[t].op = th[t].op /\ th'[t].path = th[t].path
      /\ th'[t].raf = th[t].raf /\ th'[t].copy = th[t].copy
  <2>1. [th[t] EXCEPT !.pc = "unlock"] \in Locals
    BY <1>2 DEF Locals, Resting, TakingFd, UsingFd, Scanning, Ending
  <2>2. /\ th'[t].pc = "unlock" /\ th'[t].op = th[t].op /\ th'[t].path = th[t].path
        /\ th'[t].raf = th[t].raf /\ th'[t].copy = th[t].copy
    BY <1>2, <1>4 DEF Locals
  <2> QED
    BY <1>4, <2>1, <2>2
<1>6. LocalOK(th[t])'
  <2>1. /\ th[t].raf \in DOMAIN inodes => th[t].raf \in DOMAIN inodes'
        /\ th[t].copy \in DOMAIN inodes => th[t].copy \in DOMAIN inodes'
        /\ th[t].raf \in 0..Len(inodes') /\ th[t].copy \in 0..Len(inodes')
        /\ \A i \in DOMAIN inodes : th[t].len <= Len(inodes[i]) => th[t].len <= Len(inodes'[i])
    BY <1>2, <1>3, LocalsKept DEF TypeInv
  <2> QED
    BY <1>1, <1>2, <1>5, <2>1
    DEF LocalOK, At, Resting, TakingFd, UsingFd, Scanning, Ending, OpenOps
<1>7. TablesOK'
  BY <1>1, <1>3, TablesStay DEF TypeInv, TablesOK, Locked, Unlocked
<1>8. FdsOK'
  BY <1>1, <1>4, <1>5, FdsStay DEF At, Opening, tables, TypeInv
<1> QED
  BY <1>3, <1>4, <1>6, <1>7, <1>8, Together

LEMMA ReadFdTypes ==
    ASSUME TypeInv, NEW t \in Threads, ReadFd(t), FdsRace' => raced', raced => raced'
    PROVE  TypeInv'
<1>1. /\ At(t, "fd") /\ th' = [th EXCEPT ![t].pc = "bump", ![t].fd = curr_fd]
      /\ UNCHANGED <<serverVars, cacheVars, opened, tables, cache_lock>>
  BY DEF ReadFd
<1>2. LocalOK(th[t]) /\ th[t] \in Locals
  BY DEF TypeInv, ThreadsOK
<1>10. Cardinality(Openers) \in Nat /\ IsFiniteSet(Openers) /\ Openers # {}
  <2>1. IsFiniteSet(Openers)
    BY ProxyAssumption, FS_Subset DEF Openers
  <2>2. t \in Openers
    BY <1>1 DEF Openers, Opening, At
  <2> QED
    BY <2>1, <2>2, FS_CardinalityType
<1>11. Cardinality(Openers) # 0
  BY <1>10, FS_EmptySet
<1>12. curr_fd \in Fds
  <2>1. curr_fd \in Nat /\ curr_fd >= FirstFd /\ MaxFd \in Nat
           /\ curr_fd + Cardinality(Openers) <= MaxFd + 1
    BY <1>10, ProxyAssumption DEF TypeInv, FdsOK
  <2> QED
    BY <1>10, <1>11, <2>1 DEF Fds, FirstFd
<1>3. ServerOK' /\ CacheOK' /\ FilesOK' /\ InodesGrow
  BY <1>1, CacheRests, ServerRests DEF TypeInv
<1>4. Acts(t) /\ th'[t] = [th[t] EXCEPT !.pc = "bump", !.fd = curr_fd]
  BY <1>1 DEF TypeInv, ThreadsOK, Acts
<1>5. /\ th'[t] \in Locals
      /\ th'[t].pc = "bump" /\ th'[t].op = th[t].op /\ th'[t].path = th[t].path
      /\ th'[t].raf = th[t].raf /\ th'[t].copy = th[t].copy /\ th'[t].fd = curr_fd
  <2>1. [th[t] EXCEPT !.pc = "bump", !.fd = curr_fd] \in Locals
    BY <1>2, <1>12 DEF Locals, Resting, TakingFd, UsingFd, Scanning, Ending
  <2>2. /\ th'[t].pc = "bump" /\ th'[t].op = th[t].op /\ th'[t].path = th[t].path
        /\ th'[t].raf = th[t].raf /\ th'[t].copy = th[t].copy /\ th'[t].fd = curr_fd
    BY <1>2, <1>4 DEF Locals
  <2> QED
    BY <1>4, <2>1, <2>2
<1>6. LocalOK(th[t])'
  <2>1. /\ th[t].raf \in DOMAIN inodes => th[t].raf \in DOMAIN inodes'
        /\ th[t].copy \in DOMAIN inodes => th[t].copy \in DOMAIN inodes'
        /\ th[t].raf \in 0..Len(inodes') /\ th[t].copy \in 0..Len(inodes')
        /\ \A i \in DOMAIN inodes : th[t].len <= Len(inodes[i]) => th[t].len <= Len(inodes'[i])
    BY <1>2, <1>3, LocalsKept DEF TypeInv
  <2> QED
    BY <1>1, <1>2, <1>5, <2>1, <1>12
    DEF LocalOK, At, Resting, TakingFd, UsingFd, Scanning, Ending, OpenOps
<1>7. TablesOK'
  BY <1>1, <1>3, TablesStay DEF TypeInv, TablesOK, Locked, Unlocked
<1>8. FdsOK'
  <2>1. \A u \in Threads : u # t => th'[u] = th[u]
    BY <1>4 DEF Acts, TypeInv, ThreadsOK
  <2>2. Openers' = Openers
    BY <1>1, <1>5, <2>1 DEF Openers, Opening, At
  <2>3. curr_fd' = curr_fd
    BY <1>1 DEF tables
  <2>4. \A u \in Threads : At(u, "bump")' /\ u # t => At(u, "bump") /\ th'[u] = th[u]
    BY <2>1 DEF At
  <2>5. ~raced' => \A u \in Threads : At(u, "bump")' => u = t
    BY <1>5 DEF FdsRace, At
  <2>6. \A u \in Threads : At(u, "bump")' =>
          th'[u].fd + Cardinality(Openers') <= MaxFd + 1
    BY <1>5, <1>10, <2>2, <2>4 DEF TypeInv, FdsOK
  <2>7. ~raced' => \A u \in Threads : At(u, "bump")' =>
          /\ th'[u].fd = curr_fd' /\ \A w \in Threads : At(w, "bump")' => w = u
    BY <1>5, <2>3, <2>5
  <2>8. curr_fd' \in Nat /\ curr_fd' >= FirstFd
           /\ (Openers' # {} => curr_fd' + Cardinality(Openers') <= MaxFd + 1)
    BY <2>2, <2>3 DEF TypeInv, FdsOK
  <2> QED
    BY <2>6, <2>7, <2>8 DEF FdsOK
<1> QED
  BY <1>3, <1>4, <1>6, <1>7, <1>8, Together

LEMMA BumpKeeps ==
    ASSUME TypeInv, NEW t \in Threads, Acts(t), At(t, "bump"), raced => raced',
           curr_fd' = th[t].fd + 1, th'[t].pc \in UsingFd
    PROVE  FdsOK'
<1>1. \A u \in Threads : u # t => th'[u] = th[u]
  BY DEF Acts, TypeInv, ThreadsOK
<1>2. Openers' = Openers \ {t} /\ t \in Openers
  BY <1>1 DEF Openers, Opening, At, UsingFd
<1>3. IsFiniteSet(Openers)
  BY ProxyAssumption, FS_Subset DEF Openers
<1>4. Cardinality(Openers') = Cardinality(Openers) - 1 /\ Cardinality(Openers) \in Nat
         /\ Cardinality(Openers') \in Nat
  BY <1>2, <1>3, FS_RemoveElement, FS_CardinalityType
<1>5. th[t].fd \in Nat /\ th[t].fd >= FirstFd /\ MaxFd \in Nat
         /\ th[t].fd + Cardinality(Openers) <= MaxFd + 1
  BY ProxyAssumption DEF TypeInv, FdsOK, ThreadsOK, LocalOK, At, Fds, FirstFd
<1>6. curr_fd' \in Nat /\ curr_fd' >= FirstFd /\ curr_fd' + Cardinality(Openers') <= MaxFd + 1
  BY <1>4, <1>5 DEF FirstFd
<1>7. \A u \in Threads : At(u, "bump")' => u # t /\ At(u, "bump") /\ th'[u] = th[u]
  BY <1>1 DEF At, UsingFd
<1>8. ASSUME NEW u \in Threads, At(u, "bump")'
      PROVE  th'[u].fd + Cardinality(Openers') <= MaxFd + 1
  <2>1. At(u, "bump") /\ th'[u] = th[u]
    BY <1>7, <1>8
  <2>2. th[u].fd \in Nat
    BY <2>1 DEF TypeInv, ThreadsOK, LocalOK, At, Fds, FirstFd
  <2>3. th[u].fd + Cardinality(Openers) <= MaxFd + 1
    BY <2>1 DEF TypeInv, FdsOK
  <2> QED
    BY <1>4, <1>5, <2>1, <2>2, <2>3
<1>9. ~raced => \A u \in Threads : ~At(u, "bump")'
  BY <1>7 DEF TypeInv, FdsOK
<1> QED
  BY <1>6, <1>8, <1>9 DEF FdsOK

LEMMA BumpFdReadTypes ==
    ASSUME TypeInv, NEW t \in Threads, BumpFd(t), Reading(t), raced => raced'
    PROVE  TypeInv'
<1>1. /\ At(t, "bump") /\ th[t].op = "READ" /\ curr_fd' = th[t].fd + 1
      /\ Go(t, "reader")
      /\ UNCHANGED <<serverVars, cacheVars, opened, fd_paths, fd_files, cache_lock>>
  BY DEF BumpFd, Reading
<1>2. LocalOK(th[t]) /\ th[t] \in Locals
  BY DEF TypeInv, ThreadsOK
<1>3. ServerOK' /\ CacheOK' /\ FilesOK' /\ InodesGrow
  BY <1>1, CacheRests, ServerRests DEF TypeInv
<1>4. Acts(t) /\ th'[t] = [th[t] EXCEPT !.pc = "reader"]
  BY <1>1 DEF TypeInv, ThreadsOK, Acts, Go
<1>5. /\ th'[t] \in Locals
      /\ th'[t].pc = "reader" /\ th'[t].op = th[t].op /\ th'[t].path = th[t].path
      /\ th'[t].raf = th[t].raf /\ th'[t].copy = th[t].copy /\ th'[t].fd = th[t].fd
  <2>1. [th[t] EXCEPT !.pc = "reader"] \in Locals
    BY <1>2 DEF Locals, Resting, TakingFd, UsingFd, Scanning, Ending
  <2>2. /\ th'[t].pc = "reader" /\ th'[t].op = th[t].op /\ th'[t].path = th[t].path
        /\ th'[t].raf = th[t].raf /\ th'[t].copy = th[t].copy /\ th'[t].fd = th[t].fd
    BY <1>2, <1>4 DEF Locals
  <2> QED
    BY <1>4, <2>1, <2>2
<1>6. LocalOK(th[t])'
  <2>1. /\ th[t].raf \in DOMAIN inodes => th[t].raf \in DOMAIN inodes'
        /\ th[t].copy \in DOMAIN inodes => th[t].copy \in DOMAIN inodes'
        /\ th[t].raf \in 0..Len(inodes') /\ th[t].copy \in 0..Len(inodes')
        /\ \A i \in DOMAIN inodes : th[t].len <= Len(inodes[i]) => th[t].len <= Len(inodes'[i])
    BY <1>2, <1>3, LocalsKept DEF TypeInv
  <2> QED
    BY <1>1, <1>2, <1>5, <2>1
    DEF LocalOK, At, Resting, TakingFd, UsingFd, Scanning, Ending, OpenOps
<1>7. TablesOK'
  <2>1. fd_files \in [DOMAIN fd_files -> DOMAIN inodes']
    BY <1>3 DEF TypeInv, TablesOK, InodesGrow
  <2> QED
    BY <1>1, <2>1 DEF TypeInv, TablesOK
<1>8. FdsOK'
  BY <1>1, <1>4, <1>5, BumpKeeps DEF UsingFd
<1> QED
  BY <1>3, <1>4, <1>6, <1>7, <1>8, Together

LEMMA BumpFdWriteTypes ==
    ASSUME TypeInv, NEW t \in Threads, BumpFd(t), ~Reading(t), raced => raced'
    PROVE  TypeInv'
<1>1. /\ At(t, "bump") /\ th[t].op # "READ" /\ curr_fd' = th[t].fd + 1
      /\ Go(t, "writer")
      /\ UNCHANGED <<serverVars, cacheVars, opened, fd_paths, fd_files, cache_lock>>
  BY DEF BumpFd, Reading
<1>2. LocalOK(th[t]) /\ th[t] \in Locals
  BY DEF TypeInv, ThreadsOK
<1>3. ServerOK' /\ CacheOK' /\ FilesOK' /\ InodesGrow
  BY <1>1, CacheRests, ServerRests DEF TypeInv
<1>4. Acts(t) /\ th'[t] = [th[t] EXCEPT !.pc = "writer"]
  BY <1>1 DEF TypeInv, ThreadsOK, Acts, Go
<1>5. /\ th'[t] \in Locals
      /\ th'[t].pc = "writer" /\ th'[t].op = th[t].op /\ th'[t].path = th[t].path
      /\ th'[t].raf = th[t].raf /\ th'[t].copy = th[t].copy /\ th'[t].fd = th[t].fd
  <2>1. [th[t] EXCEPT !.pc = "writer"] \in Locals
    BY <1>2 DEF Locals, Resting, TakingFd, UsingFd, Scanning, Ending
  <2>2. /\ th'[t].pc = "writer" /\ th'[t].op = th[t].op /\ th'[t].path = th[t].path
        /\ th'[t].raf = th[t].raf /\ th'[t].copy = th[t].copy /\ th'[t].fd = th[t].fd
    BY <1>2, <1>4 DEF Locals
  <2> QED
    BY <1>4, <2>1, <2>2
<1>6. LocalOK(th[t])'
  <2>1. /\ th[t].raf \in DOMAIN inodes => th[t].raf \in DOMAIN inodes'
        /\ th[t].copy \in DOMAIN inodes => th[t].copy \in DOMAIN inodes'
        /\ th[t].raf \in 0..Len(inodes') /\ th[t].copy \in 0..Len(inodes')
        /\ \A i \in DOMAIN inodes : th[t].len <= Len(inodes[i]) => th[t].len <= Len(inodes'[i])
    BY <1>2, <1>3, LocalsKept DEF TypeInv
  <2> QED
    BY <1>1, <1>2, <1>5, <2>1
    DEF LocalOK, At, Resting, TakingFd, UsingFd, Scanning, Ending, OpenOps
<1>7. TablesOK'
  <2>1. fd_files \in [DOMAIN fd_files -> DOMAIN inodes']
    BY <1>3 DEF TypeInv, TablesOK, InodesGrow
  <2> QED
    BY <1>1, <2>1 DEF TypeInv, TablesOK
<1>8. FdsOK'
  BY <1>1, <1>4, <1>5, BumpKeeps DEF UsingFd
<1> QED
  BY <1>3, <1>4, <1>6, <1>7, <1>8, Together

LEMMA NamedTyped ==
    ASSUME TypeInv, NEW t \in Threads, th[t].pc \in UsingFd, NEW write \in BOOLEAN
    PROVE  /\ th[t].fd \in Fds
           /\ Named(t, write) \in [DOMAIN fd_paths \cup {th[t].fd} -> Names]
           /\ DOMAIN Named(t, write) = DOMAIN fd_paths \cup {th[t].fd}
           /\ Named(t, write)[th[t].fd] = [path |-> th[t].path, ver |-> th[t].ver,
                                           write |-> write]
           /\ \A fd \in DOMAIN fd_paths \ {th[t].fd} : Named(t, write)[fd] = fd_paths[fd]
<1>1. LocalOK(th[t]) /\ th[t] \in Locals
  BY DEF TypeInv, ThreadsOK
<1>2. th[t].fd \in Fds /\ th[t].path \in Paths /\ th[t].ver \in Nat
  BY <1>1 DEF LocalOK, Locals, UsingFd, Resting
<1> DEFINE n == [path |-> th[t].path, ver |-> th[t].ver, write |-> write]
<1>3. n \in Names
  BY <1>2 DEF Names
<1> HIDE DEF n
<1>4. /\ With(fd_paths, th[t].fd, n) \in [DOMAIN fd_paths \cup {th[t].fd} -> Names]
      /\ DOMAIN With(fd_paths, th[t].fd, n) = DOMAIN fd_paths \cup {th[t].fd}
      /\ With(fd_paths, th[t].fd, n)[th[t].fd] = n
      /\ \A fd \in DOMAIN fd_paths \ {th[t].fd} :
           With(fd_paths, th[t].fd, n)[fd] = fd_paths[fd]
  <2>1. fd_paths \in [DOMAIN fd_paths -> Names]
    BY DEF TypeInv, TablesOK
  <2> QED
    BY <1>3, <2>1 DEF With
<1> QED
  BY <1>2, <1>4 DEF Named, n

LEMMA OpenReaderTypes ==
    ASSUME TypeInv, NEW t \in Threads, OpenReader(t), raced => raced'
    PROVE  TypeInv'
<1>1. /\ At(t, "reader") /\ fd_paths' = Named(t, FALSE)
      /\ IF SharedKey(t) \in DOMAIN disk
         THEN /\ fd_files' = With(fd_files, th[t].fd, disk[SharedKey(t)])
              /\ opened' = [opened EXCEPT ![t] = @ \cup {th[t].fd}]
         ELSE UNCHANGED <<fd_files, opened>>
      /\ th' = [th EXCEPT ![t] = Idle]
      /\ UNCHANGED <<serverVars, cacheVars, curr_fd, cache_lock>>
  BY DEF OpenReader, Return
<1>2. LocalOK(th[t]) /\ th[t] \in Locals
  BY DEF TypeInv, ThreadsOK
<1>3. ServerOK' /\ CacheOK' /\ FilesOK' /\ InodesGrow
  BY <1>1, CacheRests, ServerRests DEF TypeInv
<1>4. th'[t] = Idle /\ Acts(t)
  BY <1>1 DEF TypeInv, ThreadsOK, Acts
<1>5. LocalOK(th[t])'
  BY <1>3, <1>4, RestOK
<1>6. TablesOK'
  <2>1. /\ th[t].fd \in Fds
        /\ fd_paths' \in [DOMAIN fd_paths \cup {th[t].fd} -> Names]
        /\ DOMAIN fd_paths' = DOMAIN fd_paths \cup {th[t].fd}
        /\ fd_paths'[th[t].fd] = [path |-> th[t].path, ver |-> th[t].ver,
                                  write |-> FALSE]
        /\ \A fd \in DOMAIN fd_paths \ {th[t].fd} : fd_paths'[fd] = fd_paths[fd]
    BY <1>1, NamedTyped DEF At, UsingFd
  <2>2. /\ DOMAIN fd_files \subseteq DOMAIN fd_files' /\ DOMAIN fd_files' \subseteq Fds
        /\ fd_files' \in [DOMAIN fd_files' -> DOMAIN inodes']
    <3>1. fd_files \in [DOMAIN fd_files -> DOMAIN inodes']
      BY <1>3 DEF TypeInv, TablesOK, InodesGrow
    <3>2. CASE SharedKey(t) \in DOMAIN disk
      <4>1. disk[SharedKey(t)] \in DOMAIN inodes'
        BY <1>3, <3>2 DEF TypeInv, FilesOK, InodesGrow
      <4>2. fd_files' = With(fd_files, th[t].fd, disk[SharedKey(t)])
        BY <1>1, <3>2
      <4>3. /\ fd_files' \in [DOMAIN fd_files \cup {th[t].fd} -> DOMAIN inodes']
            /\ DOMAIN fd_files' = DOMAIN fd_files \cup {th[t].fd}
        BY <3>1, <4>1, <4>2 DEF With
      <4> QED
        BY <2>1, <4>3 DEF TypeInv, TablesOK
    <3>3. CASE SharedKey(t) \notin DOMAIN disk
      BY <1>1, <3>1, <3>3 DEF TypeInv, TablesOK
    <3> QED
      BY <3>2, <3>3
  <2>3. opened' \in [Threads -> SUBSET Fds]
    BY <1>1, <2>1 DEF TypeInv, TablesOK
  <2>4. \A fd \in DOMAIN fd_paths' : fd_paths'[fd].write => fd \in DOMAIN fd_files'
    BY <2>1, <2>2 DEF TypeInv, TablesOK
  <2>5. DOMAIN fd_paths' \subseteq Fds
    BY <2>1 DEF TypeInv, TablesOK
  <2>6. cache_lock' \subseteq Threads /\ fd_paths' \in [DOMAIN fd_paths' -> Names]
    BY <1>1, <2>1 DEF TypeInv, TablesOK
  <2> QED
    BY <2>2, <2>3, <2>4, <2>5, <2>6 DEF TablesOK
<1>7. FdsOK'
  BY <1>1, <1>4, FdsStay DEF Idle, Opening, tables, TypeInv
<1> QED
  BY <1>3, <1>4, <1>5, <1>6, <1>7, Together

LEMMA OpenWriterTypes ==
    ASSUME TypeInv, NEW t \in Threads, OpenWriter(t), raced => raced'
    PROVE  TypeInv'
<1>1. /\ At(t, "writer") /\ OpenFile(CopyKey(t))
      /\ th' = [th EXCEPT ![t].pc = "copy", ![t].pos = 0,
                          ![t].copy = InodeOf(CopyKey(t)),
                          ![t].len = Len(inodes[th[t].raf])]
      /\ UNCHANGED <<serverVars, cache, opened, tables, cache_lock>>
  BY DEF OpenWriter
<1>2. LocalOK(th[t]) /\ th[t] \in Locals
  BY DEF TypeInv, ThreadsOK
<1>9. CopyKey(t) \in Keys /\ th[t].raf \in DOMAIN inodes
  BY <1>1, <1>2, KeysOfThread DEF CopyKey, At, Resting, LocalOK
<1>10. FilesOK' /\ InodesGrow /\ InodeOf(CopyKey(t)) \in DOMAIN inodes'
  BY <1>1, <1>9, OpenFileEffect DEF TypeInv
<1>11. InodeOf(CopyKey(t)) \in Nat /\ InodeOf(CopyKey(t)) \in 0..Len(inodes')
  BY <1>10 DEF FilesOK
<1>12. /\ Len(inodes[th[t].raf]) \in Nat /\ th[t].raf \in DOMAIN inodes'
       /\ Len(inodes[th[t].raf]) <= Len(inodes'[th[t].raf])
  BY <1>9, <1>10 DEF TypeInv, FilesOK, InodesGrow
<1>3. ServerOK' /\ CacheOK' /\ FilesOK' /\ InodesGrow
  BY <1>1, <1>10, ServerRests DEF TypeInv, CacheOK
<1>4. Acts(t) /\ th'[t] = [th[t] EXCEPT !.pc = "copy", !.pos = 0,
                                           !.copy = InodeOf(CopyKey(t)),
                                           !.len = Len(inodes[th[t].raf])]
  BY <1>1 DEF TypeInv, ThreadsOK, Acts
<1>5. /\ th'[t] \in Locals
      /\ th'[t].pc = "copy" /\ th'[t].op = th[t].op /\ th'[t].path = th[t].path
      /\ th'[t].raf = th[t].raf /\ th'[t].copy = InodeOf(CopyKey(t))
      /\ th'[t].fd = th[t].fd /\ th'[t].len = Len(inodes[th[t].raf])
  <2>1. [th[t] EXCEPT !.pc = "copy", !.pos = 0,
                                           !.copy = InodeOf(CopyKey(t)),
                                           !.len = Len(inodes[th[t].raf])] \in Locals
    BY <1>2, <1>11, <1>12 DEF Locals, Resting, TakingFd, UsingFd, Scanning, Ending
  <2>2. /\ th'[t].pc = "copy" /\ th'[t].op = th[t].op /\ th'[t].path = th[t].path
        /\ th'[t].raf = th[t].raf /\ th'[t].copy = InodeOf(CopyKey(t))
        /\ th'[t].fd = th[t].fd /\ th'[t].len = Len(inodes[th[t].raf])
    BY <1>2, <1>4 DEF Locals
  <2> QED
    BY <1>4, <2>1, <2>2
<1>6. LocalOK(th[t])'
  <2>1. /\ th[t].raf \in DOMAIN inodes => th[t].raf \in DOMAIN inodes'
        /\ th[t].copy \in DOMAIN inodes => th[t].copy \in DOMAIN inodes'
        /\ th[t].raf \in 0..Len(inodes') /\ th[t].copy \in 0..Len(inodes')
        /\ \A i \in DOMAIN inodes : th[t].len <= Len(inodes[i]) => th[t].len <= Len(inodes'[i])
    BY <1>2, <1>3, LocalsKept DEF TypeInv
  <2> QED
    BY <1>1, <1>2, <1>5, <2>1, <1>9, <1>10, <1>11, <1>12
    DEF LocalOK, At, Resting, TakingFd, UsingFd, Scanning, Ending, OpenOps
<1>7. TablesOK'
  BY <1>1, <1>3, TablesStay DEF TypeInv, TablesOK, Locked, Unlocked
<1>8. FdsOK'
  BY <1>1, <1>4, <1>5, FdsStay DEF At, Opening, tables, TypeInv
<1> QED
  BY <1>3, <1>4, <1>6, <1>7, <1>8, Together

LEMMA CopyChunkTypes ==
    ASSUME TypeInv, NEW t \in Threads, CopyChunk(t), raced => raced'
    PROVE  TypeInv'
<1>1. /\ At(t, "copy") /\ th[t].pos < th[t].len
      /\ WriteChunk(th[t].copy, th[t].pos, inodes[th[t].raf][th[t].pos + 1])
      /\ th' = [th EXCEPT ![t].pos = NextPos(@)]
      /\ UNCHANGED <<serverVars, opened, tables, cache_lock>>
  BY DEF CopyChunk
<1>2. LocalOK(th[t]) /\ th[t] \in Locals
  BY DEF TypeInv, ThreadsOK
<1>9. /\ th[t].pos \in Nat /\ th[t].raf \in DOMAIN inodes /\ th[t].copy \in DOMAIN inodes
      /\ th[t].len \in Nat /\ th[t].len <= Len(inodes[th[t].raf])
  BY <1>1, <1>2 DEF At, LocalOK, Locals
<1>10. inodes[th[t].raf][th[t].pos + 1] \in Chunks
  <2>1. inodes[th[t].raf] \in Seq(Chunks)
    BY <1>9 DEF TypeInv, FilesOK
  <2> QED
    BY <1>1, <1>9, <2>1
<1>11. FilesOK' /\ InodesGrow /\ cache' = cache
  BY <1>1, <1>9, <1>10, WriteEffect DEF TypeInv
<1>3. ServerOK' /\ CacheOK' /\ FilesOK' /\ InodesGrow
  BY <1>1, <1>11, ServerRests DEF TypeInv, CacheOK
<1>4. Acts(t) /\ th'[t] = [th[t] EXCEPT !.pos = NextPos(@)]
  BY <1>1 DEF TypeInv, ThreadsOK, Acts
<1>5. /\ th'[t] \in Locals
      /\ th'[t].pc = th[t].pc /\ th'[t].op = th[t].op /\ th'[t].path = th[t].path
      /\ th'[t].raf = th[t].raf /\ th'[t].copy = th[t].copy
      /\ th'[t].fd = th[t].fd /\ th'[t].len = th[t].len
  <2>1. [th[t] EXCEPT !.pos = NextPos(@)] \in Locals
    BY <1>2 DEF Locals, Resting, TakingFd, UsingFd, Scanning, Ending, NextPos
  <2>2. /\ th'[t].pc = th[t].pc /\ th'[t].op = th[t].op /\ th'[t].path = th[t].path
        /\ th'[t].raf = th[t].raf /\ th'[t].copy = th[t].copy
        /\ th'[t].fd = th[t].fd /\ th'[t].len = th[t].len
    BY <1>2, <1>4 DEF Locals
  <2> QED
    BY <1>4, <2>1, <2>2
<1>6. LocalOK(th[t])'
  <2>1. /\ th[t].raf \in DOMAIN inodes => th[t].raf \in DOMAIN inodes'
        /\ th[t].copy \in DOMAIN inodes => th[t].copy \in DOMAIN inodes'
        /\ th[t].raf \in 0..Len(inodes') /\ th[t].copy \in 0..Len(inodes')
        /\ \A i \in DOMAIN inodes : th[t].len <= Len(inodes[i]) => th[t].len <= Len(inodes'[i])
    BY <1>2, <1>3, LocalsKept DEF TypeInv
  <2> QED
    BY <1>1, <1>2, <1>5, <2>1, <1>9
    DEF LocalOK, At, Resting, TakingFd, UsingFd, Scanning, Ending, OpenOps
<1>7. TablesOK'
  BY <1>1, <1>3, TablesStay DEF TypeInv, TablesOK, Locked, Unlocked
<1>8. FdsOK'
  BY <1>1, <1>4, <1>5, FdsStay DEF At, Opening, tables, TypeInv
<1> QED
  BY <1>3, <1>4, <1>6, <1>7, <1>8, Together

LEMMA PutCopyTypes ==
    ASSUME TypeInv, NEW t \in Threads, PutCopy(t), raced => raced'
    PROVE  TypeInv'
<1>1. /\ At(t, "copy") /\ fd_paths' = Named(t, TRUE)
      /\ fd_files' = With(fd_files, th[t].fd, th[t].copy)
      /\ Put(CopyKey(t)) /\ Go(t, "own")
      /\ UNCHANGED <<serverVars, opened, curr_fd, cache_lock>>
  BY DEF PutCopy
<1>2. LocalOK(th[t]) /\ th[t] \in Locals
  BY DEF TypeInv, ThreadsOK
<1>9. CopyKey(t) \in Keys
  BY <1>1, <1>2, KeysOfThread DEF CopyKey, At, Resting
<1>3. ServerOK' /\ CacheOK' /\ FilesOK' /\ InodesGrow
  BY <1>1, <1>9, PutEffect, ServerRests DEF TypeInv, CacheStep
<1>4. Acts(t) /\ th'[t] = [th[t] EXCEPT !.pc = "own"]
  BY <1>1 DEF TypeInv, ThreadsOK, Acts, Go
<1>5. /\ th'[t] \in Locals
      /\ th'[t].pc = "own" /\ th'[t].op = th[t].op /\ th'[t].path = th[t].path
      /\ th'[t].raf = th[t].raf /\ th'[t].copy = th[t].copy
      /\ th'[t].fd = th[t].fd
  <2>1. [th[t] EXCEPT !.pc = "own"] \in Locals
    BY <1>2 DEF Locals, Resting, TakingFd, UsingFd, Scanning, Ending
  <2>2. /\ th'[t].pc = "own" /\ th'[t].op = th[t].op /\ th'[t].path = th[t].path
        /\ th'[t].raf = th[t].raf /\ th'[t].copy = th[t].copy
        /\ th'[t].fd = th[t].fd
    BY <1>2, <1>4 DEF Locals
  <2> QED
    BY <1>4, <2>1, <2>2
<1>6. LocalOK(th[t])'
  <2>1. /\ th[t].raf \in DOMAIN inodes => th[t].raf \in DOMAIN inodes'
        /\ th[t].copy \in DOMAIN inodes => th[t].copy \in DOMAIN inodes'
        /\ th[t].raf \in 0..Len(inodes') /\ th[t].copy \in 0..Len(inodes')
        /\ \A i \in DOMAIN inodes : th[t].len <= Len(inodes[i]) => th[t].len <= Len(inodes'[i])
    BY <1>2, <1>3, LocalsKept DEF TypeInv
  <2> QED
    BY <1>1, <1>2, <1>5, <2>1
    DEF LocalOK, At, Resting, TakingFd, UsingFd, Scanning, Ending, OpenOps
<1>7. TablesOK'
  <2>1. /\ th[t].fd \in Fds
        /\ fd_paths' \in [DOMAIN fd_paths \cup {th[t].fd} -> Names]
        /\ DOMAIN fd_paths' = DOMAIN fd_paths \cup {th[t].fd}
        /\ \A fd \in DOMAIN fd_paths \ {th[t].fd} : fd_paths'[fd] = fd_paths[fd]
    BY <1>1, NamedTyped DEF At, UsingFd
  <2>2. th[t].copy \in DOMAIN inodes'
    BY <1>1, <1>2, <1>3 DEF LocalOK, At, InodesGrow
  <2>3. fd_files \in [DOMAIN fd_files -> DOMAIN inodes']
    BY <1>3 DEF TypeInv, TablesOK, InodesGrow
  <2>4. /\ fd_files' \in [DOMAIN fd_files \cup {th[t].fd} -> DOMAIN inodes']
        /\ DOMAIN fd_files' = DOMAIN fd_files \cup {th[t].fd}
    BY <1>1, <2>2, <2>3 DEF With
  <2>5. /\ opened' \in [Threads -> SUBSET Fds] /\ cache_lock' \subseteq Threads
        /\ DOMAIN fd_paths' \subseteq Fds /\ DOMAIN fd_files' \subseteq Fds
    BY <1>1, <2>1, <2>4 DEF TypeInv, TablesOK
  <2>6. \A fd \in DOMAIN fd_paths' : fd_paths'[fd].write => fd \in DOMAIN fd_files'
    BY <2>1, <2>4 DEF TypeInv, TablesOK
  <2> QED
    BY <2>1, <2>4, <2>5, <2>6 DEF TablesOK
<1>8. FdsOK'
  BY <1>1, <1>4, <1>5, FdsStay DEF Opening, TypeInv
<1> QED
  BY <1>3, <1>4, <1>6, <1>7, <1>8, Together

LEMMA OwnCopyTypes ==
    ASSUME TypeInv, NEW t \in Threads, OwnCopy(t), raced => raced'
    PROVE  TypeInv'
<1>1. /\ At(t, "own") /\ AddClient(CopyKey(t))
      /\ opened' = [opened EXCEPT ![t] = @ \cup {th[t].fd}]
      /\ th' = [th EXCEPT ![t] = Idle]
      /\ UNCHANGED <<serverVars, tables, cache_lock>>
  BY DEF OwnCopy, Return
<1>2. LocalOK(th[t]) /\ th[t] \in Locals
  BY DEF TypeInv, ThreadsOK
<1>3. ServerOK' /\ CacheOK' /\ FilesOK' /\ InodesGrow
  BY <1>1, AddEffect, ServerRests DEF TypeInv, CacheStep
<1>4. th'[t] = Idle /\ Acts(t)
  BY <1>1 DEF TypeInv, ThreadsOK, Acts
<1>5. LocalOK(th[t])'
  BY <1>3, <1>4, RestOK
<1>6. TablesOK'
  <2>1. th[t].fd \in Fds
    BY <1>1, <1>2 DEF LocalOK, At, UsingFd
  <2>2. opened' \in [Threads -> SUBSET Fds]
    BY <1>1, <2>1 DEF TypeInv, TablesOK
  <2>3. fd_files \in [DOMAIN fd_files -> DOMAIN inodes']
    BY <1>3 DEF TypeInv, TablesOK, InodesGrow
  <2>4. fd_files' = fd_files /\ fd_paths' = fd_paths
    BY <1>1 DEF tables
  <2> QED
    BY <1>1, <2>2, <2>3, <2>4 DEF TypeInv, TablesOK
<1>7. FdsOK'
  BY <1>1, <1>4, FdsStay DEF Idle, Opening, tables, TypeInv
<1> QED
  BY <1>3, <1>4, <1>5, <1>6, <1>7, Together

LEMMA WriteTypes ==
    ASSUME TypeInv, NEW t \in Threads, NEW fd \in Fds, NEW pos \in Nat, Write(t, fd, pos), raced => raced'
    PROVE  TypeInv'
<1>1. /\ th[t].pc = "idle" /\ fd \in DOMAIN fd_paths /\ fd_paths[fd].write
      /\ WriteChunk(fd_files[fd], pos, fd)
      /\ UNCHANGED <<serverVars, th, opened, tables, cache_lock>>
  BY DEF Write, At
<1>2. LocalOK(th[t]) /\ th[t] \in Locals
  BY DEF TypeInv, ThreadsOK
<1>8. FilesOK' /\ InodesGrow /\ cache' = cache
  <2>1. fd_files[fd] \in DOMAIN inodes
    BY <1>1 DEF TypeInv, TablesOK
  <2>2. fd \in Chunks
    BY ProxyAssumption
  <2> QED
    BY <1>1, <2>1, <2>2, WriteEffect DEF TypeInv
<1>3. ServerOK' /\ CacheOK' /\ FilesOK' /\ InodesGrow
  BY <1>1, <1>8, ServerRests DEF TypeInv, CacheOK
<1>4. th'[t] = th[t] /\ Acts(t)
  BY <1>1 DEF TypeInv, ThreadsOK, Acts
<1>5. LocalOK(th[t])'
  BY <1>2, <1>3, <1>4, LocalStays DEF TypeInv
<1>6. TablesOK'
  BY <1>1, <1>3, TablesStay DEF TypeInv, TablesOK
<1>7. FdsOK'
  BY <1>1, <1>4, FdsStay DEF Opening, tables, TypeInv
<1> QED
  BY <1>3, <1>4, <1>5, <1>6, <1>7, Together

LEMMA UnlinkTypes ==
    ASSUME TypeInv, NEW t \in Threads, NEW p \in Paths, Unlink(t, p), raced => raced'
    PROVE  TypeInv'
<1>1. /\ th[t].pc = "idle" /\ deleteFile(p)
      /\ UNCHANGED <<cacheVars, th, opened, tables, cache_lock>>
  BY DEF Unlink, At
<1>2. LocalOK(th[t]) /\ th[t] \in Locals
  BY DEF TypeInv, ThreadsOK
<1>3. ServerOK' /\ CacheOK' /\ FilesOK' /\ InodesGrow
  BY <1>1, CacheRests, DeleteKeeps DEF TypeInv
<1>4. th'[t] = th[t] /\ Acts(t)
  BY <1>1 DEF TypeInv, ThreadsOK, Acts
<1>5. LocalOK(th[t])'
  BY <1>2, <1>3, <1>4, LocalStays DEF TypeInv
<1>6. TablesOK'
  BY <1>1, <1>3, TablesStay DEF TypeInv, TablesOK
<1>7. FdsOK'
  BY <1>1, <1>4, FdsStay DEF Opening, tables, TypeInv
<1> QED
  BY <1>3, <1>4, <1>5, <1>6, <1>7, Together

LEMMA CloseUnknownTypes ==
    ASSUME TypeInv, NEW t \in Threads, NEW fd, CloseUnknown(t, fd), raced => raced'
    PROVE  TypeInv'
<1>1. /\ th' = [th EXCEPT ![t] = [Idle EXCEPT !.pc = "dead"]]
      /\ UNCHANGED <<serverVars, cacheVars, opened, tables, cache_lock>>
  BY DEF CloseUnknown, Die
<1>2. LocalOK(th[t]) /\ th[t] \in Locals
  BY DEF TypeInv, ThreadsOK
<1>3. ServerOK' /\ CacheOK' /\ FilesOK' /\ InodesGrow
  BY <1>1, CacheRests, ServerRests DEF TypeInv
<1>4. th'[t] = [Idle EXCEPT !.pc = "dead"] /\ Acts(t)
  BY <1>1 DEF TypeInv, ThreadsOK, Acts
<1>5. LocalOK(th[t])'
  BY <1>3, <1>4, RestOK
<1>6. TablesOK'
  BY <1>1, <1>3, TablesStay DEF TypeInv, TablesOK
<1>7. FdsOK'
  BY <1>1, <1>4, FdsStay DEF Idle, Opening, tables, TypeInv
<1> QED
  BY <1>3, <1>4, <1>5, <1>6, <1>7, Together

LEMMA CloseLostTypes ==
    ASSUME TypeInv, NEW t \in Threads, NEW fd, CloseLost(t, fd), raced => raced'
    PROVE  TypeInv'
<1>1. /\ th[t].pc = "idle" /\ opened' = [opened EXCEPT ![t] = @ \ {fd}]
      /\ UNCHANGED <<serverVars, cacheVars, th, tables, cache_lock>>
  BY DEF CloseLost, Closes, At
<1>2. LocalOK(th[t]) /\ th[t] \in Locals
  BY DEF TypeInv, ThreadsOK
<1>3. ServerOK' /\ CacheOK' /\ FilesOK' /\ InodesGrow
  BY <1>1, CacheRests, ServerRests DEF TypeInv
<1>4. th'[t] = th[t] /\ Acts(t)
  BY <1>1 DEF TypeInv, ThreadsOK, Acts
<1>5. LocalOK(th[t])'
  BY <1>2, <1>3, <1>4, LocalStays DEF TypeInv
<1>6. TablesOK'
  <2>1. opened' \in [Threads -> SUBSET Fds]
    BY <1>1 DEF TypeInv, TablesOK
  <2>2. fd_files \in [DOMAIN fd_files -> DOMAIN inodes']
    BY <1>3 DEF TypeInv, TablesOK, InodesGrow
  <2>3. fd_files' = fd_files /\ fd_paths' = fd_paths
    BY <1>1 DEF tables
  <2> QED
    BY <1>1, <2>1, <2>2, <2>3 DEF TypeInv, TablesOK
<1>7. FdsOK'
  BY <1>1, <1>4, FdsStay DEF Opening, tables, TypeInv
<1> QED
  BY <1>3, <1>4, <1>5, <1>6, <1>7, Together

\* close of a descriptor forgets what the tables say of it.
LEMMA ForgetTyped ==
    ASSUME TypeInv, NEW t \in Threads, NEW fd, Forget(t, fd), InodesGrow,
           cache_lock' = cache_lock
    PROVE  TablesOK'
<1>1. /\ fd_paths' = Without(fd_paths, {fd}) /\ fd_files' = Without(fd_files, {fd})
      /\ opened' = [opened EXCEPT ![t] = @ \ {fd}]
  BY DEF Forget
<1>2. /\ fd_paths \in [DOMAIN fd_paths -> Names]
      /\ fd_files \in [DOMAIN fd_files -> DOMAIN inodes']
      /\ opened \in [Threads -> SUBSET Fds]
  BY DEF TypeInv, TablesOK, InodesGrow
<1>3. /\ fd_paths' \in [DOMAIN fd_paths \ {fd} -> Names]
      /\ DOMAIN fd_paths' = DOMAIN fd_paths \ {fd}
      /\ \A x \in DOMAIN fd_paths \ {fd} : fd_paths'[x] = fd_paths[x]
  BY <1>1, <1>2 DEF Without
<1>4. /\ fd_files' \in [DOMAIN fd_files \ {fd} -> DOMAIN inodes']
      /\ DOMAIN fd_files' = DOMAIN fd_files \ {fd}
  BY <1>1, <1>2 DEF Without
<1>5. opened' \in [Threads -> SUBSET Fds]
  BY <1>1, <1>2
<1>6. DOMAIN fd_paths' \subseteq Fds /\ DOMAIN fd_files' \subseteq Fds /\ cache_lock' \subseteq Threads
  BY <1>3, <1>4 DEF TypeInv, TablesOK
<1>7. \A x \in DOMAIN fd_paths' : fd_paths'[x].write => x \in DOMAIN fd_files'
  BY <1>3, <1>4 DEF TypeInv, TablesOK
<1> QED
  BY <1>3, <1>4, <1>5, <1>6, <1>7 DEF TablesOK

LEMMA CloseReaderTypes ==
    ASSUME TypeInv, NEW t \in Threads, NEW fd, CloseReader(t, fd), raced => raced'
    PROVE  TypeInv'
<1> DEFINE r == [Idle EXCEPT !.pc = "scan", !.op = "READ", !.path = fd_paths[fd].path,
                             !.ver = fd_paths[fd].ver]
<1>1. /\ fd \in DOMAIN fd_paths /\ RemoveReader(FdKey(fd)) /\ Forget(t, fd)
      /\ th' = [th EXCEPT ![t] = r] /\ UNCHANGED <<serverVars, curr_fd, cache_lock>>
  BY DEF CloseReader
<1>2. fd_paths[fd].path \in Paths /\ fd_paths[fd].ver \in Nat
  BY <1>1 DEF TypeInv, TablesOK, Names
<1>3. ServerOK' /\ CacheOK' /\ FilesOK' /\ InodesGrow
  BY <1>1, RemoveReaderEffect, ServerRests DEF TypeInv, CacheStep
<1>4. r \in Locals
  BY <1>2, IdleTyped DEF Locals, Scanning, OpenOps
<1>5. r.pc = "scan" /\ r.op = "READ" /\ r.path = fd_paths[fd].path /\ r.raf = 0 /\ r.copy = 0
  BY DEF Idle
<1> HIDE DEF r
<1>6. th'[t] = r /\ Acts(t)
  BY <1>1 DEF TypeInv, ThreadsOK, Acts
<1>7. Len(inodes') \in Nat
  BY <1>3 DEF FilesOK
<1>8. LocalOK(th[t])'
  BY <1>2, <1>4, <1>5, <1>6, <1>7
  DEF LocalOK, Resting, TakingFd, UsingFd, Scanning, Ending
<1>9. TablesOK'
  BY <1>1, <1>3, ForgetTyped
<1>10. FdsOK'
  BY <1>1, <1>5, <1>6, FdsStay DEF Opening, TypeInv
<1> QED
  BY <1>3, <1>6, <1>8, <1>9, <1>10, Together

LEMMA CloseWriterTypes ==
    ASSUME TypeInv, NEW t \in Threads, NEW fd \in Fds, CloseWriter(t, fd), raced => raced'
    PROVE  TypeInv'
<1> DEFINE r == [Idle EXCEPT !.pc = "scan", !.op = "CLOSE", !.path = fd_paths[fd].path,
                             !.ver = fd_paths[fd].ver, !.fd = fd, !.copy = fd_files[fd]]
           k == Key(fd_paths[fd].path, NewVersion(fd_paths[fd].ver), Shared)
<1>1. /\ fd \in DOMAIN fd_paths /\ fd_paths[fd].write /\ OpenFile(k)
      /\ th' = [th EXCEPT ![t] = r]
      /\ UNCHANGED <<serverVars, cache, opened, tables, cache_lock>>
  BY DEF CloseWriter
<1>2. fd_paths[fd].path \in Paths /\ fd_paths[fd].ver \in Nat /\ fd_files[fd] \in DOMAIN inodes
  BY <1>1 DEF TypeInv, TablesOK, Names
<1>3. k \in Keys
  BY <1>2 DEF Key, Keys, NewVersion
<1>4. FilesOK' /\ InodesGrow
  BY <1>1, <1>3, OpenFileEffect DEF TypeInv
<1>5. ServerOK' /\ CacheOK'
  BY <1>1, ServerRests DEF TypeInv, CacheOK
<1>6. fd_files[fd] \in DOMAIN inodes' /\ fd_files[fd] \in Nat /\ fd_files[fd] \in 0..Len(inodes')
         /\ Len(inodes') \in Nat
  BY <1>2, <1>4 DEF InodesGrow, FilesOK
<1>7. r \in Locals
  BY <1>2, <1>6, IdleTyped DEF Locals, Scanning
<1>8. /\ r.pc = "scan" /\ r.op = "CLOSE" /\ r.path = fd_paths[fd].path /\ r.raf = 0
      /\ r.copy = fd_files[fd] /\ r.fd = fd
  BY DEF Idle
<1> HIDE DEF r
<1>9. th'[t] = r /\ Acts(t)
  BY <1>1 DEF TypeInv, ThreadsOK, Acts
<1>10. LocalOK(th[t])'
  BY <1>2, <1>6, <1>7, <1>8, <1>9
  DEF LocalOK, Resting, TakingFd, UsingFd, Scanning, Ending
<1>11. TablesOK'
  BY <1>1, <1>4, TablesStay DEF TypeInv, TablesOK
<1>12. FdsOK'
  BY <1>1, <1>8, <1>9, FdsStay DEF Opening, TypeInv, tables
<1> QED
  BY <1>4, <1>5, <1>9, <1>10, <1>11, <1>12, Together

LEMMA StaleScanTypes ==
    ASSUME TypeInv, NEW t \in Threads, StaleScan(t), raced => raced'
    PROVE  TypeInv'
<1>1. /\ At(t, "scan")
      /\ th' = [th EXCEPT ![t].pc = "drop", ![t].victims = StaleEntries(cache, SharedKey(t))]
      /\ UNCHANGED <<serverVars, cacheVars, opened, tables, cache_lock>>
  BY DEF StaleScan
<1>2. LocalOK(th[t]) /\ th[t] \in Locals
  BY DEF TypeInv, ThreadsOK
<1>9. StaleEntries(cache, SharedKey(t)) \subseteq Keys
  BY DEF StaleEntries, TypeInv, CacheOK
<1>3. ServerOK' /\ CacheOK' /\ FilesOK' /\ InodesGrow
  BY <1>1, CacheRests, ServerRests DEF TypeInv
<1>4. Acts(t) /\ th'[t] = [th[t] EXCEPT !.pc = "drop",
                                           !.victims = StaleEntries(cache, SharedKey(t))]
  BY <1>1 DEF TypeInv, ThreadsOK, Acts
<1>5. /\ th'[t] \in Locals
      /\ th'[t].pc = "drop" /\ th'[t].op = th[t].op /\ th'[t].path = th[t].path
      /\ th'[t].raf = th[t].raf /\ th'[t].copy = th[t].copy
      /\ th'[t].fd = th[t].fd /\ th'[t].len = th[t].len
  <2>1. [th[t] EXCEPT !.pc = "drop",
                                           !.victims = StaleEntries(cache, SharedKey(t))] \in Locals
    BY <1>2, <1>9 DEF Locals, Resting, TakingFd, UsingFd, Scanning, Ending
  <2>2. /\ th'[t].pc = "drop" /\ th'[t].op = th[t].op /\ th'[t].path = th[t].path
        /\ th'[t].raf = th[t].raf /\ th'[t].copy = th[t].copy
        /\ th'[t].fd = th[t].fd /\ th'[t].len = th[t].len
    BY <1>2, <1>4 DEF Locals
  <2> QED
    BY <1>4, <2>1, <2>2
<1>6. LocalOK(th[t])'
  <2>1. /\ th[t].raf \in DOMAIN inodes => th[t].raf \in DOMAIN inodes'
        /\ th[t].copy \in DOMAIN inodes => th[t].copy \in DOMAIN inodes'
        /\ th[t].raf \in 0..Len(inodes') /\ th[t].copy \in 0..Len(inodes')
        /\ \A i \in DOMAIN inodes : th[t].len <= Len(inodes[i]) => th[t].len <= Len(inodes'[i])
    BY <1>2, <1>3, LocalsKept DEF TypeInv
  <2> QED
    BY <1>1, <1>2, <1>5, <2>1
    DEF LocalOK, At, Resting, TakingFd, UsingFd, Scanning, Ending, OpenOps
<1>7. TablesOK'
  BY <1>1, <1>3, TablesStay DEF TypeInv, TablesOK, Locked, Unlocked
<1>8. FdsOK'
  BY <1>1, <1>4, <1>5, FdsStay DEF At, Opening, tables, TypeInv
<1> QED
  BY <1>3, <1>4, <1>6, <1>7, <1>8, Together

LEMMA StaleDropReadTypes ==
    ASSUME TypeInv, NEW t \in Threads, StaleDrop(t), Reading(t), raced => raced'
    PROVE  TypeInv'
<1>1. /\ DropStale(th[t].victims) /\ th' = [th EXCEPT ![t] = Idle]
      /\ UNCHANGED <<serverVars, opened, tables, cache_lock>>
  BY DEF StaleDrop, Return
<1>2. LocalOK(th[t]) /\ th[t] \in Locals
  BY DEF TypeInv, ThreadsOK
<1>3. ServerOK' /\ CacheOK' /\ FilesOK' /\ InodesGrow
  BY <1>1, DropStaleEffect, ServerRests DEF TypeInv, CacheStep
<1>4. th'[t] = Idle /\ Acts(t)
  BY <1>1 DEF TypeInv, ThreadsOK, Acts
<1>5. LocalOK(th[t])'
  BY <1>3, <1>4, RestOK
<1>6. TablesOK'
  BY <1>1, <1>3, TablesStay DEF TypeInv, TablesOK
<1>7. FdsOK'
  BY <1>1, <1>4, FdsStay DEF Idle, Opening, tables, TypeInv
<1> QED
  BY <1>3, <1>4, <1>5, <1>6, <1>7, Together

LEMMA StaleDropWriteTypes ==
    ASSUME TypeInv, NEW t \in Threads, StaleDrop(t), ~Reading(t), raced => raced'
    PROVE  TypeInv'
<1>1. /\ At(t, "drop") /\ th[t].op # "READ" /\ DropStale(th[t].victims)
      /\ th' = [th EXCEPT ![t].pc = "put", ![t].victims = {}]
      /\ UNCHANGED <<serverVars, opened, tables, cache_lock>>
  BY DEF StaleDrop, Reading
<1>2. LocalOK(th[t]) /\ th[t] \in Locals
  BY DEF TypeInv, ThreadsOK
<1>3. ServerOK' /\ CacheOK' /\ FilesOK' /\ InodesGrow
  BY <1>1, DropStaleEffect, ServerRests DEF TypeInv, CacheStep
<1>4. Acts(t) /\ th'[t] = [th[t] EXCEPT !.pc = "put", !.victims = {}]
  BY <1>1 DEF TypeInv, ThreadsOK, Acts
<1>5. /\ th'[t] \in Locals
      /\ th'[t].pc = "put" /\ th'[t].op = th[t].op /\ th'[t].path = th[t].path
      /\ th'[t].raf = th[t].raf /\ th'[t].copy = th[t].copy
      /\ th'[t].fd = th[t].fd /\ th'[t].len = th[t].len
  <2>1. [th[t] EXCEPT !.pc = "put", !.victims = {}] \in Locals
    BY <1>2 DEF Locals, Resting, TakingFd, UsingFd, Scanning, Ending
  <2>2. /\ th'[t].pc = "put" /\ th'[t].op = th[t].op /\ th'[t].path = th[t].path
        /\ th'[t].raf = th[t].raf /\ th'[t].copy = th[t].copy
        /\ th'[t].fd = th[t].fd /\ th'[t].len = th[t].len
    BY <1>2, <1>4 DEF Locals
  <2> QED
    BY <1>4, <2>1, <2>2
<1>6. LocalOK(th[t])'
  <2>1. /\ th[t].raf \in DOMAIN inodes => th[t].raf \in DOMAIN inodes'
        /\ th[t].copy \in DOMAIN inodes => th[t].copy \in DOMAIN inodes'
        /\ th[t].raf \in 0..Len(inodes') /\ th[t].copy \in 0..Len(inodes')
        /\ \A i \in DOMAIN inodes : th[t].len <= Len(inodes[i]) => th[t].len <= Len(inodes'[i])
    BY <1>2, <1>3, LocalsKept DEF TypeInv
  <2> QED
    BY <1>1, <1>2, <1>5, <2>1
    DEF LocalOK, At, Resting, TakingFd, UsingFd, Scanning, Ending, OpenOps
<1>7. TablesOK'
  BY <1>1, <1>3, TablesStay DEF TypeInv, TablesOK, Locked, Unlocked
<1>8. FdsOK'
  BY <1>1, <1>4, <1>5, FdsStay DEF At, Opening, tables, TypeInv
<1> QED
  BY <1>3, <1>4, <1>6, <1>7, <1>8, Together

LEMMA ClosePutTypes ==
    ASSUME TypeInv, NEW t \in Threads, ClosePut(t), raced => raced'
    PROVE  TypeInv'
<1>1. /\ At(t, "put") /\ Put(SharedKey(t)) /\ Go(t, "lengths")
      /\ UNCHANGED <<serverVars, opened, tables, cache_lock>>
  BY DEF ClosePut
<1>2. LocalOK(th[t]) /\ th[t] \in Locals
  BY DEF TypeInv, ThreadsOK
<1>9. SharedKey(t) \in Keys
  BY <1>1, <1>2, KeysOfThread DEF SharedKey, At, Resting
<1>3. ServerOK' /\ CacheOK' /\ FilesOK' /\ InodesGrow
  BY <1>1, <1>9, PutEffect, ServerRests DEF TypeInv, CacheStep
<1>4. Acts(t) /\ th'[t] = [th[t] EXCEPT !.pc = "lengths"]
  BY <1>1 DEF TypeInv, ThreadsOK, Acts, Go
<1>5. /\ th'[t] \in Locals
      /\ th'[t].pc = "lengths" /\ th'[t].op = th[t].op /\ th'[t].path = th[t].path
      /\ th'[t].raf = th[t].raf /\ th'[t].copy = th[t].copy
      /\ th'[t].fd = th[t].fd /\ th'[t].len = th[t].len
  <2>1. [th[t] EXCEPT !.pc = "lengths"] \in Locals
    BY <1>2 DEF Locals, Resting, TakingFd, UsingFd, Scanning, Ending
  <2>2. /\ th'[t].pc = "lengths" /\ th'[t].op = th[t].op /\ th'[t].path = th[t].path
        /\ th'[t].raf = th[t].raf /\ th'[t].copy = th[t].copy
        /\ th'[t].fd = th[t].fd /\ th'[t].len = th[t].len
    BY <1>2, <1>4 DEF Locals
  <2> QED
    BY <1>4, <2>1, <2>2
<1>6. LocalOK(th[t])'
  <2>1. /\ th[t].raf \in DOMAIN inodes => th[t].raf \in DOMAIN inodes'
        /\ th[t].copy \in DOMAIN inodes => th[t].copy \in DOMAIN inodes'
        /\ th[t].raf \in 0..Len(inodes') /\ th[t].copy \in 0..Len(inodes')
        /\ \A i \in DOMAIN inodes : th[t].len <= Len(inodes[i]) => th[t].len <= Len(inodes'[i])
    BY <1>2, <1>3, LocalsKept DEF TypeInv
  <2> QED
    BY <1>1, <1>2, <1>5, <2>1
    DEF LocalOK, At, Resting, TakingFd, UsingFd, Scanning, Ending, OpenOps
<1>7. TablesOK'
  BY <1>1, <1>3, TablesStay DEF TypeInv, TablesOK, Locked, Unlocked
<1>8. FdsOK'
  BY <1>1, <1>4, <1>5, FdsStay DEF At, Opening, tables, TypeInv
<1> QED
  BY <1>3, <1>4, <1>6, <1>7, <1>8, Together

LEMMA CloseLengthsTypes ==
    ASSUME TypeInv, NEW t \in Threads, CloseLengths(t), raced => raced'
    PROVE  TypeInv'
<1>1. /\ At(t, "lengths") /\ OpenFile(SharedKey(t))
      /\ th' = [th EXCEPT ![t].pc = "send", ![t].raf = InodeOf(SharedKey(t)),
                          ![t].len = Len(inodes[th[t].copy]),
                          ![t].old = FileLength(SharedKey(t))]
      /\ UNCHANGED <<serverVars, cache, opened, tables, cache_lock>>
  BY DEF CloseLengths
<1>2. LocalOK(th[t]) /\ th[t] \in Locals
  BY DEF TypeInv, ThreadsOK
<1>9. SharedKey(t) \in Keys
  BY <1>1, <1>2, KeysOfThread DEF SharedKey, At, Resting
<1>10. FilesOK' /\ InodesGrow /\ InodeOf(SharedKey(t)) \in DOMAIN inodes'
  BY <1>1, <1>9, OpenFileEffect DEF TypeInv
<1>11. InodeOf(SharedKey(t)) \in Nat /\ InodeOf(SharedKey(t)) \in 0..Len(inodes')
  BY <1>10 DEF FilesOK
<1>12. th[t].copy \in DOMAIN inodes
  BY <1>1, <1>2 DEF LocalOK, At, Ending
<1>13. /\ Len(inodes[th[t].copy]) \in Nat
       /\ Len(inodes[th[t].copy]) <= Len(inodes'[th[t].copy])
       /\ FileLength(SharedKey(t)) \in Int
  BY <1>10, <1>12, LengthTyped DEF TypeInv, FilesOK, InodesGrow
<1>3. ServerOK' /\ CacheOK' /\ FilesOK' /\ InodesGrow
  BY <1>1, <1>10, ServerRests DEF TypeInv, CacheOK
<1>4. Acts(t) /\ th'[t] = [th[t] EXCEPT !.pc = "send", !.raf = InodeOf(SharedKey(t)),
                                           !.len = Len(inodes[th[t].copy]),
                                           !.old = FileLength(SharedKey(t))]
  BY <1>1 DEF TypeInv, ThreadsOK, Acts
<1>5. /\ th'[t] \in Locals
      /\ th'[t].pc = "send" /\ th'[t].op = th[t].op /\ th'[t].path = th[t].path
      /\ th'[t].raf = InodeOf(SharedKey(t)) /\ th'[t].copy = th[t].copy
      /\ th'[t].fd = th[t].fd /\ th'[t].len = Len(inodes[th[t].copy])
  <2>1. [th[t] EXCEPT !.pc = "send", !.raf = InodeOf(SharedKey(t)),
                                           !.len = Len(inodes[th[t].copy]),
                                           !.old = FileLength(SharedKey(t))] \in Locals
    BY <1>2, <1>11, <1>13 DEF Locals, Resting, TakingFd, UsingFd, Scanning, Ending
  <2>2. /\ th'[t].pc = "send" /\ th'[t].op = th[t].op /\ th'[t].path = th[t].path
        /\ th'[t].raf = InodeOf(SharedKey(t)) /\ th'[t].copy = th[t].copy
        /\ th'[t].fd = th[t].fd /\ th'[t].len = Len(inodes[th[t].copy])
    BY <1>2, <1>4 DEF Locals
  <2> QED
    BY <1>4, <2>1, <2>2
<1>6. LocalOK(th[t])'
  <2>1. /\ th[t].raf \in DOMAIN inodes => th[t].raf \in DOMAIN inodes'
        /\ th[t].copy \in DOMAIN inodes => th[t].copy \in DOMAIN inodes'
        /\ th[t].raf \in 0..Len(inodes') /\ th[t].copy \in 0..Len(inodes')
        /\ \A i \in DOMAIN inodes : th[t].len <= Len(inodes[i]) => th[t].len <= Len(inodes'[i])
    BY <1>2, <1>3, LocalsKept DEF TypeInv
  <2> QED
    BY <1>1, <1>2, <1>5, <2>1, <1>10, <1>11, <1>12, <1>13
    DEF LocalOK, At, Resting, TakingFd, UsingFd, Scanning, Ending, OpenOps
<1>7. TablesOK'
  BY <1>1, <1>3, TablesStay DEF TypeInv, TablesOK, Locked, Unlocked
<1>8. FdsOK'
  BY <1>1, <1>4, <1>5, FdsStay DEF At, Opening, tables, TypeInv
<1> QED
  BY <1>3, <1>4, <1>6, <1>7, <1>8, Together

LEMMA SendChunkTypes ==
    ASSUME TypeInv, NEW t \in Threads, SendChunk(t), Bumps(th[t].path), raced => raced'
    PROVE  TypeInv'
<1>1. /\ At(t, "send") /\ th[t].pos < th[t].len
      /\ WriteChunk(th[t].raf, th[t].pos, Zero)
      /\ updateFile(th[t].path, th[t].pos, inodes[th[t].copy][th[t].pos + 1])
      /\ Go(t, "store") /\ UNCHANGED <<opened, tables, cache_lock>>
  BY DEF SendChunk
<1>2. LocalOK(th[t]) /\ th[t] \in Locals
  BY DEF TypeInv, ThreadsOK
<1>9. /\ th[t].pos \in Nat /\ th[t].raf \in DOMAIN inodes /\ th[t].copy \in DOMAIN inodes
      /\ th[t].len \in Nat /\ th[t].len <= Len(inodes[th[t].copy]) /\ th[t].pos < th[t].len
      /\ th[t].path \in Paths
  BY <1>1, <1>2 DEF At, LocalOK, Locals, Resting, Ending
<1>10. inodes[th[t].copy][th[t].pos + 1] \in Chunks
  <2>1. inodes[th[t].copy] \in Seq(Chunks)
    BY <1>9 DEF TypeInv, FilesOK
  <2> QED
    BY <1>9, <2>1
<1>11. FilesOK' /\ InodesGrow /\ cache' = cache
  BY <1>1, <1>9, ChunksAssumption, WriteEffect DEF TypeInv
<1>3. ServerOK' /\ CacheOK' /\ FilesOK' /\ InodesGrow
  BY <1>1, <1>9, <1>10, <1>11, UpdateKeeps DEF TypeInv, CacheOK
<1>4. Acts(t) /\ th'[t] = [th[t] EXCEPT !.pc = "store"]
  BY <1>1 DEF TypeInv, ThreadsOK, Acts, Go
<1>5. /\ th'[t] \in Locals
      /\ th'[t].pc = "store" /\ th'[t].op = th[t].op /\ th'[t].path = th[t].path
      /\ th'[t].raf = th[t].raf /\ th'[t].copy = th[t].copy
      /\ th'[t].fd = th[t].fd /\ th'[t].len = th[t].len
      /\ th'[t].pos = th[t].pos
  <2>1. [th[t] EXCEPT !.pc = "store"] \in Locals
    BY <1>2 DEF Locals, Resting, TakingFd, UsingFd, Scanning, Ending
  <2>2. /\ th'[t].pc = "store" /\ th'[t].op = th[t].op /\ th'[t].path = th[t].path
        /\ th'[t].raf = th[t].raf /\ th'[t].copy = th[t].copy
        /\ th'[t].fd = th[t].fd /\ th'[t].len = th[t].len
        /\ th'[t].pos = th[t].pos
    BY <1>2, <1>4 DEF Locals
  <2> QED
    BY <1>4, <2>1, <2>2
<1>6. LocalOK(th[t])'
  <2>1. /\ th[t].raf \in DOMAIN inodes => th[t].raf \in DOMAIN inodes'
        /\ th[t].copy \in DOMAIN inodes => th[t].copy \in DOMAIN inodes'
        /\ th[t].raf \in 0..Len(inodes') /\ th[t].copy \in 0..Len(inodes')
        /\ \A i \in DOMAIN inodes : th[t].len <= Len(inodes[i]) => th[t].len <= Len(inodes'[i])
    BY <1>2, <1>3, LocalsKept DEF TypeInv
  <2> QED
    BY <1>1, <1>2, <1>5, <2>1, <1>9
    DEF LocalOK, At, Resting, TakingFd, UsingFd, Scanning, Ending, OpenOps
<1>7. TablesOK'
  BY <1>1, <1>3, TablesStay DEF TypeInv, TablesOK, Locked, Unlocked
<1>8. FdsOK'
  BY <1>1, <1>4, <1>5, FdsStay DEF At, Opening, tables, TypeInv
<1> QED
  BY <1>3, <1>4, <1>6, <1>7, <1>8, Together

LEMMA SendFailsTypes ==
    ASSUME TypeInv, NEW t \in Threads, SendChunk(t), ~Bumps(th[t].path), raced => raced'
    PROVE  TypeInv'
<1>1. /\ At(t, "send") /\ th[t].pos < th[t].len
      /\ WriteChunk(th[t].raf, th[t].pos, Zero)
      /\ updateFile(th[t].path, th[t].pos, inodes[th[t].copy][th[t].pos + 1])
      /\ th' = [th EXCEPT ![t] = [Idle EXCEPT !.pc = "dead"]]
      /\ UNCHANGED <<opened, tables, cache_lock>>
  BY DEF SendChunk, Die
<1>2. LocalOK(th[t]) /\ th[t] \in Locals
  BY DEF TypeInv, ThreadsOK
<1>9. /\ th[t].pos \in Nat /\ th[t].raf \in DOMAIN inodes /\ th[t].copy \in DOMAIN inodes
      /\ th[t].len \in Nat /\ th[t].len <= Len(inodes[th[t].copy]) /\ th[t].pos < th[t].len
      /\ th[t].path \in Paths
  BY <1>1, <1>2 DEF At, LocalOK, Locals, Resting, Ending
<1>10. inodes[th[t].copy][th[t].pos + 1] \in Chunks
  <2>1. inodes[th[t].copy] \in Seq(Chunks)
    BY <1>9 DEF TypeInv, FilesOK
  <2> QED
    BY <1>9, <2>1
<1>11. FilesOK' /\ InodesGrow /\ cache' = cache
  BY <1>1, <1>9, ChunksAssumption, WriteEffect DEF TypeInv
<1>3. ServerOK' /\ CacheOK' /\ FilesOK' /\ InodesGrow
  BY <1>1, <1>9, <1>10, <1>11, UpdateKeeps DEF TypeInv, CacheOK
<1>4. th'[t] = [Idle EXCEPT !.pc = "dead"] /\ Acts(t)
  BY <1>1 DEF TypeInv, ThreadsOK, Acts
<1>5. LocalOK(th[t])'
  BY <1>3, <1>4, RestOK
<1>6. TablesOK'
  BY <1>1, <1>3, TablesStay DEF TypeInv, TablesOK
<1>7. FdsOK'
  BY <1>1, <1>4, FdsStay DEF Idle, Opening, tables, TypeInv
<1> QED
  BY <1>3, <1>4, <1>5, <1>6, <1>7, Together

LEMMA StoreChunkTypes ==
    ASSUME TypeInv, NEW t \in Threads, StoreChunk(t), raced => raced'
    PROVE  TypeInv'
<1>1. /\ At(t, "store")
      /\ WriteChunk(th[t].raf, th[t].pos, inodes[th[t].copy][th[t].pos + 1])
      /\ th' = [th EXCEPT ![t].pc = "send", ![t].pos = NextPos(@)]
      /\ UNCHANGED <<serverVars, opened, tables, cache_lock>>
  BY DEF StoreChunk
<1>2. LocalOK(th[t]) /\ th[t] \in Locals
  BY DEF TypeInv, ThreadsOK
<1>9. /\ th[t].pos \in Nat /\ th[t].raf \in DOMAIN inodes /\ th[t].copy \in DOMAIN inodes
      /\ th[t].len \in Nat /\ th[t].len <= Len(inodes[th[t].copy]) /\ th[t].pos < th[t].len
      /\ th[t].path \in Paths
  BY <1>1, <1>2 DEF At, LocalOK, Locals, Resting, Ending
<1>10. inodes[th[t].copy][th[t].pos + 1] \in Chunks
  <2>1. inodes[th[t].copy] \in Seq(Chunks)
    BY <1>9 DEF TypeInv, FilesOK
  <2> QED
    BY <1>9, <2>1
<1>11. FilesOK' /\ InodesGrow /\ cache' = cache
  BY <1>1, <1>9, <1>10, WriteEffect DEF TypeInv
<1>12. NextPos(th[t].pos) \in Nat
  BY <1>9 DEF NextPos
<1>3. ServerOK' /\ CacheOK' /\ FilesOK' /\ InodesGrow
  BY <1>1, <1>11, ServerRests DEF TypeInv, CacheOK
<1>4. Acts(t) /\ th'[t] = [th[t] EXCEPT !.pc = "send", !.pos = NextPos(@)]
  BY <1>1 DEF TypeInv, ThreadsOK, Acts
<1>5. /\ th'[t] \in Locals
      /\ th'[t].pc = "send" /\ th'[t].op = th[t].op /\ th'[t].path = th[t].path
      /\ th'[t].raf = th[t].raf /\ th'[t].copy = th[t].copy
      /\ th'[t].fd = th[t].fd /\ th'[t].len = th[t].len
  <2>1. [th[t] EXCEPT !.pc = "send", !.pos = NextPos(@)] \in Locals
    BY <1>2, <1>12 DEF Locals, Resting, TakingFd, UsingFd, Scanning, Ending
  <2>2. /\ th'[t].pc = "send" /\ th'[t].op = th[t].op /\ th'[t].path = th[t].path
        /\ th'[t].raf = th[t].raf /\ th'[t].copy = th[t].copy
        /\ th'[t].fd = th[t].fd /\ th'[t].len = th[t].len
    BY <1>2, <1>4 DEF Locals
  <2> QED
    BY <1>4, <2>1, <2>2
<1>6. LocalOK(th[t])'
  <2>1. /\ th[t].raf \in DOMAIN inodes => th[t].raf \in DOMAIN inodes'
        /\ th[t].copy \in DOMAIN inodes => th[t].copy \in DOMAIN inodes'
        /\ th[t].raf \in 0..Len(inodes') /\ th[t].copy \in 0..Len(inodes')
        /\ \A i \in DOMAIN inodes : th[t].len <= Len(inodes[i]) => th[t].len <= Len(inodes'[i])
    BY <1>2, <1>3, LocalsKept DEF TypeInv
  <2> QED
    BY <1>1, <1>2, <1>5, <2>1, <1>9
    DEF LocalOK, At, Resting, TakingFd, UsingFd, Scanning, Ending, OpenOps
<1>7. TablesOK'
  BY <1>1, <1>3, TablesStay DEF TypeInv, TablesOK, Locked, Unlocked
<1>8. FdsOK'
  BY <1>1, <1>4, <1>5, FdsStay DEF At, Opening, tables, TypeInv
<1> QED
  BY <1>3, <1>4, <1>6, <1>7, <1>8, Together

LEMMA SettleReadTypes ==
    ASSUME TypeInv, NEW t \in Threads, SettleRead(t), raced => raced'
    PROVE  TypeInv'
<1>1. /\ At(t, "send") /\ Locked(t)
      /\ th' = [th EXCEPT ![t].pc = "settle",
                          ![t].old = cache.size + th[t].len - th[t].old]
      /\ UNCHANGED <<serverVars, cacheVars, opened, tables>>
  BY DEF SettleRead
<1>2. LocalOK(th[t]) /\ th[t] \in Locals
  BY DEF TypeInv, ThreadsOK
<1>9. cache.size + th[t].len - th[t].old \in Int
  BY <1>2 DEF Locals, TypeInv, CacheOK
<1>3. ServerOK' /\ CacheOK' /\ FilesOK' /\ InodesGrow
  BY <1>1, CacheRests, ServerRests DEF TypeInv
<1>4. Acts(t) /\ th'[t] = [th[t] EXCEPT !.pc = "settle",
                                           !.old = cache.size + th[t].len - th[t].old]
  BY <1>1 DEF TypeInv, ThreadsOK, Acts
<1>5. /\ th'[t] \in Locals
      /\ th'[t].pc = "settle" /\ th'[t].op = th[t].op /\ th'[t].path = th[t].path
      /\ th'[t].raf = th[t].raf /\ th'[t].copy = th[t].copy
      /\ th'[t].fd = th[t].fd /\ th'[t].len = th[t].len
  <2>1. [th[t] EXCEPT !.pc = "settle",
                                           !.old = cache.size + th[t].len - th[t].old] \in Locals
    BY <1>2, <1>9 DEF Locals, Resting, TakingFd, UsingFd, Scanning, Ending
  <2>2. /\ th'[t].pc = "settle" /\ th'[t].op = th[t].op /\ th'[t].path = th[t].path
        /\ th'[t].raf = th[t].raf /\ th'[t].copy = th[t].copy
        /\ th'[t].fd = th[t].fd /\ th'[t].len = th[t].len
    BY <1>2, <1>4 DEF Locals
  <2> QED
    BY <1>4, <2>1, <2>2
<1>6. LocalOK(th[t])'
  <2>1. /\ th[t].raf \in DOMAIN inodes => th[t].raf \in DOMAIN inodes'
        /\ th[t].copy \in DOMAIN inodes => th[t].copy \in DOMAIN inodes'
        /\ th[t].raf \in 0..Len(inodes') /\ th[t].copy \in 0..Len(inodes')
        /\ \A i \in DOMAIN inodes : th[t].len <= Len(inodes[i]) => th[t].len <= Len(inodes'[i])
    BY <1>2, <1>3, LocalsKept DEF TypeInv
  <2> QED
    BY <1>1, <1>2, <1>5, <2>1
    DEF LocalOK, At, Resting, TakingFd, UsingFd, Scanning, Ending, OpenOps
<1>7. TablesOK'
  BY <1>1, <1>3, TablesStay DEF TypeInv, TablesOK, Locked, Unlocked
<1>8. FdsOK'
  BY <1>1, <1>4, <1>5, FdsStay DEF At, Opening, tables, TypeInv
<1> QED
  BY <1>3, <1>4, <1>6, <1>7, <1>8, Together

LEMMA SettleWriteTypes ==
    ASSUME TypeInv, NEW t \in Threads, SettleWrite(t), raced => raced'
    PROVE  TypeInv'
<1>1. /\ At(t, "settle") /\ cache' = [cache EXCEPT !.size = th[t].old]
      /\ cache_lock' = {} /\ Go(t, "release")
      /\ UNCHANGED <<serverVars, disk, inodes, opened, tables>>
  BY DEF SettleWrite, Unlocked
<1>2. LocalOK(th[t]) /\ th[t] \in Locals
  BY DEF TypeInv, ThreadsOK
<1>3. ServerOK' /\ CacheOK' /\ FilesOK' /\ InodesGrow
  <2>1. th[t].old \in Int
    BY <1>2 DEF Locals
  <2>2. cache' = [entries |-> cache.entries, clients |-> cache.clients, size |-> th[t].old]
    BY <1>1 DEF TypeInv, CacheOK
  <2>3. cache'.entries = cache.entries /\ cache'.clients = cache.clients
           /\ cache'.size = th[t].old
    BY <2>2
  <2>4. CacheOK'
    BY <2>1, <2>2, <2>3 DEF TypeInv, CacheOK
  <2> QED
    BY <1>1, <2>4, FilesRest, ServerRests DEF TypeInv
<1>4. Acts(t) /\ th'[t] = [th[t] EXCEPT !.pc = "release"]
  BY <1>1 DEF TypeInv, ThreadsOK, Acts, Go
<1>5. /\ th'[t] \in Locals
      /\ th'[t].pc = "release" /\ th'[t].op = th[t].op /\ th'[t].path = th[t].path
      /\ th'[t].raf = th[t].raf /\ th'[t].copy = th[t].copy
      /\ th'[t].fd = th[t].fd /\ th'[t].len = th[t].len
  <2>1. [th[t] EXCEPT !.pc = "release"] \in Locals
    BY <1>2 DEF Locals, Resting, TakingFd, UsingFd, Scanning, Ending
  <2>2. /\ th'[t].pc = "release" /\ th'[t].op = th[t].op /\ th'[t].path = th[t].path
        /\ th'[t].raf = th[t].raf /\ th'[t].copy = th[t].copy
        /\ th'[t].fd = th[t].fd /\ th'[t].len = th[t].len
    BY <1>2, <1>4 DEF Locals
  <2> QED
    BY <1>4, <2>1, <2>2
<1>6. LocalOK(th[t])'
  <2>1. /\ th[t].raf \in DOMAIN inodes => th[t].raf \in DOMAIN inodes'
        /\ th[t].copy \in DOMAIN inodes => th[t].copy \in DOMAIN inodes'
        /\ th[t].raf \in 0..Len(inodes') /\ th[t].copy \in 0..Len(inodes')
        /\ \A i \in DOMAIN inodes : th[t].len <= Len(inodes[i]) => th[t].len <= Len(inodes'[i])
    BY <1>2, <1>3, LocalsKept DEF TypeInv
  <2> QED
    BY <1>1, <1>2, <1>5, <2>1
    DEF LocalOK, At, Resting, TakingFd, UsingFd, Scanning, Ending, OpenOps
<1>7. TablesOK'
  BY <1>1, <1>3, TablesStay DEF TypeInv, TablesOK, Locked, Unlocked
<1>8. FdsOK'
  BY <1>1, <1>4, <1>5, FdsStay DEF At, Opening, tables, TypeInv
<1> QED
  BY <1>3, <1>4, <1>6, <1>7, <1>8, Together

LEMMA ReleaseTypes ==
    ASSUME TypeInv, NEW t \in Threads, Release(t), raced => raced'
    PROVE  TypeInv'
<1>1. /\ RemoveWriter(CopyKey(t)) /\ Forget(t, th[t].fd)
      /\ th' = [th EXCEPT ![t] = Idle] /\ UNCHANGED <<serverVars, curr_fd, cache_lock>>
  BY DEF Release, Return
<1>2. LocalOK(th[t]) /\ th[t] \in Locals
  BY DEF TypeInv, ThreadsOK
<1>3. ServerOK' /\ CacheOK' /\ FilesOK' /\ InodesGrow
  BY <1>1, RemoveWriterEffect, ServerRests DEF TypeInv, CacheStep
<1>4. th'[t] = Idle /\ Acts(t)
  BY <1>1 DEF TypeInv, ThreadsOK, Acts
<1>5. LocalOK(th[t])'
  BY <1>3, <1>4, RestOK
<1>6. TablesOK'
  BY <1>1, <1>3, ForgetTyped
<1>7. FdsOK'
  BY <1>1, <1>4, FdsStay DEF Idle, Opening, tables, TypeInv
<1> QED
  BY <1>3, <1>4, <1>5, <1>6, <1>7, Together

LEMMA TypesStutter ==
    ASSUME TypeInv, UNCHANGED allVars
    PROVE  TypeInv'
<1>1. UNCHANGED <<serverVars, cacheVars, th, opened, tables, cache_lock, raced>>
  BY DEF allVars, vars
<1>2. ServerOK' /\ CacheOK' /\ FilesOK' /\ InodesGrow
  BY <1>1, CacheRests, ServerRests DEF TypeInv
<1>3. TablesOK'
  BY <1>1, <1>2, TablesStay DEF TypeInv, TablesOK
<1>4. ThreadsOK'
  BY <1>1 DEF TypeInv, ThreadsOK, LocalOK, cacheVars
<1>5. FdsOK'
  BY <1>1 DEF TypeInv, FdsOK, Openers, Opening, At, tables
<1> QED
  BY <1>2, <1>3, <1>4, <1>5 DEF TypeInv

LEMMA OpenStepTypes ==
    ASSUME TypeInv, NEW t \in Threads, OpenStep(t), History
    PROVE  TypeInv'
<1>1. raced => raced'
  BY DEF History
<1>2. FdsRace' => raced'
  BY DEF History
<1>3. CASE OpenHit(t)
  BY <1>1, <1>3, OpenHitReadTypes, OpenHitWriteTypes
<1>4. CASE CachePut(t)
  BY <1>1, <1>4, CachePutReadTypes, CachePutWriteTypes
<1>5. CASE BumpFd(t)
  BY <1>1, <1>5, BumpFdReadTypes, BumpFdWriteTypes
<1>6. CASE ReadFd(t)
  BY <1>1, <1>2, <1>6, ReadFdTypes
<1>7. CASE OpenRefused(t) \/ OpenMiss(t) \/ FetchLength(t) \/ FetchChunk(t) \/ FetchFails(t)
  BY <1>1, <1>7, OpenRefusedTypes, OpenMissTypes, FetchLengthTypes, FetchChunkTypes,
     FetchFailsTypes
<1>8. CASE Count(t) \/ Unlock(t) \/ OpenReader(t)
  BY <1>1, <1>8, CountTypes, UnlockTypes, OpenReaderTypes
<1>9. CASE OpenWriter(t) \/ CopyChunk(t) \/ PutCopy(t) \/ OwnCopy(t)
  BY <1>1, <1>9, OpenWriterTypes, CopyChunkTypes, PutCopyTypes, OwnCopyTypes
<1> QED
  BY <1>3, <1>4, <1>5, <1>6, <1>7, <1>8, <1>9 DEF OpenStep

LEMMA CloseStepTypes ==
    ASSUME TypeInv, NEW t \in Threads, CloseStep(t), raced => raced'
    PROVE  TypeInv'
<1>1. CASE StaleDrop(t)
  BY <1>1, StaleDropReadTypes, StaleDropWriteTypes
<1>2. CASE SendChunk(t)
  BY <1>2, SendChunkTypes, SendFailsTypes
<1>3. CASE StaleScan(t) \/ ClosePut(t) \/ CloseLengths(t) \/ StoreChunk(t)
  BY <1>3, StaleScanTypes, ClosePutTypes, CloseLengthsTypes, StoreChunkTypes
<1>4. CASE SettleRead(t) \/ SettleWrite(t) \/ Release(t)
  BY <1>4, SettleReadTypes, SettleWriteTypes, ReleaseTypes
<1> QED
  BY <1>1, <1>2, <1>3, <1>4 DEF CloseStep

LEMMA CallTypes ==
    ASSUME TypeInv, NEW t \in Threads, Call(t), raced => raced'
    PROVE  TypeInv'
<1>1. CASE \E p \in Paths, o \in Modes[t] : Open(t, p, o)
  BY <1>1, OpenTypes
<1>2. CASE \E fd \in Fds : \E pos \in 0..MaxChunks : Write(t, fd, pos)
  <2>1. PICK fd \in Fds, pos \in 0..MaxChunks : Write(t, fd, pos)
    BY <1>2
  <2>2. pos \in Nat
    BY <2>1
  <2> QED
    BY <2>1, <2>2, WriteTypes
<1>3. CASE \E fd \in Fds : \/ CloseReader(t, fd) \/ CloseWriter(t, fd)
                           \/ CloseLost(t, fd) \/ CloseUnknown(t, fd)
  BY <1>3, CloseReaderTypes, CloseWriterTypes, CloseLostTypes, CloseUnknownTypes
<1>4. CASE \E p \in Paths : Unlink(t, p)
  BY <1>4, UnlinkTypes
<1> QED
  BY <1>1, <1>2, <1>3, <1>4 DEF Call

\* The type invariant is inductive.
LEMMA TypesInductive ==
    TypeInv /\ [Next]_allVars => TypeInv'
<1> SUFFICES ASSUME TypeInv, [Next]_allVars PROVE TypeInv'
  OBVIOUS
<1>1. CASE UNCHANGED allVars
  BY <1>1, TypesStutter
<1>2. CASE Next
  <2>1. PICK t \in Threads : Call(t) \/ OpenStep(t) \/ CloseStep(t)
    BY <1>2 DEF Next
  <2>2. History /\ (raced => raced')
    BY <1>2 DEF Next, History
  <2> QED
    BY <2>1, <2>2, CallTypes, OpenStepTypes, CloseStepTypes
<1> QED
  BY <1>1, <1>2

LEMMA EmptyFunction ==
    ASSUME NEW T
    PROVE  /\ DOMAIN <<>> = {} /\ <<>> \in [DOMAIN <<>> -> T]
  OBVIOUS

LEMMA TypesInitially == Init => TypeInv
<1> SUFFICES ASSUME Init PROVE TypeInv
  OBVIOUS
<1>1. ServerOK
  <2>1. served = Original /\ max_versions = <<>>
    BY DEF Init
  <2>3. Original \in [DOMAIN Original -> Seq(Chunks)]
    BY ProxyAssumption
  <2>4. max_versions \in [DOMAIN max_versions -> Nat \ {0}] /\ DOMAIN max_versions = {}
    BY <2>1, EmptyFunction
  <2> QED
    BY <2>1, <2>3, <2>4, ProxyAssumption DEF ServerOK
<1>2. CacheOK
  <2>1. cache = [entries |-> <<>>, clients |-> <<>>, size |-> 0]
    BY DEF Init
  <2>2. cache.entries = <<>> /\ cache.clients = <<>> /\ cache.size = 0
    BY <2>1
  <2>3. cache.entries \in [DOMAIN cache.entries -> Nat] /\ DOMAIN cache.entries = {}
    BY <2>2, EmptyFunction
  <2>4. cache.clients \in [DOMAIN cache.clients -> Nat] /\ DOMAIN cache.clients = {}
    BY <2>2, EmptyFunction
  <2> QED
    BY <2>1, <2>2, <2>3, <2>4, FS_EmptySet DEF CacheOK
<1>3. FilesOK
  <2>1. disk = <<>> /\ inodes = <<>>
    BY DEF Init
  <2>2. disk \in [DOMAIN disk -> DOMAIN inodes] /\ DOMAIN disk = {}
    BY <2>1, EmptyFunction
  <2>3. inodes \in Seq(Seq(Chunks))
    BY <2>1
  <2> QED
    BY <2>2, <2>3 DEF FilesOK
<1>4. ThreadsOK
  <2>1. th = [t \in Threads |-> Idle] /\ inodes = <<>>
    BY DEF Init
  <2>2. Idle.pc = "idle" /\ Idle.op = "none" /\ Idle.raf = 0 /\ Idle.copy = 0
    BY DEF Idle
  <2>3. Len(inodes) = 0
    BY <2>1
  <2>4. LocalOK(Idle)
    BY <2>2, <2>3, IdleTyped
    DEF LocalOK, Resting, TakingFd, UsingFd, Scanning, Ending
  <2> QED
    BY <2>1, <2>4, IdleTyped DEF ThreadsOK
<1>5. TablesOK
  <2>1. /\ opened = [t \in Threads |-> {}] /\ fd_paths = <<>> /\ fd_files = <<>>
        /\ cache_lock = {}
    BY DEF Init
  <2>2. fd_paths \in [DOMAIN fd_paths -> Names] /\ DOMAIN fd_paths = {}
    BY <2>1, EmptyFunction
  <2>3. fd_files \in [DOMAIN fd_files -> DOMAIN inodes] /\ DOMAIN fd_files = {}
    BY <2>1, EmptyFunction
  <2>4. opened \in [Threads -> SUBSET Fds]
    BY <2>1
  <2> QED
    BY <2>1, <2>2, <2>3, <2>4 DEF TablesOK
<1>6. FdsOK
  <2>1. curr_fd = FirstFd /\ \A t \in Threads : th[t] = Idle
    BY DEF Init
  <2>2. \A t \in Threads : ~Opening(t) /\ ~At(t, "bump")
    BY <2>1 DEF Idle, Opening, At
  <2>3. Openers = {}
    BY <2>2 DEF Openers
  <2> QED
    BY <2>1, <2>2, <2>3 DEF FdsOK, FirstFd
<1> QED
  BY <1>1, <1>2, <1>3, <1>4, <1>5, <1>6 DEF TypeInv

LEMMA TypesFollow == TypeInv => TypeOK
<1> SUFFICES ASSUME TypeInv PROVE TypeOK
  OBVIOUS
<1>1. /\ DOMAIN served \subseteq Paths
      /\ \A p \in DOMAIN served : served[p] \in Seq(Chunks)
      /\ DOMAIN max_versions \subseteq Paths
      /\ \A p \in DOMAIN max_versions : max_versions[p] \in Nat \ {0}
  BY DEF TypeInv, ServerOK
<1>2. /\ cache.entries \in [DOMAIN cache.entries -> Nat] /\ cache.size \in Int
      /\ DOMAIN cache.entries \subseteq Keys
      /\ \A k \in DOMAIN cache.clients : k \in Keys /\ cache.clients[k] \in Nat
  BY DEF TypeInv, CacheOK
<1>3. /\ \A k \in DOMAIN disk : k \in Keys /\ disk[k] \in DOMAIN inodes
      /\ inodes \in Seq(Seq(Chunks))
  BY DEF TypeInv, FilesOK
<1>4. \A t \in Threads : /\ opened[t] \subseteq Fds
                         /\ th[t].victims \subseteq Keys
                         /\ th[t].raf \in 0..Len(inodes)
                         /\ th[t].copy \in 0..Len(inodes)
  BY DEF TypeInv, ThreadsOK, LocalOK, Locals, TablesOK
<1>5. \A fd \in DOMAIN fd_paths : fd \in Fds /\ FdKey(fd) \in Keys
  BY DEF TypeInv, TablesOK, Names, FdKey, Key, Keys
<1>6. \A fd \in DOMAIN fd_files : fd \in Fds /\ fd_files[fd] \in DOMAIN inodes
  BY DEF TypeInv, TablesOK
<1>7. curr_fd \in Nat /\ cache_lock \subseteq Threads
  BY DEF TypeInv, FdsOK, TablesOK
<1> QED
  BY <1>1, <1>2, <1>3, <1>4, <1>5, <1>6, <1>7 DEF TypeOK

\* Whatever the clients do at whatever moment, the tables of the proxy, the
\* cache map, the cache directory and the locals of the threads stay what the
\* code takes them for: a key in the directory leads to an inode, a descriptor
\* that writes to a private copy, and a chunk is read from where there is one
\* (Proxy.java 103-424, Cache.java 42-172).
THEOREM TypesHold == Spec => []TypeOK
<1>1. Init => TypeInv
  BY TypesInitially
<1>2. TypeInv /\ [Next]_allVars => TypeInv'
  BY TypesInductive
<1>3. TypeInv => TypeOK
  BY TypesFollow
<1> QED
  BY <1>1, <1>2, <1>3, PTL DEF Spec

-----------------------------------------------------------------------------
(* The counts of clients                                                   *)

Nameless == {"reader", "writer", "copy"}
Counted == {"unlock", "fd", "bump", "reader"}

\* Whoever holds a file, or is about to count itself, has a count for it.
KeysCounted ==
    /\ \A fd \in DOMAIN fd_paths : FdKey(fd) \in DOMAIN cache.clients
    /\ \A t \in Threads : Reading(t) /\ th[t].pc \in Counted \cup {"count"} =>
         SharedKey(t) \in DOMAIN cache.clients

\* Descriptors are below curr_fd and of one client; the one a thread has taken
\* is nobody's until its open returns, the one it closes is its own.
FdsApart ==
    /\ \A fd \in DOMAIN fd_paths : fd < curr_fd
    /\ \A t \in Threads :
         /\ \A fd \in opened[t] : fd < curr_fd
         /\ th[t].pc \in UsingFd => th[t].fd < curr_fd
         /\ th[t].pc \in Nameless => th[t].fd \notin DOMAIN fd_paths
         /\ th[t].pc = "own" \/ th[t].op = "CLOSE" =>
              /\ th[t].fd \in DOMAIN fd_paths /\ fd_paths[th[t].fd].write
              /\ FdKey(th[t].fd) = CopyKey(t)
         /\ th[t].op = "CLOSE" => th[t].fd \in opened[t]
         /\ \A u \in Threads :
              /\ th[t].pc \in UsingFd => th[t].fd \notin opened[u]
              /\ u # t => opened[t] \cap opened[u] = {}
              /\ u # t /\ th[t].pc \in UsingFd /\ th[u].pc \in UsingFd =>
                   th[t].fd # th[u].fd

HeldInv == KeysCounted /\ (~raced => FdsApart) /\ CountsAreRight

\* A step of t that takes, names and gives up no descriptor and counts nobody.
NoNewCount ==
    /\ DOMAIN cache.clients \subseteq DOMAIN cache'.clients
    /\ \A k \in DOMAIN cache'.clients :
         cache'.clients[k] = IF k \in DOMAIN cache.clients THEN cache.clients[k] ELSE 0
Quiet(t) ==
    /\ Acts(t) /\ NoNewCount
    /\ curr_fd' = curr_fd /\ fd_paths' = fd_paths /\ opened' = opened
    /\ th[t].pc # "own" /\ th'[t].pc # "own"
    /\ th'[t].pc \in UsingFd => th[t].pc \in UsingFd /\ th'[t].fd = th[t].fd
    /\ th'[t].pc \in Nameless => th[t].pc \in Nameless
    /\ th'[t].op = "CLOSE" => /\ th[t].op = "CLOSE" /\ th'[t].fd = th[t].fd
                              /\ th'[t].path = th[t].path /\ th'[t].ver = th[t].ver
    /\ Reading(t)' /\ th'[t].pc \in Counted <=> Reading(t) /\ th[t].pc \in Counted
    /\ Reading(t) /\ th[t].pc \in Counted =>
         th'[t].path = th[t].path /\ th'[t].ver = th[t].ver
    /\ Reading(t)' /\ th'[t].pc = "count" => SharedKey(t)' \in DOMAIN cache'.clients

LEMMA FewHolders ==
    ASSUME TypeInv, NEW k
    PROVE  /\ IsFiniteSet(Holders(k)) /\ IsFiniteSet(Counting(k))
           /\ Cardinality(Holders(k)) \in Nat /\ Cardinality(Counting(k)) \in Nat
<1>1. IsFiniteSet(Fds)
  <2>1. 3 \in Int /\ MaxFd \in Int
    BY ProxyAssumption
  <2> QED
    BY <2>1, FS_Interval DEF Fds, FirstFd
<1>2. Holders(k) \subseteq Fds
  BY DEF Holders, TypeInv, TablesOK
<1>3. Counting(k) \subseteq Threads
  BY DEF Counting
<1> QED
  BY <1>1, <1>2, <1>3, ProxyAssumption, FS_Subset, FS_CardinalityType

\* Nobody holds a file without a count.
LEMMA NoHolders ==
    ASSUME TypeInv, KeysCounted, NEW k, k \notin DOMAIN cache.clients
    PROVE  Cardinality(Holders(k)) = 0 /\ Cardinality(Counting(k)) = 0
<1>1. Holders(k) = {}
  BY DEF Holders, KeysCounted
<1>2. Counting(k) = {}
  BY DEF Counting, KeysCounted, Counted
<1> QED
  BY <1>1, <1>2, FS_EmptySet

LEMMA SharedKeyOfReader ==
    ASSUME NEW t, Reading(t)
    PROVE  SharedKey(t) = Key(th[t].path, th[t].ver, Shared)
  BY DEF SharedKey, Reading

LEMMA OthersStay ==
    ASSUME TypeInv, NEW t \in Threads, Acts(t), NEW u \in Threads, u # t
    PROVE  th'[u] = th[u]
  BY DEF Acts, TypeInv, ThreadsOK

LEMMA QuietKeeps ==
    ASSUME TypeInv, HeldInv, NEW t \in Threads, Quiet(t), raced => raced'
    PROVE  HeldInv'
<1>1. \A u \in Threads : u # t => th'[u] = th[u]
  BY OthersStay DEF Quiet
<1>2. \A fd : FdKey(fd)' = FdKey(fd)
  BY DEF Quiet, FdKey
<1>3. KeysCounted'
  <2>1. \A fd \in DOMAIN fd_paths' : FdKey(fd)' \in DOMAIN cache'.clients
    BY <1>2 DEF HeldInv, KeysCounted, Quiet, NoNewCount
  <2>2. ASSUME NEW u \in Threads, Reading(u)', th'[u].pc \in Counted \cup {"count"}
        PROVE  SharedKey(u)' \in DOMAIN cache'.clients
    <3>1. CASE u # t
      <4>1. SharedKey(u)' = SharedKey(u) /\ Reading(u) /\ th[u].pc \in Counted \cup {"count"}
        BY <1>1, <2>2, <3>1 DEF SharedKey, Reading
      <4> QED
        BY <4>1 DEF HeldInv, KeysCounted, Quiet, NoNewCount
    <3>2. CASE u = t /\ th'[u].pc = "count"
      BY <2>2, <3>2 DEF Quiet
    <3>3. CASE u = t /\ th'[u].pc \in Counted
      <4>1. Reading(t) /\ th[t].pc \in Counted /\ th'[t].path = th[t].path /\ th'[t].ver = th[t].ver
        BY <2>2, <3>3 DEF Quiet
      <4>2. SharedKey(t)' = SharedKey(t)
        BY <4>1, <2>2, <3>3 DEF SharedKey, Reading
      <4> QED
        BY <4>1, <4>2, <3>3 DEF HeldInv, KeysCounted, Quiet, NoNewCount
    <3> QED
      BY <2>2, <3>1, <3>2, <3>3
  <2> QED
    BY <2>1, <2>2 DEF KeysCounted
<1>4. ASSUME ~raced' PROVE FdsApart'
  <2>1. FdsApart
    BY <1>4 DEF HeldInv
  <2>2. curr_fd' = curr_fd /\ fd_paths' = fd_paths /\ opened' = opened
    BY DEF Quiet
  <2>3. ASSUME NEW u \in Threads
        PROVE  /\ th'[u].pc \in UsingFd => th[u].pc \in UsingFd /\ th'[u].fd = th[u].fd
               /\ th'[u].pc \in Nameless => th[u].pc \in Nameless /\ th'[u].fd = th[u].fd
               /\ th'[u].pc = "own" \/ th'[u].op = "CLOSE" =>
                    /\ th[u].pc = "own" \/ th[u].op = "CLOSE"
                    /\ th'[u].fd = th[u].fd /\ CopyKey(u)' = CopyKey(u)
               /\ th'[u].op = "CLOSE" => th[u].op = "CLOSE" /\ th'[u].fd = th[u].fd
    <3>1. CASE u # t
      BY <1>1, <3>1 DEF CopyKey
    <3>2. CASE u = t
      <4>1. th'[u].pc \in Nameless => th'[u].pc \in UsingFd
        BY DEF Nameless, UsingFd
      <4>2. th'[u].op = "CLOSE" => CopyKey(u)' = CopyKey(u)
        BY <3>2 DEF Quiet, CopyKey
      <4> QED
        BY <3>2, <4>1, <4>2 DEF Quiet
    <3> QED
      BY <3>1, <3>2
  <2>4. \A fd \in DOMAIN fd_paths' : fd < curr_fd'
    BY <2>1, <2>2 DEF FdsApart
  <2>5. ASSUME NEW u \in Threads
        PROVE  /\ \A fd \in opened'[u] : fd < curr_fd'
               /\ th'[u].pc \in UsingFd => th'[u].fd < curr_fd'
               /\ th'[u].pc \in Nameless => th'[u].fd \notin DOMAIN fd_paths'
               /\ th'[u].op = "CLOSE" => th'[u].fd \in opened'[u]
    BY <2>1, <2>2, <2>3 DEF FdsApart
  <2>6. ASSUME NEW u \in Threads, th'[u].pc = "own" \/ th'[u].op = "CLOSE"
        PROVE  /\ th'[u].fd \in DOMAIN fd_paths' /\ fd_paths'[th'[u].fd].write
               /\ FdKey(th[u].fd)' = CopyKey(u)'
    <3>1. th'[u].fd = th[u].fd /\ CopyKey(u)' = CopyKey(u)
             /\ (th[u].pc = "own" \/ th[u].op = "CLOSE")
      BY <2>3, <2>6
    <3>2. FdKey(th[u].fd)' = FdKey(th[u].fd)
      BY <3>1, <2>2 DEF FdKey
    <3> QED
      BY <2>1, <2>2, <3>1, <3>2 DEF FdsApart
  <2>7. ASSUME NEW u \in Threads, NEW w \in Threads
        PROVE  /\ th'[u].pc \in UsingFd => th'[u].fd \notin opened'[w]
               /\ w # u => opened'[u] \cap opened'[w] = {}
               /\ w # u /\ th'[u].pc \in UsingFd /\ th'[w].pc \in UsingFd =>
                    th'[u].fd # th'[w].fd
    BY <2>1, <2>2, <2>3 DEF FdsApart
  <2> QED
    BY <2>4, <2>5, <2>6, <2>7 DEF FdsApart
<1>5. ASSUME ~raced', NEW k \in DOMAIN cache'.clients
      PROVE  cache'.clients[k] = Cardinality(Holders(k)') + Cardinality(Counting(k)')
  <2>1. {th'[u].fd : u \in {u \in Threads : At(u, "own")'}}
          = {th[u].fd : u \in {u \in Threads : At(u, "own")}}
    BY <1>1 DEF Quiet, At
  <2>2. Holders(k)' = Holders(k)
    BY <1>2, <2>1 DEF Holders, Quiet
  <2>3. ASSUME NEW u \in Threads
        PROVE  /\ Reading(u)' /\ th'[u].pc \in Counted <=> Reading(u) /\ th[u].pc \in Counted
               /\ Reading(u)' /\ th'[u].pc \in Counted => SharedKey(u)' = SharedKey(u)
    <3>1. CASE u # t
      BY <1>1, <3>1 DEF Reading, SharedKey
    <3>2. CASE u = t
      BY <3>2 DEF Quiet, SharedKey, Reading
    <3> QED
      BY <3>1, <3>2
  <2>4. Counting(k)' = Counting(k)
    BY <2>3 DEF Counting, Counted
  <2>5. CASE k \in DOMAIN cache.clients
    <3>1. cache.clients[k] = Cardinality(Holders(k)) + Cardinality(Counting(k))
      BY <1>5, <2>5 DEF HeldInv, CountsAreRight
    <3> QED
      BY <2>2, <2>4, <2>5, <3>1 DEF Quiet, NoNewCount
  <2>6. CASE k \notin DOMAIN cache.clients
    <3>1. Cardinality(Holders(k)) = 0 /\ Cardinality(Counting(k)) = 0
      BY <2>6, NoHolders DEF HeldInv
    <3> QED
      BY <1>5, <2>2, <2>4, <2>6, <3>1 DEF Quiet, NoNewCount
  <2> QED
    BY <2>5, <2>6
<1> QED
  BY <1>3, <1>4, <1>5 DEF HeldInv, CountsAreRight

LEMMA SameCounts ==
    ASSUME CacheOK, cache'.clients = cache.clients
    PROVE  NoNewCount
  BY DEF NoNewCount

LEMMA OpenQuiet ==
    ASSUME TypeInv, HeldInv, NEW t \in Threads, NEW p, NEW o \in Modes[t], Open(t, p, o)
    PROVE  Quiet(t)
<1> DEFINE r == [Idle EXCEPT !.pc = "lock", !.op = o, !.path = p,
                             !.ver = VersionFound(p)]
<1>1. /\ th[t].pc = "idle" /\ th' = [th EXCEPT ![t] = r]
      /\ UNCHANGED <<cacheVars, opened, tables, cache_lock>>
  BY DEF Open, At
<1>2. r.pc = "lock" /\ r.op = o
  BY DEF Idle
<1> HIDE DEF r
<1>3. Acts(t) /\ th'[t] = r
  BY <1>1 DEF TypeInv, ThreadsOK, Acts
<1>4. NoNewCount
  BY <1>1, SameCounts DEF cacheVars, TypeInv
<1>5. o # "CLOSE"
  BY ProxyAssumption DEF Open
<1>6. th[t].op = "none"
  BY <1>1 DEF TypeInv, ThreadsOK, LocalOK, Resting
<1> QED
  BY <1>1, <1>2, <1>3, <1>4, <1>5, <1>6
  DEF Quiet, Reading, UsingFd, Nameless, Counted, tables

LEMMA OpenRefusedQuiet ==
    ASSUME TypeInv, HeldInv, NEW t \in Threads, OpenRefused(t)
    PROVE  Quiet(t)
<1>1. /\ th[t].pc = "lock" /\ th' = [th EXCEPT ![t] = Idle]
      /\ UNCHANGED <<cacheVars, opened, tables>>
  BY DEF OpenRefused, Return, At
<1>2. Acts(t) /\ th'[t] = Idle
  BY <1>1 DEF TypeInv, ThreadsOK, Acts
<1>3. th'[t].pc \in Resting /\ th'[t].op = "none"
  BY <1>2 DEF Idle, Resting
<1>4. NoNewCount
  BY <1>1, SameCounts DEF cacheVars, TypeInv
<1> QED
  BY <1>1, <1>2, <1>3, <1>4
  DEF Quiet, At, Reading, Resting, UsingFd, Nameless, Counted, tables

LEMMA FetchFailsQuiet ==
    ASSUME TypeInv, HeldInv, NEW t \in Threads, FetchFails(t)
    PROVE  Quiet(t)
<1>1. /\ th[t].pc = "fetch" /\ th' = [th EXCEPT ![t] = [Idle EXCEPT !.pc = "dead"]]
      /\ UNCHANGED <<cacheVars, opened, tables>>
  BY DEF FetchFails, Die, At
<1>2. Acts(t) /\ th'[t] = [Idle EXCEPT !.pc = "dead"]
  BY <1>1 DEF TypeInv, ThreadsOK, Acts
<1>3. th'[t].pc \in Resting /\ th'[t].op = "none"
  BY <1>2 DEF Idle, Resting
<1>4. NoNewCount
  BY <1>1, SameCounts DEF cacheVars, TypeInv
<1> QED
  BY <1>1, <1>2, <1>3, <1>4
  DEF Quiet, At, Reading, Resting, UsingFd, Nameless, Counted, tables

LEMMA CloseUnknownQuiet ==
    ASSUME TypeInv, HeldInv, NEW t \in Threads, NEW fd, CloseUnknown(t, fd)
    PROVE  Quiet(t)
<1>1. /\ th[t].pc = "idle" /\ th' = [th EXCEPT ![t] = [Idle EXCEPT !.pc = "dead"]]
      /\ UNCHANGED <<cacheVars, opened, tables>>
  BY DEF CloseUnknown, Closes, Die, At
<1>2. Acts(t) /\ th'[t] = [Idle EXCEPT !.pc = "dead"]
  BY <1>1 DEF TypeInv, ThreadsOK, Acts
<1>3. th'[t].pc \in Resting /\ th'[t].op = "none"
  BY <1>2 DEF Idle, Resting
<1>4. NoNewCount
  BY <1>1, SameCounts DEF cacheVars, TypeInv
<1> QED
  BY <1>1, <1>2, <1>3, <1>4
  DEF Quiet, At, Reading, Resting, UsingFd, Nameless, Counted, tables

LEMMA SendFailsQuiet ==
    ASSUME TypeInv, HeldInv, NEW t \in Threads, SendChunk(t), ~Bumps(th[t].path)
    PROVE  Quiet(t)
<1>1. /\ th[t].pc = "send" /\ th' = [th EXCEPT ![t] = [Idle EXCEPT !.pc = "dead"]]
      /\ cache' = cache /\ UNCHANGED <<opened, tables>>
  BY DEF SendChunk, Die, At, WriteChunk
<1>2. Acts(t) /\ th'[t] = [Idle EXCEPT !.pc = "dead"]
  BY <1>1 DEF TypeInv, ThreadsOK, Acts
<1>3. th'[t].pc \in Resting /\ th'[t].op = "none"
  BY <1>2 DEF Idle, Resting
<1>4. NoNewCount
  BY <1>1, SameCounts DEF TypeInv
<1> QED
  BY <1>1, <1>2, <1>3, <1>4
  DEF Quiet, At, Reading, Resting, UsingFd, Nameless, Counted, tables

LEMMA StaleDropReadQuiet ==
    ASSUME TypeInv, HeldInv, NEW t \in Threads, StaleDrop(t), Reading(t)
    PROVE  Quiet(t)
<1>1. /\ th[t].pc = "drop" /\ DropStale(th[t].victims) /\ th' = [th EXCEPT ![t] = Idle]
      /\ UNCHANGED <<opened, tables>>
  BY DEF StaleDrop, Return, At
<1>2. Acts(t) /\ th'[t] = Idle
  BY <1>1 DEF TypeInv, ThreadsOK, Acts
<1>3. th'[t].pc \in Resting /\ th'[t].op = "none"
  BY <1>2 DEF Idle, Resting
<1>4. NoNewCount
  BY <1>1, DropStaleEffect, SameCounts DEF TypeInv
<1> QED
  BY <1>1, <1>2, <1>3, <1>4
  DEF Quiet, At, Reading, Resting, UsingFd, Nameless, Counted, tables

LEMMA OpenHitReadQuiet ==
    ASSUME TypeInv, HeldInv, NEW t \in Threads, OpenHit(t), Reading(t)
    PROVE  Quiet(t)
<1>1. /\ At(t, "lock") /\ SharedKey(t) \in DOMAIN cache.entries
      /\ cache' = Touched(cache, SharedKey(t))
      /\ th' = [th EXCEPT ![t].pc = "count"] /\ UNCHANGED <<opened, tables>>
  BY DEF OpenHit, Go, Cached
<1>2. LocalOK(th[t]) /\ th[t] \in Locals
  BY DEF TypeInv, ThreadsOK
<1>3. Acts(t) /\ th'[t] = [th[t] EXCEPT !.pc = "count"]
  BY <1>1 DEF TypeInv, ThreadsOK, Acts
<1>4. th'[t].pc = "count" /\ th'[t].op = th[t].op /\ th'[t].path = th[t].path /\ th'[t].ver = th[t].ver /\ th'[t].fd = th[t].fd
  BY <1>2, <1>3 DEF Locals
<1>5. NoNewCount
  BY <1>1, TouchKeeps, SameCounts DEF TypeInv
<1>6. SharedKey(t)' \in DOMAIN cache'.clients
  <2>1. SharedKey(t)' = SharedKey(t)
    BY <1>4 DEF SharedKey
  <2> QED
    BY <1>1, <1>5, <2>1 DEF NoNewCount, TypeInv, CacheOK
<1> QED
  BY <1>1, <1>2, <1>3, <1>4, <1>5, <1>6
  DEF Quiet, At, Reading, LocalOK, UsingFd, TakingFd, Scanning, Ending, Nameless, Counted, tables

LEMMA OpenHitWriteQuiet ==
    ASSUME TypeInv, HeldInv, NEW t \in Threads, OpenHit(t), ~Reading(t)
    PROVE  Quiet(t)
<1>1. /\ At(t, "lock") /\ th[t].op # "READ"
      /\ cache' = Touched(cache, SharedKey(t))
      /\ th' = [th EXCEPT ![t].pc = "unlock", ![t].raf = InodeOf(SharedKey(t))]
      /\ UNCHANGED <<opened, tables>>
  BY DEF OpenHit, Reading
<1>2. LocalOK(th[t]) /\ th[t] \in Locals
  BY DEF TypeInv, ThreadsOK
<1>3. Acts(t) /\ th'[t] = [th[t] EXCEPT !.pc = "unlock", !.raf = InodeOf(SharedKey(t))]
  BY <1>1 DEF TypeInv, ThreadsOK, Acts
<1>4. th'[t].pc = "unlock" /\ th'[t].op = th[t].op /\ th'[t].path = th[t].path /\ th'[t].ver = th[t].ver /\ th'[t].fd = th[t].fd
  BY <1>2, <1>3 DEF Locals
<1>5. NoNewCount
  BY <1>1, TouchKeeps, SameCounts DEF TypeInv
<1> QED
  BY <1>1, <1>2, <1>3, <1>4, <1>5
  DEF Quiet, At, Reading, LocalOK, UsingFd, TakingFd, Scanning, Ending, Nameless, Counted, tables

LEMMA OpenMissQuiet ==
    ASSUME TypeInv, HeldInv, NEW t \in Threads, OpenMiss(t)
    PROVE  Quiet(t)
<1>1. /\ At(t, "lock")
      /\ th' = [th EXCEPT ![t].pc = "length", ![t].ver = IF @ = 0 THEN 1 ELSE @]
      /\ UNCHANGED <<cacheVars, opened, tables>>
  BY DEF OpenMiss
<1>2. LocalOK(th[t]) /\ th[t] \in Locals
  BY DEF TypeInv, ThreadsOK
<1>3. Acts(t) /\ th'[t] = [th[t] EXCEPT !.pc = "length", !.ver = IF @ = 0 THEN 1 ELSE @]
  BY <1>1 DEF TypeInv, ThreadsOK, Acts
<1>4. th'[t].pc = "length" /\ th'[t].op = th[t].op /\ th'[t].path = th[t].path /\ th'[t].fd = th[t].fd
  BY <1>2, <1>3 DEF Locals
<1>5. NoNewCount
  BY <1>1, SameCounts DEF TypeInv, cacheVars
<1>6. th[t].op # "CLOSE"
  BY <1>1, <1>2 DEF LocalOK, TakingFd, OpenOps, At
<1> QED
  BY <1>1, <1>2, <1>3, <1>4, <1>5, <1>6
  DEF Quiet, At, Reading, LocalOK, UsingFd, TakingFd, Scanning, Ending, Nameless, Counted, tables

LEMMA FetchLengthQuiet ==
    ASSUME TypeInv, HeldInv, NEW t \in Threads, FetchLength(t)
    PROVE  Quiet(t)
<1>1. /\ At(t, "length")
      /\ th' = [th EXCEPT ![t].pc = "fetch", ![t].raf = InodeOf(SharedKey(t)),
                          ![t].len = LengthOf(th[t].path)]
      /\ UNCHANGED <<cache, opened, tables>>
  BY DEF FetchLength
<1>2. LocalOK(th[t]) /\ th[t] \in Locals
  BY DEF TypeInv, ThreadsOK
<1>3. Acts(t) /\ th'[t] = [th[t] EXCEPT !.pc = "fetch", !.raf = InodeOf(SharedKey(t)),
                                           !.len = LengthOf(th[t].path)]
  BY <1>1 DEF TypeInv, ThreadsOK, Acts
<1>4. th'[t].pc = "fetch" /\ th'[t].op = th[t].op /\ th'[t].path = th[t].path /\ th'[t].ver = th[t].ver /\ th'[t].fd = th[t].fd
  BY <1>2, <1>3 DEF Locals
<1>5. NoNewCount
  BY <1>1, SameCounts DEF TypeInv
<1> QED
  BY <1>1, <1>2, <1>3, <1>4, <1>5
  DEF Quiet, At, Reading, LocalOK, UsingFd, TakingFd, Scanning, Ending, Nameless, Counted, tables

LEMMA FetchChunkQuiet ==
    ASSUME TypeInv, HeldInv, NEW t \in Threads, FetchChunk(t)
    PROVE  Quiet(t)
<1>1. /\ At(t, "fetch") /\ th' = [th EXCEPT ![t].pos = NextPos(@)]
      /\ cache' = cache /\ UNCHANGED <<opened, tables>>
  BY DEF FetchChunk, WriteChunk
<1>2. LocalOK(th[t]) /\ th[t] \in Locals
  BY DEF TypeInv, ThreadsOK
<1>3. Acts(t) /\ th'[t] = [th[t] EXCEPT !.pos = NextPos(@)]
  BY <1>1 DEF TypeInv, ThreadsOK, Acts
<1>4. th'[t].pc = th[t].pc /\ th'[t].op = th[t].op /\ th'[t].path = th[t].path /\ th'[t].ver = th[t].ver /\ th'[t].fd = th[t].fd
  BY <1>2, <1>3 DEF Locals
<1>5. NoNewCount
  BY <1>1, SameCounts DEF TypeInv
<1> QED
  BY <1>1, <1>2, <1>3, <1>4, <1>5
  DEF Quiet, At, Reading, LocalOK, UsingFd, TakingFd, Scanning, Ending, Nameless, Counted, tables

LEMMA CachePutReadQuiet ==
    ASSUME TypeInv, HeldInv, NEW t \in Threads, CachePut(t), Reading(t)
    PROVE  Quiet(t)
<1>1. /\ At(t, "fetch") /\ Put(SharedKey(t))
      /\ th' = [th EXCEPT ![t].pc = "count"] /\ UNCHANGED <<opened, tables>>
  BY DEF CachePut, Go
<1>2. LocalOK(th[t]) /\ th[t] \in Locals
  BY DEF TypeInv, ThreadsOK
<1>9. SharedKey(t) \in Keys
  BY <1>1, <1>2, KeysOfThread DEF SharedKey, At, Resting
<1>3. Acts(t) /\ th'[t] = [th[t] EXCEPT !.pc = "count"]
  BY <1>1 DEF TypeInv, ThreadsOK, Acts
<1>4. th'[t].pc = "count" /\ th'[t].op = th[t].op /\ th'[t].path = th[t].path /\ th'[t].ver = th[t].ver /\ th'[t].fd = th[t].fd
  BY <1>2, <1>3 DEF Locals
<1>5. NoNewCount
  BY <1>1, <1>9, PutEffect DEF NoNewCount, TypeInv
<1>6. SharedKey(t)' \in DOMAIN cache'.clients
  <2>1. SharedKey(t)' = SharedKey(t)
    BY <1>4 DEF SharedKey
  <2> QED
    BY <1>1, <1>9, <2>1, PutEffect DEF TypeInv
<1> QED
  BY <1>1, <1>2, <1>3, <1>4, <1>5, <1>6
  DEF Quiet, At, Reading, LocalOK, UsingFd, TakingFd, Scanning, Ending, Nameless, Counted, tables

LEMMA CachePutWriteQuiet ==
    ASSUME TypeInv, HeldInv, NEW t \in Threads, CachePut(t), ~Reading(t)
    PROVE  Quiet(t)
<1>1. /\ At(t, "fetch") /\ th[t].op # "READ" /\ Put(SharedKey(t))
      /\ th' = [th EXCEPT ![t].pc = "unlock"] /\ UNCHANGED <<opened, tables>>
  BY DEF CachePut, Go, Reading
<1>2. LocalOK(th[t]) /\ th[t] \in Locals
  BY DEF TypeInv, ThreadsOK
<1>9. SharedKey(t) \in Keys
  BY <1>1, <1>2, KeysOfThread DEF SharedKey, At, Resting
<1>3. Acts(t) /\ th'[t] = [th[t] EXCEPT !.pc = "unlock"]
  BY <1>1 DEF TypeInv, ThreadsOK, Acts
<1>4. th'[t].pc = "unlock" /\ th'[t].op = th[t].op /\ th'[t].path = th[t].path /\ th'[t].ver = th[t].ver /\ th'[t].fd = th[t].fd
  BY <1>2, <1>3 DEF Locals
<1>5. NoNewCount
  BY <1>1, <1>9, PutEffect DEF NoNewCount, TypeInv
<1> QED
  BY <1>1, <1>2, <1>3, <1>4, <1>5
  DEF Quiet, At, Reading, LocalOK, UsingFd, TakingFd, Scanning, Ending, Nameless, Counted, tables

LEMMA UnlockQuiet ==
    ASSUME TypeInv, HeldInv, NEW t \in Threads, Unlock(t)
    PROVE  Quiet(t)
<1>1. /\ At(t, "unlock") /\ th' = [th EXCEPT ![t].pc = "fd"]
      /\ UNCHANGED <<cacheVars, opened, tables>>
  BY DEF Unlock, Go
<1>2. LocalOK(th[t]) /\ th[t] \in Locals
  BY DEF TypeInv, ThreadsOK
<1>3. Acts(t) /\ th'[t] = [th[t] EXCEPT !.pc = "fd"]
  BY <1>1 DEF TypeInv, ThreadsOK, Acts
<1>4. th'[t].pc = "fd" /\ th'[t].op = th[t].op /\ th'[t].path = th[t].path /\ th'[t].ver = th[t].ver /\ th'[t].fd = th[t].fd
  BY <1>2, <1>3 DEF Locals
<1>5. NoNewCount
  BY <1>1, SameCounts DEF TypeInv, cacheVars
<1> QED
  BY <1>1, <1>2, <1>3, <1>4, <1>5
  DEF Quiet, At, Reading, LocalOK, UsingFd, TakingFd, Scanning, Ending, Nameless, Counted, tables

LEMMA ReadFdQuiet ==
    ASSUME TypeInv, HeldInv, NEW t \in Threads, ReadFd(t)
    PROVE  Quiet(t)
<1>1. /\ At(t, "fd") /\ th' = [th EXCEPT ![t].pc = "bump", ![t].fd = curr_fd]
      /\ UNCHANGED <<cacheVars, opened, tables>>
  BY DEF ReadFd
<1>2. LocalOK(th[t]) /\ th[t] \in Locals
  BY DEF TypeInv, ThreadsOK
<1>3. Acts(t) /\ th'[t] = [th[t] EXCEPT !.pc = "bump", !.fd = curr_fd]
  BY <1>1 DEF TypeInv, ThreadsOK, Acts
<1>4. th'[t].pc = "bump" /\ th'[t].op = th[t].op /\ th'[t].path = th[t].path /\ th'[t].ver = th[t].ver
  BY <1>2, <1>3 DEF Locals
<1>5. NoNewCount
  BY <1>1, SameCounts DEF TypeInv, cacheVars
<1>6. th[t].op # "CLOSE"
  BY <1>1, <1>2 DEF LocalOK, TakingFd, OpenOps, At
<1> QED
  BY <1>1, <1>2, <1>3, <1>4, <1>5, <1>6
  DEF Quiet, At, Reading, LocalOK, UsingFd, TakingFd, Scanning, Ending, Nameless, Counted, tables

LEMMA OpenWriterQuiet ==
    ASSUME TypeInv, HeldInv, NEW t \in Threads, OpenWriter(t)
    PROVE  Quiet(t)
<1>1. /\ At(t, "writer")
      /\ th' = [th EXCEPT ![t].pc = "copy", ![t].pos = 0,
                          ![t].copy = InodeOf(CopyKey(t)),
                          ![t].len = Len(inodes[th[t].raf])]
      /\ UNCHANGED <<cache, opened, tables>>
  BY DEF OpenWriter
<1>2. LocalOK(th[t]) /\ th[t] \in Locals
  BY DEF TypeInv, ThreadsOK
<1>3. Acts(t) /\ th'[t] = [th[t] EXCEPT !.pc = "copy", !.pos = 0,
                                           !.copy = InodeOf(CopyKey(t)),
                                           !.len = Len(inodes[th[t].raf])]
  BY <1>1 DEF TypeInv, ThreadsOK, Acts
<1>4. th'[t].pc = "copy" /\ th'[t].op = th[t].op /\ th'[t].path = th[t].path /\ th'[t].ver = th[t].ver /\ th'[t].fd = th[t].fd
  BY <1>2, <1>3 DEF Locals
<1>5. NoNewCount
  BY <1>1, SameCounts DEF TypeInv
<1> QED
  BY <1>1, <1>2, <1>3, <1>4, <1>5
  DEF Quiet, At, Reading, LocalOK, UsingFd, TakingFd, Scanning, Ending, Nameless, Counted, tables

LEMMA CopyChunkQuiet ==
    ASSUME TypeInv, HeldInv, NEW t \in Threads, CopyChunk(t)
    PROVE  Quiet(t)
<1>1. /\ At(t, "copy") /\ th' = [th EXCEPT ![t].pos = NextPos(@)]
      /\ cache' = cache /\ UNCHANGED <<opened, tables>>
  BY DEF CopyChunk, WriteChunk
<1>2. LocalOK(th[t]) /\ th[t] \in Locals
  BY DEF TypeInv, ThreadsOK
<1>3. Acts(t) /\ th'[t] = [th[t] EXCEPT !.pos = NextPos(@)]
  BY <1>1 DEF TypeInv, ThreadsOK, Acts
<1>4. th'[t].pc = th[t].pc /\ th'[t].op = th[t].op /\ th'[t].path = th[t].path /\ th'[t].ver = th[t].ver /\ th'[t].fd = th[t].fd
  BY <1>2, <1>3 DEF Locals
<1>5. NoNewCount
  BY <1>1, SameCounts DEF TypeInv
<1> QED
  BY <1>1, <1>2, <1>3, <1>4, <1>5
  DEF Quiet, At, Reading, LocalOK, UsingFd, TakingFd, Scanning, Ending, Nameless, Counted, tables

LEMMA WriteQuiet ==
    ASSUME TypeInv, HeldInv, NEW t \in Threads, NEW fd, NEW pos, Write(t, fd, pos)
    PROVE  Quiet(t)
<1>1. th[t].pc = "idle" /\ cache' = cache /\ UNCHANGED <<th, opened, tables>>
  BY DEF Write, WriteChunk, At
<1>2. Acts(t) /\ th'[t] = th[t]
  BY <1>1 DEF TypeInv, ThreadsOK, Acts
<1>3. th[t].op = "none"
  BY <1>1 DEF TypeInv, ThreadsOK, LocalOK, Resting
<1>4. NoNewCount
  BY <1>1, SameCounts DEF TypeInv
<1> QED
  BY <1>1, <1>2, <1>3, <1>4
  DEF Quiet, Reading, UsingFd, Nameless, Counted, tables

LEMMA UnlinkQuiet ==
    ASSUME TypeInv, HeldInv, NEW t \in Threads, NEW p, Unlink(t, p)
    PROVE  Quiet(t)
<1>1. th[t].pc = "idle" /\ cache' = cache /\ UNCHANGED <<th, opened, tables>>
  BY DEF Unlink, cacheVars, At
<1>2. Acts(t) /\ th'[t] = th[t]
  BY <1>1 DEF TypeInv, ThreadsOK, Acts
<1>3. th[t].op = "none"
  BY <1>1 DEF TypeInv, ThreadsOK, LocalOK, Resting
<1>4. NoNewCount
  BY <1>1, SameCounts DEF TypeInv
<1> QED
  BY <1>1, <1>2, <1>3, <1>4
  DEF Quiet, Reading, UsingFd, Nameless, Counted, tables

LEMMA StaleScanQuiet ==
    ASSUME TypeInv, HeldInv, NEW t \in Threads, StaleScan(t)
    PROVE  Quiet(t)
<1>1. /\ At(t, "scan")
      /\ th' = [th EXCEPT ![t].pc = "drop", ![t].victims = StaleEntries(cache, SharedKey(t))]
      /\ UNCHANGED <<cacheVars, opened, tables>>
  BY DEF StaleScan
<1>2. LocalOK(th[t]) /\ th[t] \in Locals
  BY DEF TypeInv, ThreadsOK
<1>3. Acts(t) /\ th'[t] = [th[t] EXCEPT !.pc = "drop",
                                           !.victims = StaleEntries(cache, SharedKey(t))]
  BY <1>1 DEF TypeInv, ThreadsOK, Acts
<1>4. th'[t].pc = "drop" /\ th'[t].op = th[t].op /\ th'[t].path = th[t].path /\ th'[t].ver = th[t].ver /\ th'[t].fd = th[t].fd
  BY <1>2, <1>3 DEF Locals
<1>5. NoNewCount
  BY <1>1, SameCounts DEF TypeInv, cacheVars
<1> QED
  BY <1>1, <1>2, <1>3, <1>4, <1>5
  DEF Quiet, At, Reading, LocalOK, UsingFd, TakingFd, Scanning, Ending, Nameless, Counted, tables

LEMMA StaleDropWriteQuiet ==
    ASSUME TypeInv, HeldInv, NEW t \in Threads, StaleDrop(t), ~Reading(t)
    PROVE  Quiet(t)
<1>1. /\ At(t, "drop") /\ DropStale(th[t].victims)
      /\ th' = [th EXCEPT ![t].pc = "put", ![t].victims = {}] /\ UNCHANGED <<opened, tables>>
  BY DEF StaleDrop
<1>2. LocalOK(th[t]) /\ th[t] \in Locals
  BY DEF TypeInv, ThreadsOK
<1>3. Acts(t) /\ th'[t] = [th[t] EXCEPT !.pc = "put", !.victims = {}]
  BY <1>1 DEF TypeInv, ThreadsOK, Acts
<1>4. th'[t].pc = "put" /\ th'[t].op = th[t].op /\ th'[t].path = th[t].path /\ th'[t].ver = th[t].ver /\ th'[t].fd = th[t].fd
  BY <1>2, <1>3 DEF Locals
<1>5. NoNewCount
  BY <1>1, DropStaleEffect, SameCounts DEF TypeInv
<1> QED
  BY <1>1, <1>2, <1>3, <1>4, <1>5
  DEF Quiet, At, Reading, LocalOK, UsingFd, TakingFd, Scanning, Ending, Nameless, Counted, tables

LEMMA ClosePutQuiet ==
    ASSUME TypeInv, HeldInv, NEW t \in Threads, ClosePut(t)
    PROVE  Quiet(t)
<1>1. /\ At(t, "put") /\ Put(SharedKey(t))
      /\ th' = [th EXCEPT ![t].pc = "lengths"] /\ UNCHANGED <<opened, tables>>
  BY DEF ClosePut, Go
<1>2. LocalOK(th[t]) /\ th[t] \in Locals
  BY DEF TypeInv, ThreadsOK
<1>9. SharedKey(t) \in Keys
  BY <1>1, <1>2, KeysOfThread DEF SharedKey, At, Resting
<1>3. Acts(t) /\ th'[t] = [th[t] EXCEPT !.pc = "lengths"]
  BY <1>1 DEF TypeInv, ThreadsOK, Acts
<1>4. th'[t].pc = "lengths" /\ th'[t].op = th[t].op /\ th'[t].path = th[t].path /\ th'[t].ver = th[t].ver /\ th'[t].fd = th[t].fd
  BY <1>2, <1>3 DEF Locals
<1>5. NoNewCount
  BY <1>1, <1>9, PutEffect DEF NoNewCount, TypeInv
<1> QED
  BY <1>1, <1>2, <1>3, <1>4, <1>5
  DEF Quiet, At, Reading, LocalOK, UsingFd, TakingFd, Scanning, Ending, Nameless, Counted, tables

LEMMA CloseLengthsQuiet ==
    ASSUME TypeInv, HeldInv, NEW t \in Threads, CloseLengths(t)
    PROVE  Quiet(t)
<1>1. /\ At(t, "lengths")
      /\ th' = [th EXCEPT ![t].pc = "send", ![t].raf = InodeOf(SharedKey(t)),
                          ![t].len = Len(inodes[th[t].copy]),
                          ![t].old = FileLength(SharedKey(t))]
      /\ UNCHANGED <<cache, opened, tables>>
  BY DEF CloseLengths
<1>2. LocalOK(th[t]) /\ th[t] \in Locals
  BY DEF TypeInv, ThreadsOK
<1>3. Acts(t) /\ th'[t] = [th[t] EXCEPT !.pc = "send", !.raf = InodeOf(SharedKey(t)),
                                           !.len = Len(inodes[th[t].copy]),
                                           !.old = FileLength(SharedKey(t))]
  BY <1>1 DEF TypeInv, ThreadsOK, Acts
<1>4. th'[t].pc = "send" /\ th'[t].op = th[t].op /\ th'[t].path = th[t].path /\ th'[t].ver = th[t].ver /\ th'[t].fd = th[t].fd
  BY <1>2, <1>3 DEF Locals
<1>5. NoNewCount
  BY <1>1, SameCounts DEF TypeInv
<1> QED
  BY <1>1, <1>2, <1>3, <1>4, <1>5
  DEF Quiet, At, Reading, LocalOK, UsingFd, TakingFd, Scanning, Ending, Nameless, Counted, tables

LEMMA SendChunkQuiet ==
    ASSUME TypeInv, HeldInv, NEW t \in Threads, SendChunk(t), Bumps(th[t].path)
    PROVE  Quiet(t)
<1>1. /\ At(t, "send") /\ th' = [th EXCEPT ![t].pc = "store"]
      /\ cache' = cache /\ UNCHANGED <<opened, tables>>
  BY DEF SendChunk, Go, WriteChunk
<1>2. LocalOK(th[t]) /\ th[t] \in Locals
  BY DEF TypeInv, ThreadsOK
<1>3. Acts(t) /\ th'[t] = [th[t] EXCEPT !.pc = "store"]
  BY <1>1 DEF TypeInv, ThreadsOK, Acts
<1>4. th'[t].pc = "store" /\ th'[t].op = th[t].op /\ th'[t].path = th[t].path /\ th'[t].ver = th[t].ver /\ th'[t].fd = th[t].fd
  BY <1>2, <1>3 DEF Locals
<1>5. NoNewCount
  BY <1>1, SameCounts DEF TypeInv
<1> QED
  BY <1>1, <1>2, <1>3, <1>4, <1>5
  DEF Quiet, At, Reading, LocalOK, UsingFd, TakingFd, Scanning, Ending, Nameless, Counted, tables

LEMMA StoreChunkQuiet ==
    ASSUME TypeInv, HeldInv, NEW t \in Threads, StoreChunk(t)
    PROVE  Quiet(t)
<1>1. /\ At(t, "store") /\ th' = [th EXCEPT ![t].pc = "send", ![t].pos = NextPos(@)]
      /\ cache' = cache /\ UNCHANGED <<opened, tables>>
  BY DEF StoreChunk, WriteChunk
<1>2. LocalOK(th[t]) /\ th[t] \in Locals
  BY DEF TypeInv, ThreadsOK
<1>3. Acts(t) /\ th'[t] = [th[t] EXCEPT !.pc = "send", !.pos = NextPos(@)]
  BY <1>1 DEF TypeInv, ThreadsOK, Acts
<1>4. th'[t].pc = "send" /\ th'[t].op = th[t].op /\ th'[t].path = th[t].path /\ th'[t].ver = th[t].ver /\ th'[t].fd = th[t].fd
  BY <1>2, <1>3 DEF Locals
<1>5. NoNewCount
  BY <1>1, SameCounts DEF TypeInv
<1> QED
  BY <1>1, <1>2, <1>3, <1>4, <1>5
  DEF Quiet, At, Reading, LocalOK, UsingFd, TakingFd, Scanning, Ending, Nameless, Counted, tables

LEMMA SettleReadQuiet ==
    ASSUME TypeInv, HeldInv, NEW t \in Threads, SettleRead(t)
    PROVE  Quiet(t)
<1>1. /\ At(t, "send")
      /\ th' = [th EXCEPT ![t].pc = "settle",
                          ![t].old = cache.size + th[t].len - th[t].old]
      /\ UNCHANGED <<cacheVars, opened, tables>>
  BY DEF SettleRead
<1>2. LocalOK(th[t]) /\ th[t] \in Locals
  BY DEF TypeInv, ThreadsOK
<1>3. Acts(t) /\ th'[t] = [th[t] EXCEPT !.pc = "settle",
                                           !.old = cache.size + th[t].len - th[t].old]
  BY <1>1 DEF TypeInv, ThreadsOK, Acts
<1>4. th'[t].pc = "settle" /\ th'[t].op = th[t].op /\ th'[t].path = th[t].path /\ th'[t].ver = th[t].ver /\ th'[t].fd = th[t].fd
  BY <1>2, <1>3 DEF Locals
<1>5. NoNewCount
  BY <1>1, SameCounts DEF TypeInv, cacheVars
<1> QED
  BY <1>1, <1>2, <1>3, <1>4, <1>5
  DEF Quiet, At, Reading, LocalOK, UsingFd, TakingFd, Scanning, Ending, Nameless, Counted, tables

LEMMA SettleWriteQuiet ==
    ASSUME TypeInv, HeldInv, NEW t \in Threads, SettleWrite(t)
    PROVE  Quiet(t)
<1>1. /\ At(t, "settle") /\ cache' = [cache EXCEPT !.size = th[t].old]
      /\ th' = [th EXCEPT ![t].pc = "release"] /\ UNCHANGED <<opened, tables>>
  BY DEF SettleWrite, Go
<1>2. LocalOK(th[t]) /\ th[t] \in Locals
  BY DEF TypeInv, ThreadsOK
<1>3. Acts(t) /\ th'[t] = [th[t] EXCEPT !.pc = "release"]
  BY <1>1 DEF TypeInv, ThreadsOK, Acts
<1>4. th'[t].pc = "release" /\ th'[t].op = th[t].op /\ th'[t].path = th[t].path /\ th'[t].ver = th[t].ver /\ th'[t].fd = th[t].fd
  BY <1>2, <1>3 DEF Locals
<1>5. NoNewCount
  <2>1. cache'.clients = cache.clients
    BY <1>1 DEF TypeInv, CacheOK
  <2> QED
    BY <2>1, SameCounts DEF TypeInv
<1> QED
  BY <1>1, <1>2, <1>3, <1>4, <1>5
  DEF Quiet, At, Reading, LocalOK, UsingFd, TakingFd, Scanning, Ending, Nameless, Counted, tables

\* The private copies that are named and not yet counted.
Owning == {th[t].fd : t \in {t \in Threads : At(t, "own")}}

LEMMA KeysGrow ==
    ASSUME TypeInv, KeysCounted, NEW t \in Threads, Acts(t),
           DOMAIN cache.clients \subseteq DOMAIN cache'.clients,
           \A fd \in DOMAIN fd_paths' : \/ fd \in DOMAIN fd_paths /\ fd_paths'[fd] = fd_paths[fd]
                                        \/ FdKey(fd)' \in DOMAIN cache'.clients,
           Reading(t)' /\ th'[t].pc \in Counted \cup {"count"} =>
             SharedKey(t)' \in DOMAIN cache'.clients
    PROVE  KeysCounted'
<1>1. ASSUME NEW fd \in DOMAIN fd_paths' PROVE FdKey(fd)' \in DOMAIN cache'.clients
  <2>1. CASE fd \in DOMAIN fd_paths /\ fd_paths'[fd] = fd_paths[fd]
    <3>1. FdKey(fd)' = FdKey(fd)
      BY <2>1 DEF FdKey
    <3> QED
      BY <2>1, <3>1 DEF KeysCounted
  <2> QED
    BY <2>1
<1>2. ASSUME NEW u \in Threads, u # t, Reading(u)', th'[u].pc \in Counted \cup {"count"}
      PROVE  SharedKey(u)' \in DOMAIN cache'.clients
  <2>1. th'[u] = th[u]
    BY <1>2, OthersStay
  <2>2. SharedKey(u)' = SharedKey(u) /\ Reading(u)
    BY <1>2, <2>1 DEF SharedKey, Reading
  <2> QED
    BY <1>2, <2>1, <2>2 DEF KeysCounted
<1> QED
  BY <1>1, <1>2 DEF KeysCounted

\* A step of t takes a descriptor nobody has, or opens the one it took, and
\* touches the names of its own descriptors alone.
LEMMA ApartAgain ==
    ASSUME TypeInv, FdsApart, NEW t \in Threads, Acts(t),
           curr_fd' \in Nat, curr_fd <= curr_fd',
           \A u \in Threads : u # t => opened'[u] = opened[u],
           \A fd \in opened'[t] : fd \in opened[t] \/ (th[t].pc \in UsingFd /\ fd = th[t].fd),
           \A fd \in DOMAIN fd_paths' : \/ fd \in DOMAIN fd_paths
                                        \/ th[t].pc \in Nameless /\ fd = th[t].fd,
           \A fd \in DOMAIN fd_paths :
             fd \in opened[t] \/ (fd \in DOMAIN fd_paths' /\ fd_paths'[fd] = fd_paths[fd]),
           th'[t].pc \in UsingFd =>
             \/ th[t].pc \in UsingFd /\ th'[t].fd = th[t].fd /\ th'[t].fd \notin opened'[t]
             \/ curr_fd <= th'[t].fd /\ th'[t].fd < curr_fd' /\ opened'[t] = opened[t],
           th'[t].pc \in Nameless => th'[t].fd \notin DOMAIN fd_paths',
           th'[t].pc = "own" \/ th'[t].op = "CLOSE" =>
              /\ th'[t].fd \in DOMAIN fd_paths' /\ fd_paths'[th'[t].fd].write
              /\ FdKey(th[t].fd)' = CopyKey(t)',
           th'[t].op = "CLOSE" => th'[t].fd \in opened'[t]
    PROVE  FdsApart'
<1>0. /\ curr_fd \in Nat /\ DOMAIN fd_paths \subseteq Nat
      /\ \A u \in Threads : opened[u] \subseteq Nat /\ th[u].fd \in Nat
  <2>1. Fds \subseteq Nat /\ Shared \in Nat
    BY DEF Fds, FirstFd, Shared
  <2>2. \A u \in Threads : opened[u] \subseteq Fds /\ th[u].fd \in Fds \cup {Shared}
    BY DEF TypeInv, TablesOK, ThreadsOK, LocalOK, Locals
  <2> QED
    BY <2>1, <2>2 DEF TypeInv, TablesOK, FdsOK
<1>1. \A u \in Threads : u # t => th'[u] = th[u]
  BY OthersStay
<1>2. ASSUME NEW fd \in DOMAIN fd_paths' PROVE fd < curr_fd'
  <2>1. CASE fd \in DOMAIN fd_paths
    BY <1>0, <2>1 DEF FdsApart
  <2>2. CASE th[t].pc \in Nameless /\ fd = th[t].fd
    BY <1>0, <2>2 DEF FdsApart, Nameless, UsingFd
  <2> QED
    BY <2>1, <2>2
<1>3. ASSUME NEW u \in Threads, NEW fd \in opened'[u] PROVE fd < curr_fd'
  <2>1. CASE fd \in opened[u]
    BY <1>0, <2>1 DEF FdsApart
  <2>2. CASE u = t /\ th[t].pc \in UsingFd /\ fd = th[t].fd
    BY <1>0, <2>2 DEF FdsApart
  <2> QED
    BY <1>3, <2>1, <2>2
<1>4. ASSUME NEW u \in Threads, th'[u].pc \in UsingFd PROVE th'[u].fd < curr_fd'
  <2>1. CASE u # t
    BY <1>0, <1>1, <1>4, <2>1 DEF FdsApart
  <2>2. CASE u = t
    BY <1>0, <1>4, <2>2 DEF FdsApart
  <2> QED
    BY <2>1, <2>2
<1>5. ASSUME NEW u \in Threads, th'[u].pc \in Nameless PROVE th'[u].fd \notin DOMAIN fd_paths'
  <2>1. CASE u # t
    BY <1>1, <1>5, <2>1 DEF FdsApart, Nameless, UsingFd
  <2>2. CASE u = t
    BY <1>5, <2>2
  <2> QED
    BY <2>1, <2>2
<1>6. ASSUME NEW u \in Threads, th'[u].pc = "own" \/ th'[u].op = "CLOSE"
      PROVE  /\ th'[u].fd \in DOMAIN fd_paths' /\ fd_paths'[th'[u].fd].write
             /\ FdKey(th[u].fd)' = CopyKey(u)'
  <2>1. CASE u # t
    <3>1. th'[u] = th[u] /\ (th[u].pc = "own" \/ th[u].op = "CLOSE")
      BY <1>1, <1>6, <2>1
    <3>2. /\ th[u].fd \in DOMAIN fd_paths /\ fd_paths[th[u].fd].write
          /\ FdKey(th[u].fd) = CopyKey(u)
      BY <3>1 DEF FdsApart
    <3>3. th[u].fd \notin opened[t]
      <4>1. CASE th[u].pc = "own"
        BY <4>1 DEF FdsApart, UsingFd
      <4>2. CASE th[u].op = "CLOSE"
        BY <2>1, <4>2 DEF FdsApart
      <4> QED
        BY <3>1, <4>1, <4>2
    <3>4. th[u].fd \in DOMAIN fd_paths' /\ fd_paths'[th[u].fd] = fd_paths[th[u].fd]
      BY <3>2, <3>3
    <3>5. FdKey(th[u].fd)' = CopyKey(u)
      <4>1. FdKey(th[u].fd)' = FdKey(th[u].fd)
        BY <3>1, <3>4 DEF FdKey
      <4> QED
        BY <3>1, <3>2, <4>1
    <3>6. CopyKey(u)' = CopyKey(u)
      BY <3>1 DEF CopyKey
    <3> QED
      BY <3>1, <3>2, <3>4, <3>5, <3>6
  <2>2. CASE u = t
    BY <1>6, <2>2
  <2> QED
    BY <2>1, <2>2
<1>7. ASSUME NEW u \in Threads, th'[u].op = "CLOSE" PROVE th'[u].fd \in opened'[u]
  <2>1. CASE u # t
    BY <1>1, <1>7, <2>1 DEF FdsApart
  <2>2. CASE u = t
    BY <1>7, <2>2
  <2> QED
    BY <2>1, <2>2
<1>8. ASSUME NEW u \in Threads, NEW w \in Threads, th'[u].pc \in UsingFd
      PROVE  th'[u].fd \notin opened'[w]
  <2>1. CASE u # t /\ w # t
    BY <1>1, <1>8, <2>1 DEF FdsApart
  <2>2. CASE u # t /\ w = t
    BY <1>1, <1>8, <2>2 DEF FdsApart
  <2>3. CASE u = t /\ w # t
    BY <1>0, <1>8, <2>3 DEF FdsApart
  <2>4. CASE u = t /\ w = t
    BY <1>0, <1>8, <2>4 DEF FdsApart
  <2> QED
    BY <2>1, <2>2, <2>3, <2>4
<1>9. ASSUME NEW u \in Threads, NEW w \in Threads, w # u
      PROVE  /\ opened'[u] \cap opened'[w] = {}
             /\ th'[u].pc \in UsingFd /\ th'[w].pc \in UsingFd => th'[u].fd # th'[w].fd
  <2>1. opened'[u] \cap opened'[w] = {}
    BY <1>9 DEF FdsApart
  <2>2. CASE u # t /\ w # t
    BY <1>1, <1>9, <2>1, <2>2 DEF FdsApart
  <2>3. ASSUME NEW v \in Threads, v # t, th'[v].pc \in UsingFd, th'[t].pc \in UsingFd
        PROVE  th'[v].fd # th'[t].fd
    <3>1. th'[v] = th[v] /\ th[v].fd < curr_fd /\ th[v].fd \in Nat
      BY <1>0, <1>1, <2>3 DEF FdsApart
    <3>2. CASE th[t].pc \in UsingFd /\ th'[t].fd = th[t].fd
      BY <2>3, <3>1, <3>2 DEF FdsApart
    <3>3. CASE curr_fd <= th'[t].fd
      <4>1. th'[t].fd # th[v].fd
        BY <1>0, <3>1, <3>3
      <4> QED
        BY <3>1, <4>1
    <3> QED
      BY <2>3, <3>2, <3>3
  <2> QED
    BY <1>9, <2>1, <2>2, <2>3
<1> QED
  BY <1>2, <1>3, <1>4, <1>5, <1>6, <1>7, <1>8, <1>9 DEF FdsApart

\* Only t's own copy is named or counted in a step of t.
LEMMA OwningAgain ==
    ASSUME TypeInv, NEW t \in Threads, Acts(t), NEW fd,
           th[t].pc = "own" => fd # th[t].fd, th'[t].pc = "own" => fd # th'[t].fd
    PROVE  fd \in Owning' <=> fd \in Owning
<1>1. \A u \in Threads : u # t => th'[u] = th[u]
  BY OthersStay
<1>2. fd \in Owning <=> \E u \in Threads : th[u].pc = "own" /\ fd = th[u].fd
  BY DEF Owning, At
<1>3. fd \in Owning' <=> \E u \in Threads : th'[u].pc = "own" /\ fd = th'[u].fd
  BY DEF Owning, At
<1> QED
  BY <1>1, <1>2, <1>3

LEMMA HolderAgain ==
    ASSUME TypeInv, NEW t \in Threads, Acts(t), NEW fd, NEW k,
           th[t].pc = "own" => fd # th[t].fd, th'[t].pc = "own" => fd # th'[t].fd,
           fd \in DOMAIN fd_paths <=> fd \in DOMAIN fd_paths',
           fd \in DOMAIN fd_paths => fd_paths'[fd] = fd_paths[fd]
    PROVE  fd \in Holders(k)' <=> fd \in Holders(k)
<1>1. fd \in Owning' <=> fd \in Owning
  BY OwningAgain
<1>2. fd \in DOMAIN fd_paths => FdKey(fd)' = FdKey(fd)
  BY DEF FdKey
<1>3. fd \in Holders(k) <=> fd \in DOMAIN fd_paths /\ FdKey(fd) = k /\ fd \notin Owning
  BY DEF Holders, Owning
<1>4. fd \in Holders(k)' <=> fd \in DOMAIN fd_paths' /\ FdKey(fd)' = k /\ fd \notin Owning'
  BY DEF Holders, Owning
<1> QED
  BY <1>1, <1>2, <1>3, <1>4

LEMMA CountingAgain ==
    ASSUME TypeInv, NEW t \in Threads, Acts(t), NEW u \in Threads, NEW k,
           u = t => /\ Reading(t)' /\ th'[t].pc \in Counted <=> Reading(t) /\ th[t].pc \in Counted
                    /\ Reading(t) /\ th[t].pc \in Counted =>
                         th'[t].path = th[t].path /\ th'[t].ver = th[t].ver
    PROVE  u \in Counting(k)' <=> u \in Counting(k)
<1>1. u # t => th'[u] = th[u]
  BY OthersStay
<1>2. u \in Counting(k) <=> Reading(u) /\ SharedKey(u) = k /\ th[u].pc \in Counted
  BY DEF Counting, Counted
<1>3. u \in Counting(k)' <=> Reading(u)' /\ SharedKey(u)' = k /\ th'[u].pc \in Counted
  BY DEF Counting, Counted
<1>4. u # t => (Reading(u)' <=> Reading(u)) /\ SharedKey(u)' = SharedKey(u)
  BY <1>1 DEF Reading, SharedKey
<1>5. Reading(t)' /\ Reading(t) /\ th'[t].path = th[t].path /\ th'[t].ver = th[t].ver =>
        SharedKey(t)' = SharedKey(t)
  BY DEF Reading, SharedKey
<1> QED
  BY <1>1, <1>2, <1>3, <1>4, <1>5

\* A descriptor that is open, and not its thread's unfinished copy, holds its
\* file.
LEMMA OpenedHolds ==
    ASSUME TypeInv, HeldInv, ~raced, NEW t \in Threads, NEW fd \in opened[t],
           fd \in DOMAIN fd_paths
    PROVE  /\ fd \in Holders(FdKey(fd)) /\ FdKey(fd) \in DOMAIN cache.clients
           /\ cache.clients[FdKey(fd)] >= 1
<1>1. FdsApart
  BY DEF HeldInv
<1>2. fd \notin Owning
  BY <1>1 DEF FdsApart, Owning, At, UsingFd
<1>3. fd \in Holders(FdKey(fd))
  BY <1>2 DEF Holders, Owning
<1>4. FdKey(fd) \in DOMAIN cache.clients
  BY DEF HeldInv, KeysCounted
<1> DEFINE k == FdKey(fd)
<1>5. cache.clients[k] = Cardinality(Holders(k)) + Cardinality(Counting(k))
  BY <1>4 DEF HeldInv, CountsAreRight
<1>6. Cardinality(Holders(k)) \in Nat /\ Cardinality(Counting(k)) \in Nat
         /\ IsFiniteSet(Holders(k))
  BY FewHolders
<1>7. Cardinality(Holders(k)) # 0
  BY <1>3, <1>6, FS_EmptySet
<1> QED
  BY <1>3, <1>4, <1>5, <1>6, <1>7

\* What t does not touch keeps its count.
LEMMA NotAnothers ==
    ASSUME TypeInv, HeldInv, ~raced, NEW k \in DOMAIN cache.clients,
           cache'.clients[k] = cache.clients[k],
           Holders(k)' = Holders(k), Counting(k)' = Counting(k)
    PROVE  cache'.clients[k] = Cardinality(Holders(k)') + Cardinality(Counting(k)')
  BY DEF HeldInv, CountsAreRight

LEMMA CountHeld ==
    ASSUME TypeInv, HeldInv, NEW t \in Threads, Count(t), raced => raced'
    PROVE  HeldInv'
<1> DEFINE k == SharedKey(t)
<1>1. /\ th[t].pc = "count" /\ AddClient(k)
      /\ th' = [th EXCEPT ![t].pc = "unlock"]
      /\ opened' = opened /\ fd_paths' = fd_paths /\ curr_fd' = curr_fd
  BY DEF Count, Go, At, tables
<1>2. LocalOK(th[t]) /\ th[t] \in Locals
  BY DEF TypeInv, ThreadsOK
<1>3. th[t].op = "READ"
  BY <1>1, <1>2 DEF LocalOK
<1>4. Acts(t) /\ th'[t] = [th[t] EXCEPT !.pc = "unlock"]
  BY <1>1 DEF TypeInv, ThreadsOK, Acts
<1>5. th'[t].pc = "unlock" /\ th'[t].op = "READ" /\ th'[t].path = th[t].path /\ th'[t].ver = th[t].ver
         /\ th'[t].fd = th[t].fd
  BY <1>2, <1>3, <1>4 DEF Locals
<1>6. k' = k /\ Reading(t) /\ Reading(t)'
  BY <1>3, <1>5 DEF SharedKey, Reading
<1>7. k \in DOMAIN cache.clients
  BY <1>1, <1>6 DEF HeldInv, KeysCounted
<1>8. /\ DOMAIN cache'.clients = DOMAIN cache.clients
      /\ \A j \in DOMAIN cache.clients :
           cache'.clients[j] = IF j = k THEN cache.clients[j] + 1 ELSE cache.clients[j]
  BY <1>1, AddEffect DEF TypeInv
<1>9. KeysCounted'
  <2>1. \A fd \in DOMAIN fd_paths' : fd \in DOMAIN fd_paths /\ fd_paths'[fd] = fd_paths[fd]
    BY <1>1
  <2> QED
    BY <1>4, <1>6, <1>7, <1>8, <2>1, KeysGrow DEF HeldInv
<1>10. ASSUME ~raced' PROVE FdsApart'
  <2>1. FdsApart
    BY <1>10 DEF HeldInv
  <2>2. th'[t].pc \notin UsingFd \cup Nameless /\ th'[t].pc # "own" /\ th'[t].op # "CLOSE"
    BY <1>5 DEF UsingFd, Nameless
  <2>3. curr_fd' \in Nat /\ curr_fd <= curr_fd'
    BY <1>1 DEF TypeInv, FdsOK
  <2> QED
    BY <1>1, <1>4, <2>1, <2>2, <2>3, ApartAgain
<1>11. ASSUME ~raced', NEW j \in DOMAIN cache'.clients
       PROVE  cache'.clients[j] = Cardinality(Holders(j)') + Cardinality(Counting(j)')
  <2>1. \A fd : fd \in Holders(j)' <=> fd \in Holders(j)
    BY <1>1, <1>4, <1>5, HolderAgain
  <2>2. Holders(j)' = Holders(j)
    BY <2>1
  <2>3. \A u \in Threads \ {t} : u \in Counting(j)' <=> u \in Counting(j)
    BY <1>4, CountingAgain
  <2>4. t \notin Counting(j) /\ (t \in Counting(j)' <=> j = k)
    BY <1>1, <1>5, <1>6 DEF Counting
  <2>5. Counting(j) \subseteq Threads /\ Counting(j)' \subseteq Threads
    BY DEF Counting
  <2>6. CASE j # k
    <3>1. Counting(j)' = Counting(j)
      BY <2>3, <2>4, <2>5, <2>6
    <3> QED
      BY <1>8, <1>11, <2>2, <2>6, <3>1, NotAnothers
  <2>7. CASE j = k
    <3>1. Counting(j)' = Counting(j) \cup {t}
      BY <2>3, <2>4, <2>5, <2>7
    <3>2. /\ IsFiniteSet(Counting(j)) /\ Cardinality(Counting(j)) \in Nat
          /\ Cardinality(Holders(j)) \in Nat
      BY FewHolders
    <3>3. Cardinality(Counting(j) \cup {t}) = Cardinality(Counting(j)) + 1
      BY <2>4, <3>2, FS_AddElement
    <3>4. cache.clients[j] = Cardinality(Holders(j)) + Cardinality(Counting(j))
      BY <1>7, <1>11, <2>7 DEF HeldInv, CountsAreRight
    <3>5. cache'.clients[j] = cache.clients[j] + 1
      BY <1>7, <1>8, <2>7
    <3> QED
      BY <2>2, <3>1, <3>2, <3>3, <3>4, <3>5
  <2> QED
    BY <2>6, <2>7
<1> QED
  BY <1>9, <1>10, <1>11 DEF HeldInv, CountsAreRight

LEMMA BumpFdHeld ==
    ASSUME TypeInv, HeldInv, NEW t \in Threads, BumpFd(t), raced => raced'
    PROVE  HeldInv'
<1> DEFINE pc == IF Reading(t) THEN "reader" ELSE "writer"
<1>1. /\ th[t].pc = "bump" /\ th' = [th EXCEPT ![t].pc = pc]
      /\ curr_fd' = th[t].fd + 1
      /\ opened' = opened /\ fd_paths' = fd_paths /\ cache' = cache
  BY DEF BumpFd, Go, At, cacheVars
<1>2. LocalOK(th[t]) /\ th[t] \in Locals
  BY DEF TypeInv, ThreadsOK
<1>3. th[t].op # "CLOSE" /\ th[t].fd \in Fds
  BY <1>1, <1>2 DEF LocalOK, TakingFd, OpenOps
<1>4. Acts(t) /\ th'[t] = [th[t] EXCEPT !.pc = pc]
  BY <1>1 DEF TypeInv, ThreadsOK, Acts
<1>5. th'[t].pc = pc /\ th'[t].op = th[t].op /\ th'[t].path = th[t].path /\ th'[t].ver = th[t].ver
         /\ th'[t].fd = th[t].fd
  BY <1>2, <1>4 DEF Locals
<1>6. /\ SharedKey(t)' = SharedKey(t)
      /\ Reading(t)' /\ th'[t].pc \in Counted <=> Reading(t) /\ th[t].pc \in Counted
  BY <1>1, <1>5 DEF SharedKey, Reading, Counted
<1>7. th'[t].pc \notin {"own", "count"} /\ th[t].pc # "own" /\ th'[t].op # "CLOSE"
  BY <1>1, <1>3, <1>5
<1>8. KeysCounted'
  <2>1. Reading(t)' /\ th'[t].pc \in Counted \cup {"count"} => SharedKey(t) \in DOMAIN cache.clients
    BY <1>6, <1>7 DEF HeldInv, KeysCounted
  <2>2. \A fd \in DOMAIN fd_paths' : fd \in DOMAIN fd_paths /\ fd_paths'[fd] = fd_paths[fd]
    BY <1>1
  <2> QED
    BY <1>1, <1>4, <1>6, <2>1, <2>2, KeysGrow DEF HeldInv
<1>9. ASSUME ~raced' PROVE FdsApart'
  <2>1. FdsApart
    BY <1>9 DEF HeldInv
  <2>2. th[t].fd = curr_fd /\ curr_fd \in Nat
    BY <1>1, <1>9 DEF TypeInv, FdsOK, At
  <2>3. curr_fd <= th'[t].fd /\ th'[t].fd < curr_fd' /\ curr_fd' \in Nat /\ curr_fd <= curr_fd'
    BY <1>1, <1>5, <2>2
  <2>4. th'[t].fd \notin DOMAIN fd_paths'
    BY <1>1, <1>5, <2>1, <2>2 DEF FdsApart
  <2> QED
    BY <1>1, <1>4, <1>7, <2>1, <2>3, <2>4, ApartAgain
<1>10. ASSUME ~raced', NEW j \in DOMAIN cache'.clients
       PROVE  cache'.clients[j] = Cardinality(Holders(j)') + Cardinality(Counting(j)')
  <2>1. \A fd : fd \in Holders(j)' <=> fd \in Holders(j)
    BY <1>1, <1>4, <1>7, HolderAgain
  <2>2. \A u \in Threads : u \in Counting(j)' <=> u \in Counting(j)
    BY <1>4, <1>5, <1>6, CountingAgain
  <2>3. Counting(j) \subseteq Threads /\ Counting(j)' \subseteq Threads
    BY DEF Counting
  <2> QED
    <3>1. Holders(j)' = Holders(j)
      BY <2>1
    <3>2. Counting(j)' = Counting(j)
      BY <2>2, <2>3
    <3> QED
      BY <1>1, <1>10, <3>1, <3>2, NotAnothers
<1> QED
  BY <1>8, <1>9, <1>10 DEF HeldInv, CountsAreRight

LEMMA OpenReaderHeld ==
    ASSUME TypeInv, HeldInv, NEW t \in Threads, OpenReader(t), raced => raced'
    PROVE  HeldInv'
<1> DEFINE k == SharedKey(t)
           d == th[t].fd
           n == [path |-> th[t].path, ver |-> th[t].ver, write |-> FALSE]
<1>1. /\ th[t].pc = "reader" /\ th' = [th EXCEPT ![t] = Idle]
      /\ fd_paths' = With(fd_paths, d, n)
      /\ opened' = [opened EXCEPT ![t] = @ \cup {d}] \/ opened' = opened
      /\ curr_fd' = curr_fd /\ cache' = cache
  BY DEF OpenReader, Return, At, Named, cacheVars
<1>2. LocalOK(th[t]) /\ th[t] \in Locals
  BY DEF TypeInv, ThreadsOK
<1>3. th[t].op = "READ" /\ Reading(t)
  BY <1>1, <1>2 DEF LocalOK, Reading
<1>4. Acts(t) /\ th'[t] = Idle
  BY <1>1 DEF TypeInv, ThreadsOK, Acts
<1>5. th'[t].pc = "idle" /\ th'[t].op = "none" /\ ~Reading(t)'
  BY <1>4 DEF Idle, Reading
<1>6. k = Key(th[t].path, th[t].ver, Shared) /\ k \in DOMAIN cache.clients
  BY <1>1, <1>3, SharedKeyOfReader DEF HeldInv, KeysCounted, Counted
<1>7. /\ DOMAIN fd_paths' = DOMAIN fd_paths \cup {d} /\ fd_paths'[d] = n
      /\ \A fd \in DOMAIN fd_paths \ {d} : fd_paths'[fd] = fd_paths[fd]
  BY <1>1 DEF With
<1>8. \A fd : fd = d => FdKey(fd)' = k
  <2>1. n.path = th[t].path /\ n.ver = th[t].ver /\ n.write = FALSE
    OBVIOUS
  <2> HIDE DEF n
  <2>2. \A fd : fd = d => fd_paths'[fd] = n
    BY <1>7
  <2> QED
    BY <1>6, <2>1, <2>2 DEF FdKey
<1>9. KeysCounted'
  <2>1. \A fd \in DOMAIN fd_paths' : \/ fd \in DOMAIN fd_paths /\ fd_paths'[fd] = fd_paths[fd]
                                     \/ FdKey(fd)' \in DOMAIN cache'.clients
    BY <1>1, <1>6, <1>7, <1>8
  <2> QED
    BY <1>1, <1>4, <1>5, <2>1, KeysGrow DEF HeldInv
<1>10. ASSUME ~raced' PROVE FdsApart'
  <2>1. FdsApart
    BY <1>10 DEF HeldInv
  <2>2. th'[t].pc \notin UsingFd \cup Nameless /\ th'[t].pc # "own" /\ th'[t].op # "CLOSE"
    BY <1>5 DEF UsingFd, Nameless
  <2>3. curr_fd' \in Nat /\ curr_fd <= curr_fd'
    BY <1>1 DEF TypeInv, FdsOK
  <2>4. th[t].pc \in UsingFd /\ th[t].pc \in Nameless
    BY <1>1 DEF UsingFd, Nameless
  <2>5. d \notin DOMAIN fd_paths
    BY <2>1, <2>4 DEF FdsApart
  <2>6. opened \in [Threads -> SUBSET Fds]
    BY DEF TypeInv, TablesOK
  <2>7. /\ \A u \in Threads : u # t => opened'[u] = opened[u]
        /\ \A fd \in opened'[t] : fd \in opened[t] \/ (th[t].pc \in UsingFd /\ fd = th[t].fd)
    BY <1>1, <2>4, <2>6
  <2>8. \A fd \in DOMAIN fd_paths' : \/ fd \in DOMAIN fd_paths
                                     \/ th[t].pc \in Nameless /\ fd = th[t].fd
    BY <1>7, <2>4
  <2>9. \A fd \in DOMAIN fd_paths : fd \in DOMAIN fd_paths' /\ fd_paths'[fd] = fd_paths[fd]
    BY <1>7, <2>5
  <2> QED
    BY <1>4, <2>1, <2>2, <2>3, <2>7, <2>8, <2>9, ApartAgain
<1>11. ASSUME ~raced', NEW j \in DOMAIN cache'.clients
       PROVE  cache'.clients[j] = Cardinality(Holders(j)') + Cardinality(Counting(j)')
  <2>0. FdsApart /\ d \notin DOMAIN fd_paths
    BY <1>1, <1>11 DEF HeldInv, FdsApart, Nameless
  <2>1. \A fd : fd # d => (fd \in Holders(j)' <=> fd \in Holders(j))
    <3>1. ASSUME NEW fd, fd # d PROVE fd \in Holders(j)' <=> fd \in Holders(j)
      BY <1>1, <1>4, <1>5, <1>7, <3>1, HolderAgain
    <3> QED
      BY <3>1
  <2>2. d \notin Holders(j) /\ (d \in Holders(j)' <=> j = k)
    <3>1. d \notin Owning
      <4>1. \A u \in Threads : th[u].pc = "own" => th[u].fd # d
        BY <1>1, <2>0 DEF FdsApart, UsingFd
      <4> QED
        BY <4>1 DEF Owning, At
    <3>2. d \notin Owning'
      BY <1>1, <1>4, <1>5, <3>1, OwningAgain
    <3>3. \A fd : fd \in Holders(j)' <=> fd \in DOMAIN fd_paths' /\ FdKey(fd)' = j /\ fd \notin Owning'
      BY DEF Holders, Owning
    <3> QED
      BY <1>7, <1>8, <2>0, <3>2, <3>3 DEF Holders
  <2>3. \A u \in Threads \ {t} : u \in Counting(j)' <=> u \in Counting(j)
    BY <1>4, CountingAgain
  <2>4. t \notin Counting(j)' /\ (t \in Counting(j) <=> j = k)
    BY <1>1, <1>3, <1>5 DEF Counting
  <2>5. Counting(j) \subseteq Threads /\ Counting(j)' \subseteq Threads
    BY DEF Counting
  <2>6. CASE j # k
    <3>1. Counting(j)' = Counting(j)
      BY <2>3, <2>4, <2>5, <2>6
    <3>2. Holders(j)' = Holders(j)
      BY <2>1, <2>2, <2>6
    <3> QED
      BY <1>1, <1>11, <3>1, <3>2, NotAnothers
  <2>7. CASE j = k
    <3>1. Counting(j)' = Counting(j) \ {t} /\ t \in Counting(j)
      BY <2>3, <2>4, <2>5, <2>7
    <3>2. Holders(j)' = Holders(j) \cup {d}
      BY <2>1, <2>2, <2>7
    <3>3. /\ IsFiniteSet(Counting(j)) /\ Cardinality(Counting(j)) \in Nat
          /\ IsFiniteSet(Holders(j)) /\ Cardinality(Holders(j)) \in Nat
      BY FewHolders
    <3>4. Cardinality(Counting(j) \ {t}) = Cardinality(Counting(j)) - 1
      BY <3>1, <3>3, FS_RemoveElement
    <3>5. Cardinality(Holders(j) \cup {d}) = Cardinality(Holders(j)) + 1
      BY <2>2, <3>3, FS_AddElement
    <3>6. cache.clients[j] = Cardinality(Holders(j)) + Cardinality(Counting(j))
      BY <1>1, <1>11 DEF HeldInv, CountsAreRight
    <3>7. cache'.clients[j] = cache.clients[j]
      BY <1>1
    <3> QED
      BY <3>1, <3>2, <3>3, <3>4, <3>5, <3>6, <3>7
  <2> QED
    BY <2>6, <2>7
<1> QED
  BY <1>9, <1>10, <1>11 DEF HeldInv, CountsAreRight

LEMMA PutCopyHeld ==
    ASSUME TypeInv, HeldInv, NEW t \in Threads, PutCopy(t), raced => raced'
    PROVE  HeldInv'
<1> DEFINE k == CopyKey(t)
           d == th[t].fd
           n == [path |-> th[t].path, ver |-> th[t].ver, write |-> TRUE]
<1>1. /\ th[t].pc = "copy" /\ th' = [th EXCEPT ![t].pc = "own"]
      /\ fd_paths' = With(fd_paths, d, n)
      /\ Put(k) /\ opened' = opened /\ curr_fd' = curr_fd
  BY DEF PutCopy, Go, At, Named
<1>2. LocalOK(th[t]) /\ th[t] \in Locals
  BY DEF TypeInv, ThreadsOK
<1>3. th[t].op \notin {"READ", "CLOSE"} /\ ~Reading(t) /\ d \in Fds
  BY <1>1, <1>2 DEF LocalOK, Reading, UsingFd, OpenOps
<1>4. Acts(t) /\ th'[t] = [th[t] EXCEPT !.pc = "own"]
  BY <1>1 DEF TypeInv, ThreadsOK, Acts
<1>5. th'[t].pc = "own" /\ th'[t].op = th[t].op /\ th'[t].path = th[t].path /\ th'[t].ver = th[t].ver
         /\ th'[t].fd = th[t].fd
  BY <1>2, <1>4 DEF Locals
<1>6. k' = k /\ ~Reading(t)'
  BY <1>3, <1>5 DEF CopyKey, Reading
<1>7. k \in Keys
  BY <1>1, <1>2, KeysOfThread DEF CopyKey, Resting
<1>8. /\ DOMAIN fd_paths' = DOMAIN fd_paths \cup {d} /\ fd_paths'[d] = n
      /\ \A fd \in DOMAIN fd_paths \ {d} : fd_paths'[fd] = fd_paths[fd]
  BY <1>1 DEF With
<1>9. (\A fd : fd = d => FdKey(fd)' = k) /\ n.write
  <2>1. n.path = th[t].path /\ n.ver = th[t].ver /\ n.write = TRUE
    OBVIOUS
  <2> HIDE DEF n
  <2>2. \A fd : fd = d => fd_paths'[fd] = n
    BY <1>8
  <2> QED
    BY <2>1, <2>2 DEF FdKey, CopyKey
<1> HIDE DEF n
<1>10. /\ DOMAIN cache'.clients = DOMAIN cache.clients \cup {k}
       /\ \A j \in DOMAIN cache.clients : cache'.clients[j] = cache.clients[j]
       /\ k \notin DOMAIN cache.clients => cache'.clients[k] = 0
  BY <1>1, <1>7, PutEffect DEF TypeInv
<1>11. KeysCounted'
  <2>1. \A fd \in DOMAIN fd_paths' : \/ fd \in DOMAIN fd_paths /\ fd_paths'[fd] = fd_paths[fd]
                                     \/ FdKey(fd)' \in DOMAIN cache'.clients
    BY <1>8, <1>9, <1>10
  <2> QED
    BY <1>4, <1>6, <1>10, <2>1, KeysGrow DEF HeldInv
<1>12. ASSUME ~raced' PROVE FdsApart'
  <2>1. FdsApart
    BY <1>12 DEF HeldInv
  <2>2. th'[t].pc \notin Nameless /\ th'[t].op # "CLOSE"
    BY <1>3, <1>5 DEF Nameless
  <2>3. curr_fd' \in Nat /\ curr_fd <= curr_fd'
    BY <1>1 DEF TypeInv, FdsOK
  <2>4. th[t].pc \in UsingFd /\ th[t].pc \in Nameless
    BY <1>1 DEF UsingFd, Nameless
  <2>5. d \notin DOMAIN fd_paths /\ d \notin opened[t]
    BY <2>1, <2>4 DEF FdsApart
  <2>6. \A fd \in DOMAIN fd_paths' : \/ fd \in DOMAIN fd_paths
                                     \/ th[t].pc \in Nameless /\ fd = th[t].fd
    BY <1>8, <2>4
  <2>7. \A fd \in DOMAIN fd_paths : fd \in DOMAIN fd_paths' /\ fd_paths'[fd] = fd_paths[fd]
    BY <1>8, <2>5
  <2>8. /\ th'[t].fd \in DOMAIN fd_paths' /\ fd_paths'[th'[t].fd].write
        /\ FdKey(th[t].fd)' = CopyKey(t)'
    BY <1>5, <1>6, <1>8, <1>9 DEF FdKey
  <2>9. th[t].pc \in UsingFd /\ th'[t].fd = th[t].fd /\ th'[t].fd \notin opened'[t]
    BY <1>1, <1>5, <2>4, <2>5
  <2> QED
    BY <1>1, <1>4, <2>1, <2>2, <2>3, <2>6, <2>7, <2>8, <2>9, ApartAgain
<1>13. ASSUME ~raced', NEW j \in DOMAIN cache'.clients
       PROVE  cache'.clients[j] = Cardinality(Holders(j)') + Cardinality(Counting(j)')
  <2>0. FdsApart /\ d \notin DOMAIN fd_paths
    BY <1>1, <1>13 DEF HeldInv, FdsApart, Nameless
  <2>1. \A fd : fd # d => (fd \in Holders(j)' <=> fd \in Holders(j))
    <3>1. ASSUME NEW fd, fd # d PROVE fd \in Holders(j)' <=> fd \in Holders(j)
      BY <1>1, <1>4, <1>5, <1>8, <3>1, HolderAgain
    <3> QED
      BY <3>1
  <2>2. d \notin Holders(j) /\ d \notin Holders(j)'
    BY <1>5, <2>0 DEF Holders, At
  <2>3. Holders(j)' = Holders(j)
    BY <2>1, <2>2
  <2>4. \A u \in Threads : u \in Counting(j)' <=> u \in Counting(j)
    BY <1>3, <1>4, <1>6, CountingAgain
  <2>5. Counting(j)' = Counting(j)
    BY <2>4 DEF Counting
  <2>6. CASE j \in DOMAIN cache.clients
    BY <1>10, <1>13, <2>3, <2>5, <2>6, NotAnothers
  <2>7. CASE j \notin DOMAIN cache.clients
    <3>1. Cardinality(Holders(j)) = 0 /\ Cardinality(Counting(j)) = 0
      BY <2>7, NoHolders DEF HeldInv
    <3> QED
      BY <1>10, <1>13, <2>3, <2>5, <2>7, <3>1
  <2> QED
    BY <2>6, <2>7
<1> QED
  BY <1>11, <1>12, <1>13 DEF HeldInv, CountsAreRight

LEMMA OwnCopyHeld ==
    ASSUME TypeInv, HeldInv, NEW t \in Threads, OwnCopy(t), raced => raced'
    PROVE  HeldInv'
<1> DEFINE k == CopyKey(t)
           d == th[t].fd
<1>1. /\ th[t].pc = "own" /\ AddClient(k) /\ th' = [th EXCEPT ![t] = Idle]
      /\ opened' = [opened EXCEPT ![t] = @ \cup {d}]
      /\ fd_paths' = fd_paths /\ curr_fd' = curr_fd
  BY DEF OwnCopy, Return, At, tables
<1>2. LocalOK(th[t]) /\ th[t] \in Locals
  BY DEF TypeInv, ThreadsOK
<1>3. th[t].op # "READ" /\ ~Reading(t)
  BY <1>1, <1>2 DEF LocalOK, Reading
<1>4. Acts(t) /\ th'[t] = Idle
  BY <1>1 DEF TypeInv, ThreadsOK, Acts
<1>5. th'[t].pc = "idle" /\ th'[t].op = "none" /\ ~Reading(t)'
  BY <1>4 DEF Idle, Reading
<1>6. /\ DOMAIN cache'.clients = DOMAIN cache.clients
      /\ \A j \in DOMAIN cache.clients :
           cache'.clients[j] = IF j = k THEN cache.clients[j] + 1 ELSE cache.clients[j]
  BY <1>1, AddEffect DEF TypeInv
<1>7. KeysCounted'
  <2>1. \A fd \in DOMAIN fd_paths' : fd \in DOMAIN fd_paths /\ fd_paths'[fd] = fd_paths[fd]
    BY <1>1
  <2> QED
    BY <1>4, <1>5, <1>6, <2>1, KeysGrow DEF HeldInv
<1>8. ASSUME ~raced' PROVE FdsApart'
  <2>1. FdsApart
    BY <1>8 DEF HeldInv
  <2>2. th'[t].pc \notin UsingFd \cup Nameless /\ th'[t].pc # "own" /\ th'[t].op # "CLOSE"
    BY <1>5 DEF UsingFd, Nameless
  <2>3. curr_fd' \in Nat /\ curr_fd <= curr_fd'
    BY <1>1 DEF TypeInv, FdsOK
  <2>4. th[t].pc \in UsingFd
    BY <1>1 DEF UsingFd
  <2>5. opened \in [Threads -> SUBSET Fds]
    BY DEF TypeInv, TablesOK
  <2>6. /\ \A u \in Threads : u # t => opened'[u] = opened[u]
        /\ \A fd \in opened'[t] : fd \in opened[t] \/ (th[t].pc \in UsingFd /\ fd = th[t].fd)
    BY <1>1, <2>4, <2>5
  <2> QED
    BY <1>1, <1>4, <2>1, <2>2, <2>3, <2>6, ApartAgain
<1>9. ASSUME ~raced', NEW j \in DOMAIN cache'.clients
       PROVE  cache'.clients[j] = Cardinality(Holders(j)') + Cardinality(Counting(j)')
  <2>0. FdsApart /\ d \in DOMAIN fd_paths /\ FdKey(d) = k
    BY <1>1, <1>9 DEF HeldInv, FdsApart
  <2>1. \A fd : fd # d => (fd \in Holders(j)' <=> fd \in Holders(j))
    <3>1. ASSUME NEW fd, fd # d PROVE fd \in Holders(j)' <=> fd \in Holders(j)
      BY <1>1, <1>4, <1>5, <3>1, HolderAgain
    <3> QED
      BY <3>1
  <2>2. d \notin Holders(j)
    BY <1>1 DEF Holders, At
  <2>3. \A fd : fd = d => (fd \in Holders(j)' <=> j = k)
    <3>1. \A u \in Threads \ {t} : th[u].pc = "own" => th[u].fd # d
      BY <1>1, <2>0 DEF FdsApart, UsingFd
    <3>2. \A u \in Threads : At(u, "own")' => th'[u].fd # d
      BY <1>4, <1>5, <3>1, OthersStay DEF At
    <3>3. \A fd : fd = d => fd \notin Owning'
      BY <3>2 DEF Owning
    <3>4. \A fd : fd = d => FdKey(fd)' = k
      BY <1>1, <2>0 DEF FdKey
    <3>5. \A fd : fd \in Holders(j)' <=> fd \in DOMAIN fd_paths' /\ FdKey(fd)' = j /\ fd \notin Owning'
      BY DEF Holders, Owning
    <3> QED
      BY <1>1, <2>0, <3>3, <3>4, <3>5
  <2>4. \A u \in Threads : u \in Counting(j)' <=> u \in Counting(j)
    BY <1>3, <1>4, <1>5, CountingAgain
  <2>5. Counting(j)' = Counting(j)
    BY <2>4 DEF Counting
  <2>6. CASE j # k
    <3>1. Holders(j)' = Holders(j)
      BY <2>1, <2>2, <2>3, <2>6
    <3> QED
      BY <1>6, <1>9, <2>5, <2>6, <3>1, NotAnothers
  <2>7. CASE j = k
    <3>1. Holders(j)' = Holders(j) \cup {d}
      BY <2>1, <2>3, <2>7
    <3>2. /\ IsFiniteSet(Holders(j)) /\ Cardinality(Holders(j)) \in Nat
          /\ Cardinality(Counting(j)) \in Nat
      BY FewHolders
    <3>3. Cardinality(Holders(j) \cup {d}) = Cardinality(Holders(j)) + 1
      BY <2>2, <3>2, FS_AddElement
    <3>4. cache.clients[j] = Cardinality(Holders(j)) + Cardinality(Counting(j))
      BY <1>6, <1>9 DEF HeldInv, CountsAreRight
    <3>5. cache'.clients[j] = cache.clients[j] + 1
      BY <1>6, <1>9, <2>7
    <3> QED
      BY <2>5, <3>1, <3>2, <3>3, <3>4, <3>5
  <2> QED
    BY <2>6, <2>7
<1> QED
  BY <1>7, <1>8, <1>9 DEF HeldInv, CountsAreRight

\* The descriptor a close gives up held its file.
LEMMA HolderLeaves ==
    ASSUME TypeInv, HeldInv, ~raced, NEW t \in Threads, Acts(t),
           th[t].pc # "own", th'[t].pc # "own", ~(Reading(t) /\ th[t].pc \in Counted),
           ~(Reading(t)' /\ th'[t].pc \in Counted),
           NEW d \in opened[t], d \in DOMAIN fd_paths,
           fd_paths' = Without(fd_paths, {d}), CountedDown(FdKey(d)),
           NEW j \in DOMAIN cache'.clients
    PROVE  cache'.clients[j] = Cardinality(Holders(j)') + Cardinality(Counting(j)')
<1> DEFINE k == FdKey(d)
<1>1. d \in Holders(k) /\ k \in DOMAIN cache.clients /\ cache.clients[k] >= 1
  BY OpenedHolds
<1>2. /\ d \notin DOMAIN fd_paths'
      /\ \A fd : fd # d => (fd \in DOMAIN fd_paths <=> fd \in DOMAIN fd_paths')
      /\ \A fd \in DOMAIN fd_paths' : fd_paths'[fd] = fd_paths[fd]
  BY DEF Without
<1>3. \A fd : fd # d => (fd \in Holders(j)' <=> fd \in Holders(j))
  <2>1. ASSUME NEW fd, fd # d PROVE fd \in Holders(j)' <=> fd \in Holders(j)
    <3>1. fd \in DOMAIN fd_paths <=> fd \in DOMAIN fd_paths'
      BY <1>2, <2>1
    <3>2. fd \in DOMAIN fd_paths => fd_paths'[fd] = fd_paths[fd]
      BY <1>2, <3>1
    <3> QED
      BY <3>1, <3>2, HolderAgain
  <2> QED
    BY <2>1
<1>4. d \notin Holders(j)' /\ (d \in Holders(j) <=> j = k)
  <2>1. d \notin Holders(j)'
    BY <1>2 DEF Holders
  <2> QED
    BY <1>1, <2>1 DEF Holders
<1>5. Counting(j)' = Counting(j)
  <2>1. \A u \in Threads : u \in Counting(j)' <=> u \in Counting(j)
    BY CountingAgain
  <2> QED
    BY <2>1 DEF Counting
<1>6. DOMAIN cache'.clients = DOMAIN cache.clients
  BY DEF CountedDown
<1>7. CASE j # k
  <2>1. Holders(j)' = Holders(j)
    BY <1>3, <1>4, <1>7
  <2>2. cache'.clients[j] = cache.clients[j]
    BY <1>6, <1>7 DEF CountedDown
  <2> QED
    BY <1>5, <1>6, <2>1, <2>2, NotAnothers
<1>8. CASE j = k
  <2>1. Holders(j)' = Holders(j) \ {d}
    BY <1>3, <1>4
  <2>2. /\ IsFiniteSet(Holders(j)) /\ Cardinality(Holders(j)) \in Nat
        /\ Cardinality(Counting(j)) \in Nat
    BY FewHolders
  <2>3. Cardinality(Holders(j) \ {d}) = Cardinality(Holders(j)) - 1
    BY <1>4, <1>8, <2>2, FS_RemoveElement
  <2>4. cache.clients[j] = Cardinality(Holders(j)) + Cardinality(Counting(j))
    BY <1>6 DEF HeldInv, CountsAreRight
  <2>5. cache.clients[j] >= 1
    BY <1>1, <1>8
  <2>6. cache'.clients[j] = cache.clients[j] - 1
    <3>1. cache'.clients[j] = OneClientLess(cache.clients[j])
      BY <1>6, <1>8 DEF CountedDown
    <3> QED
      BY <2>2, <2>4, <2>5, <3>1 DEF OneClientLess
  <2> QED
    BY <1>5, <2>1, <2>2, <2>3, <2>4, <2>6
<1> QED
  BY <1>7, <1>8

LEMMA CloseReaderHeld ==
    ASSUME TypeInv, HeldInv, NEW t \in Threads, NEW d \in Fds, CloseReader(t, d),
           raced => raced'
    PROVE  HeldInv'
<1> DEFINE r == [Idle EXCEPT !.pc = "scan", !.op = "READ", !.path = fd_paths[d].path,
                             !.ver = fd_paths[d].ver]
<1>1. /\ th[t].pc = "idle" /\ d \in opened[t] /\ d \in DOMAIN fd_paths
      /\ RemoveReader(FdKey(d)) /\ th' = [th EXCEPT ![t] = r]
      /\ fd_paths' = Without(fd_paths, {d})
      /\ opened' = [opened EXCEPT ![t] = @ \ {d}] /\ curr_fd' = curr_fd
  BY DEF CloseReader, Closes, Forget, At
<1>2. r.pc = "scan" /\ r.op = "READ"
  BY DEF Idle
<1> HIDE DEF r
<1>3. Acts(t) /\ th'[t] = r
  BY <1>1 DEF TypeInv, ThreadsOK, Acts
<1>4. CountedDown(FdKey(d))
  BY <1>1, RemoveReaderEffect DEF TypeInv
<1>5. th'[t].pc = "scan" /\ th'[t].op = "READ"
  BY <1>2, <1>3
<1>6. /\ \A fd \in DOMAIN fd_paths' : fd \in DOMAIN fd_paths /\ fd_paths'[fd] = fd_paths[fd]
      /\ \A fd \in DOMAIN fd_paths : fd # d => fd \in DOMAIN fd_paths' /\ fd_paths'[fd] = fd_paths[fd]
  BY <1>1 DEF Without
<1>7. KeysCounted'
  <2>1. DOMAIN cache.clients \subseteq DOMAIN cache'.clients
    BY <1>4 DEF CountedDown
  <2>2. th'[t].pc \notin Counted \cup {"count"}
    BY <1>5 DEF Counted
  <2> QED
    BY <1>3, <1>6, <2>1, <2>2, KeysGrow DEF HeldInv
<1>8. ASSUME ~raced' PROVE FdsApart'
  <2>1. FdsApart
    BY <1>8 DEF HeldInv
  <2>2. th'[t].pc \notin UsingFd \cup Nameless /\ th'[t].pc # "own" /\ th'[t].op # "CLOSE"
    BY <1>5 DEF UsingFd, Nameless
  <2>3. curr_fd' \in Nat /\ curr_fd <= curr_fd'
    BY <1>1 DEF TypeInv, FdsOK
  <2>4. opened \in [Threads -> SUBSET Fds]
    BY DEF TypeInv, TablesOK
  <2>5. /\ \A u \in Threads : u # t => opened'[u] = opened[u]
        /\ \A fd \in opened'[t] : fd \in opened[t]
    BY <1>1, <2>4
  <2>6. \A fd \in DOMAIN fd_paths :
          fd \in opened[t] \/ (fd \in DOMAIN fd_paths' /\ fd_paths'[fd] = fd_paths[fd])
    BY <1>1, <1>6
  <2> QED
    BY <1>3, <1>6, <2>1, <2>2, <2>3, <2>5, <2>6, ApartAgain
<1>9. ASSUME ~raced', NEW j \in DOMAIN cache'.clients
      PROVE  cache'.clients[j] = Cardinality(Holders(j)') + Cardinality(Counting(j)')
  BY <1>1, <1>3, <1>4, <1>5, <1>9, HolderLeaves DEF Counted
<1> QED
  BY <1>7, <1>8, <1>9 DEF HeldInv, CountsAreRight

LEMMA ReleaseHeld ==
    ASSUME TypeInv, HeldInv, NEW t \in Threads, Release(t), raced => raced'
    PROVE  HeldInv'
<1> DEFINE d == th[t].fd
<1>1. /\ th[t].pc = "release" /\ RemoveWriter(CopyKey(t)) /\ th' = [th EXCEPT ![t] = Idle]
      /\ fd_paths' = Without(fd_paths, {d})
      /\ opened' = [opened EXCEPT ![t] = @ \ {d}] /\ curr_fd' = curr_fd
  BY DEF Release, Forget, Return, At
<1>2. LocalOK(th[t]) /\ th[t] \in Locals
  BY DEF TypeInv, ThreadsOK
<1>3. th[t].op = "CLOSE" /\ ~Reading(t)
  BY <1>1, <1>2 DEF LocalOK, Ending, Reading
<1>4. Acts(t) /\ th'[t] = Idle
  BY <1>1 DEF TypeInv, ThreadsOK, Acts
<1>5. th'[t].pc = "idle" /\ th'[t].op = "none" /\ ~Reading(t)'
  BY <1>4 DEF Idle, Reading
<1>6. CountedDown(CopyKey(t))
  BY <1>1, RemoveWriterEffect DEF TypeInv
<1>7. /\ \A fd \in DOMAIN fd_paths' : fd \in DOMAIN fd_paths /\ fd_paths'[fd] = fd_paths[fd]
      /\ \A fd \in DOMAIN fd_paths : fd # d => fd \in DOMAIN fd_paths' /\ fd_paths'[fd] = fd_paths[fd]
  BY <1>1 DEF Without
<1>8. KeysCounted'
  <2>1. DOMAIN cache.clients \subseteq DOMAIN cache'.clients
    BY <1>6 DEF CountedDown
  <2> QED
    BY <1>4, <1>5, <1>7, <2>1, KeysGrow DEF HeldInv
<1>9. ASSUME ~raced PROVE /\ FdsApart /\ d \in opened[t] /\ d \in DOMAIN fd_paths
                           /\ FdKey(d) = CopyKey(t)
  BY <1>3, <1>9 DEF HeldInv, FdsApart
<1>10. ASSUME ~raced' PROVE FdsApart'
  <2>1. FdsApart /\ d \in opened[t]
    BY <1>9, <1>10
  <2>2. th'[t].pc \notin UsingFd \cup Nameless /\ th'[t].pc # "own" /\ th'[t].op # "CLOSE"
    BY <1>5 DEF UsingFd, Nameless
  <2>3. curr_fd' \in Nat /\ curr_fd <= curr_fd'
    BY <1>1 DEF TypeInv, FdsOK
  <2>4. opened \in [Threads -> SUBSET Fds]
    BY DEF TypeInv, TablesOK
  <2>5. /\ \A u \in Threads : u # t => opened'[u] = opened[u]
        /\ \A fd \in opened'[t] : fd \in opened[t]
    BY <1>1, <2>4
  <2>6. \A fd \in DOMAIN fd_paths :
          fd \in opened[t] \/ (fd \in DOMAIN fd_paths' /\ fd_paths'[fd] = fd_paths[fd])
    BY <1>7, <2>1
  <2> QED
    BY <1>4, <1>7, <2>1, <2>2, <2>3, <2>5, <2>6, ApartAgain
<1>11. ASSUME ~raced', NEW j \in DOMAIN cache'.clients
       PROVE  cache'.clients[j] = Cardinality(Holders(j)') + Cardinality(Counting(j)')
  BY <1>1, <1>3, <1>4, <1>5, <1>6, <1>9, <1>11, HolderLeaves DEF Counted
<1> QED
  BY <1>8, <1>10, <1>11 DEF HeldInv, CountsAreRight

LEMMA CloseLostHeld ==
    ASSUME TypeInv, HeldInv, NEW t \in Threads, NEW d \in Fds, CloseLost(t, d),
           raced => raced'
    PROVE  HeldInv'
<1>1. /\ th[t].pc = "idle" /\ th' = th /\ opened' = [opened EXCEPT ![t] = @ \ {d}]
      /\ fd_paths' = fd_paths /\ curr_fd' = curr_fd /\ cache' = cache
  BY DEF CloseLost, Closes, At, tables, cacheVars
<1>2. th[t].op = "none" /\ th \in [Threads -> Locals]
  BY <1>1 DEF TypeInv, ThreadsOK, LocalOK, Resting
<1>3. Acts(t)
  BY <1>1, <1>2 DEF Acts
<1>4. KeysCounted'
  <2>1. ~Reading(t)'
    BY <1>1, <1>2 DEF Reading
  <2> QED
    BY <1>1, <1>3, <2>1, KeysGrow DEF HeldInv
<1>5. ASSUME ~raced' PROVE FdsApart'
  <2>1. FdsApart
    BY <1>5 DEF HeldInv
  <2>2. th'[t].pc \notin UsingFd \cup Nameless /\ th'[t].pc # "own" /\ th'[t].op # "CLOSE"
    BY <1>1, <1>2 DEF UsingFd, Nameless
  <2>3. curr_fd' \in Nat /\ curr_fd <= curr_fd'
    BY <1>1 DEF TypeInv, FdsOK
  <2>4. opened \in [Threads -> SUBSET Fds]
    BY DEF TypeInv, TablesOK
  <2>5. /\ \A u \in Threads : u # t => opened'[u] = opened[u]
        /\ \A fd \in opened'[t] : fd \in opened[t]
    BY <1>1, <2>4
  <2> QED
    BY <1>1, <1>3, <2>1, <2>2, <2>3, <2>5, ApartAgain
<1>6. ASSUME ~raced', NEW j \in DOMAIN cache'.clients
      PROVE  cache'.clients[j] = Cardinality(Holders(j)') + Cardinality(Counting(j)')
  <2>1. Holders(j)' = Holders(j)
    BY <1>1 DEF Holders, FdKey, At
  <2>2. Counting(j)' = Counting(j)
    BY <1>1 DEF Counting, Reading, SharedKey
  <2> QED
    BY <1>1, <1>6, <2>1, <2>2, NotAnothers
<1> QED
  BY <1>4, <1>5, <1>6 DEF HeldInv, CountsAreRight

LEMMA CloseWriterHeld ==
    ASSUME TypeInv, HeldInv, NEW t \in Threads, NEW d \in Fds, CloseWriter(t, d),
           raced => raced'
    PROVE  HeldInv'
<1> DEFINE r == [Idle EXCEPT !.pc = "scan", !.op = "CLOSE", !.path = fd_paths[d].path,
                             !.ver = fd_paths[d].ver, !.fd = d, !.copy = fd_files[d]]
<1>1. /\ th[t].pc = "idle" /\ d \in opened[t] /\ d \in DOMAIN fd_paths /\ fd_paths[d].write
      /\ th' = [th EXCEPT ![t] = r]
      /\ opened' = opened /\ fd_paths' = fd_paths /\ curr_fd' = curr_fd /\ cache' = cache
  BY DEF CloseWriter, Closes, At, tables
<1>2. /\ r.pc = "scan" /\ r.op = "CLOSE" /\ r.fd = d
      /\ r.path = fd_paths[d].path /\ r.ver = fd_paths[d].ver
  BY DEF Idle
<1> HIDE DEF r
<1>3. Acts(t) /\ th'[t] = r
  BY <1>1 DEF TypeInv, ThreadsOK, Acts
<1>4. th'[t].pc = "scan" /\ th'[t].op = "CLOSE" /\ ~Reading(t)' /\ th'[t].fd = d
  BY <1>2, <1>3 DEF Reading
<1>5. th[t].op = "none" /\ ~Reading(t)
  BY <1>1 DEF TypeInv, ThreadsOK, LocalOK, Resting, Reading
<1>6. KeysCounted'
  BY <1>1, <1>3, <1>4, KeysGrow DEF HeldInv
<1>7. ASSUME ~raced' PROVE FdsApart'
  <2>1. FdsApart
    BY <1>7 DEF HeldInv
  <2>2. th'[t].pc \notin UsingFd \cup Nameless /\ th'[t].pc # "own"
    BY <1>4 DEF UsingFd, Nameless
  <2>3. curr_fd' \in Nat /\ curr_fd <= curr_fd'
    BY <1>1 DEF TypeInv, FdsOK
  <2>4. th'[t].fd \in DOMAIN fd_paths' /\ fd_paths'[th'[t].fd].write /\ th'[t].fd \in opened'[t]
    BY <1>1, <1>4
  <2>5. FdKey(th[t].fd)' = CopyKey(t)'
    BY <1>1, <1>2, <1>3 DEF FdKey, CopyKey
  <2> QED
    BY <1>1, <1>3, <2>1, <2>2, <2>3, <2>4, <2>5, ApartAgain
<1>8. ASSUME ~raced', NEW j \in DOMAIN cache'.clients
      PROVE  cache'.clients[j] = Cardinality(Holders(j)') + Cardinality(Counting(j)')
  <2>1. \A fd : fd \in Holders(j)' <=> fd \in Holders(j)
    BY <1>1, <1>3, <1>4, HolderAgain
  <2>2. Holders(j)' = Holders(j)
    BY <2>1
  <2>3. \A u \in Threads : u \in Counting(j)' <=> u \in Counting(j)
    BY <1>3, <1>4, <1>5, CountingAgain
  <2>4. Counting(j)' = Counting(j)
    BY <2>3 DEF Counting
  <2> QED
    BY <1>1, <1>8, <2>2, <2>4, NotAnothers
<1> QED
  BY <1>6, <1>7, <1>8 DEF HeldInv, CountsAreRight

LEMMA OpenStepHeld ==
    ASSUME TypeInv, HeldInv, NEW t \in Threads, OpenStep(t), raced => raced'
    PROVE  HeldInv'
<1>1. CASE OpenHit(t)
  BY <1>1, OpenHitReadQuiet, OpenHitWriteQuiet, QuietKeeps
<1>2. CASE CachePut(t)
  BY <1>2, CachePutReadQuiet, CachePutWriteQuiet, QuietKeeps
<1>3. CASE OpenRefused(t) \/ OpenMiss(t) \/ FetchLength(t) \/ FetchChunk(t) \/ FetchFails(t)
  BY <1>3, OpenRefusedQuiet, OpenMissQuiet, FetchLengthQuiet, FetchChunkQuiet,
     FetchFailsQuiet, QuietKeeps
<1>4. CASE Unlock(t) \/ ReadFd(t) \/ OpenWriter(t) \/ CopyChunk(t)
  BY <1>4, UnlockQuiet, ReadFdQuiet, OpenWriterQuiet, CopyChunkQuiet, QuietKeeps
<1>5. CASE Count(t) \/ BumpFd(t) \/ OpenReader(t) \/ PutCopy(t) \/ OwnCopy(t)
  BY <1>5, CountHeld, BumpFdHeld, OpenReaderHeld, PutCopyHeld, OwnCopyHeld
<1> QED
  BY <1>1, <1>2, <1>3, <1>4, <1>5 DEF OpenStep

LEMMA CloseStepHeld ==
    ASSUME TypeInv, HeldInv, NEW t \in Threads, CloseStep(t), raced => raced'
    PROVE  HeldInv'
<1>1. CASE StaleDrop(t)
  BY <1>1, StaleDropReadQuiet, StaleDropWriteQuiet, QuietKeeps
<1>2. CASE SendChunk(t)
  BY <1>2, SendChunkQuiet, SendFailsQuiet, QuietKeeps
<1>3. CASE StaleScan(t) \/ ClosePut(t) \/ CloseLengths(t) \/ StoreChunk(t)
  BY <1>3, StaleScanQuiet, ClosePutQuiet, CloseLengthsQuiet, StoreChunkQuiet, QuietKeeps
<1>4. CASE SettleRead(t) \/ SettleWrite(t) \/ Release(t)
  BY <1>4, SettleReadQuiet, SettleWriteQuiet, ReleaseHeld, QuietKeeps
<1> QED
  BY <1>1, <1>2, <1>3, <1>4 DEF CloseStep

LEMMA CallHeld ==
    ASSUME TypeInv, HeldInv, NEW t \in Threads, Call(t), raced => raced'
    PROVE  HeldInv'
<1>1. CASE \E p \in Paths, o \in Modes[t] : Open(t, p, o)
  BY <1>1, OpenQuiet, QuietKeeps
<1>2. CASE \E fd \in Fds : \E pos \in 0..MaxChunks : Write(t, fd, pos)
  BY <1>2, WriteQuiet, QuietKeeps
<1>3. CASE \E fd \in Fds : \/ CloseReader(t, fd) \/ CloseWriter(t, fd)
                           \/ CloseLost(t, fd) \/ CloseUnknown(t, fd)
  BY <1>3, CloseReaderHeld, CloseWriterHeld, CloseLostHeld, CloseUnknownQuiet, QuietKeeps
<1>4. CASE \E p \in Paths : Unlink(t, p)
  BY <1>4, UnlinkQuiet, QuietKeeps
<1> QED
  BY <1>1, <1>2, <1>3, <1>4 DEF Call

LEMMA HeldStutters ==
    ASSUME HeldInv, UNCHANGED allVars
    PROVE  HeldInv'
<1>1. UNCHANGED <<cache, th, opened, fd_paths, curr_fd, raced>>
  BY DEF allVars, vars, cacheVars, tables
<1>2. KeysCounted'
  BY <1>1 DEF HeldInv, KeysCounted, FdKey, SharedKey, Reading
<1>3. FdsApart' = FdsApart
  BY <1>1 DEF FdsApart, FdKey, CopyKey
<1>4. CountsAreRight'
  <2>1. ASSUME NEW k PROVE Holders(k)' = Holders(k) /\ Counting(k)' = Counting(k)
    BY <1>1 DEF Holders, Counting, FdKey, At, SharedKey, Reading
  <2> QED
    BY <1>1, <2>1 DEF HeldInv, CountsAreRight
<1> QED
  BY <1>1, <1>2, <1>3, <1>4 DEF HeldInv

LEMMA HeldInitially == Init => HeldInv
<1> SUFFICES ASSUME Init PROVE HeldInv
  OBVIOUS
<1>1. /\ fd_paths = <<>> /\ opened = [t \in Threads |-> {}]
      /\ cache = [entries |-> <<>>, clients |-> <<>>, size |-> 0]
  BY DEF Init
<1>2. \A t \in Threads : th[t].pc = "idle" /\ th[t].op = "none"
  BY DEF Init, Idle
<1>3. DOMAIN fd_paths = {} /\ DOMAIN cache.clients = {}
  BY <1>1
<1>4. KeysCounted
  BY <1>2, <1>3 DEF KeysCounted, Reading
<1>5. FdsApart
  BY <1>1, <1>2, <1>3 DEF FdsApart, UsingFd, Nameless
<1>6. CountsAreRight
  BY <1>3 DEF CountsAreRight
<1> QED
  BY <1>4, <1>5, <1>6 DEF HeldInv

\* HeldInv is inductive relative to the type invariant.
LEMMA HeldInductive ==
    TypeInv /\ HeldInv /\ [Next]_allVars => HeldInv'
<1> SUFFICES ASSUME TypeInv, HeldInv, [Next]_allVars PROVE HeldInv'
  OBVIOUS
<1>1. CASE UNCHANGED allVars
  BY <1>1, HeldStutters
<1>2. CASE Next
  <2>1. PICK t \in Threads : Call(t) \/ OpenStep(t) \/ CloseStep(t)
    BY <1>2 DEF Next
  <2>2. raced => raced'
    BY <1>2 DEF Next, History
  <2> QED
    BY <2>1, <2>2, CallHeld, OpenStepHeld, CloseStepHeld
<1> QED
  BY <1>1, <1>2

\* As long as no two getFd overlapped, the count of clients of every file is
\* the number of descriptors that use it and of opens on their way to one,
\* although open counts under cache_lock and close does not (Cache.java 42-81,
\* Proxy.java 46-53, 103-298).
THEOREM CountsHold == Spec => []CountsAreRight
<1>1. Init => TypeInv /\ HeldInv
  BY TypesInitially, HeldInitially
<1>2. TypeInv /\ HeldInv /\ [Next]_allVars => (TypeInv /\ HeldInv)'
  BY TypesInductive, HeldInductive
<1>3. HeldInv => CountsAreRight
  BY DEF HeldInv
<1> QED
  BY <1>1, <1>2, <1>3, PTL DEF Spec

-----------------------------------------------------------------------------
(* The files of open descriptors                                           *)

\* Who uses an open descriptor is counted.
OpenedCounted ==
    \A t \in Threads : \A fd \in opened[t] \cap DOMAIN fd_paths :
      FdKey(fd) \in DOMAIN cache.clients /\ cache.clients[FdKey(fd)] >= 1

\* While t alone runs: whom its close found idle still is, the copy it makes is
\* in the cache directory and, until it is put, no entry of the map.
FilesHeld(t) ==
    /\ th[t].pc = "drop" => \A k \in th[t].victims :
         k \in DOMAIN cache.clients /\ cache.clients[k] = 0
    /\ \A k \in DOMAIN cache.entries : k.fd < curr_fd
    /\ th[t].pc \in {"writer", "copy"} => \A k \in DOMAIN cache.entries : k.fd # th[t].fd
    /\ th[t].pc \in {"copy", "own"} => CopyKey(t) \in DOMAIN disk
    /\ \A fd \in opened[t] \cap DOMAIN fd_paths : FdKey(fd) \in DOMAIN disk

LEMMA CountedOpen ==
    TypeInv /\ HeldInv /\ ~raced => OpenedCounted
  BY OpenedHolds DEF OpenedCounted

LEMMA FilesHeldAgain ==
    ASSUME TypeInv, TypeInv', OpenedCounted', NEW t \in Threads, FilesHeld(t),
           curr_fd <= curr_fd',
           \A k \in DOMAIN disk : k \notin DOMAIN disk' =>
             (k \in DOMAIN cache'.clients => cache'.clients[k] = 0),
           \A k \in DOMAIN cache'.entries :
             k \in DOMAIN cache.entries \/ k.fd = Shared \/ k.fd < curr_fd',
           \A fd \in opened'[t] \cap DOMAIN fd_paths' : FdKey(fd)' \in DOMAIN disk,
           th'[t].pc = "drop" => \A k \in th'[t].victims :
             k \in DOMAIN cache'.clients /\ cache'.clients[k] = 0,
           th'[t].pc \in {"writer", "copy"} =>
             \A k \in DOMAIN cache'.entries : k.fd # th'[t].fd,
           th'[t].pc \in {"copy", "own"} => CopyKey(t)' \in DOMAIN disk'
    PROVE  FilesHeld(t)'
<1>1. ASSUME NEW k \in DOMAIN cache'.entries PROVE k.fd < curr_fd'
  <2>1. k.fd \in Fds \cup {Shared}
    BY DEF TypeInv, CacheOK, Keys
  <2>2. k.fd \in Nat /\ curr_fd \in Nat /\ curr_fd' \in Nat /\ curr_fd >= FirstFd
    BY <2>1 DEF Fds, FirstFd, Shared, TypeInv, FdsOK
  <2>3. CASE k \in DOMAIN cache.entries
    BY <2>2, <2>3 DEF FilesHeld
  <2>4. CASE k.fd = Shared
    BY <2>2, <2>4 DEF Shared, FirstFd
  <2> QED
    BY <2>3, <2>4
<1>2. ASSUME NEW fd \in opened'[t] \cap DOMAIN fd_paths' PROVE FdKey(fd)' \in DOMAIN disk'
  <2>1. FdKey(fd)' \in DOMAIN cache'.clients /\ cache'.clients[FdKey(fd)'] >= 1
    BY DEF OpenedCounted
  <2> QED
    BY <2>1
<1> QED
  BY <1>1, <1>2 DEF FilesHeld

\* The steps that give up no file and enter none.
Plain(t) ==
    /\ DOMAIN disk \subseteq DOMAIN disk' /\ NoNewEntry
    /\ curr_fd' = curr_fd /\ fd_paths' = fd_paths /\ opened'[t] \subseteq opened[t]
    /\ th'[t].pc \notin {"drop", "writer", "copy", "own"}

LEMMA PlainKeeps ==
    ASSUME TypeInv, TypeInv', OpenedCounted', NEW t \in Threads, FilesHeld(t), Plain(t)
    PROVE  FilesHeld(t)'
<1>1. curr_fd <= curr_fd'
  BY DEF Plain, TypeInv, FdsOK
<1>2. \A fd \in opened'[t] \cap DOMAIN fd_paths' : FdKey(fd)' \in DOMAIN disk
  <2>1. \A fd : FdKey(fd)' = FdKey(fd)
    BY DEF Plain, FdKey
  <2> QED
    BY <2>1 DEF Plain, FilesHeld
<1> QED
  BY <1>1, <1>2, FilesHeldAgain DEF Plain, NoNewEntry

LEMMA FilesOpen ==
    ASSUME NEW k, OpenFile(k)
    PROVE  DOMAIN disk \subseteq DOMAIN disk' /\ k \in DOMAIN disk'
  BY DEF OpenFile, With

LEMMA SameEntries ==
    ASSUME cache' = cache \/ UNCHANGED cacheVars
    PROVE  NoNewEntry
  BY DEF NoNewEntry, cacheVars

LEMMA AddKeeps ==
    ASSUME CacheOK, NEW k, AddClient(k)
    PROVE  NoNewEntry
<1>1. cache' = [cache EXCEPT !.clients[k] = @ + 1]
  BY DEF AddClient
<1>2. cache'.entries = cache.entries
  BY <1>1 DEF CacheOK
<1> QED
  BY <1>2 DEF NoNewEntry

LEMMA SizeKeeps ==
    ASSUME CacheOK, NEW n, cache' = [cache EXCEPT !.size = n]
    PROVE  NoNewEntry
<1>1. cache'.entries = cache.entries
  BY DEF CacheOK
<1> QED
  BY <1>1 DEF NoNewEntry

LEMMA OpenPlain ==
    ASSUME TypeInv, NEW t \in Threads, NEW p, NEW o, Open(t, p, o)
    PROVE  Plain(t)
<1> DEFINE r == [Idle EXCEPT !.pc = "lock", !.op = o, !.path = p,
                             !.ver = VersionFound(p)]
<1>1. th' = [th EXCEPT ![t] = r] /\ UNCHANGED <<cacheVars, opened, tables>>
  BY DEF Open
<1>2. r.pc = "lock"
  BY DEF Idle
<1> HIDE DEF r
<1>3. th'[t] = r
  BY <1>1 DEF TypeInv, ThreadsOK
<1> QED
  BY <1>1, <1>2, <1>3, SameEntries DEF Plain, tables, cacheVars

LEMMA OpenRefusedPlain ==
    ASSUME TypeInv, NEW t \in Threads, OpenRefused(t)
    PROVE  Plain(t)
<1>1. th' = [th EXCEPT ![t] = Idle] /\ UNCHANGED <<cacheVars, opened, tables>>
  BY DEF OpenRefused, Return
<1>2. th \in [Threads -> Locals] /\ th[t] \in Locals
  BY DEF TypeInv, ThreadsOK
<1>3. th'[t] = Idle
  BY <1>1, <1>2
<1>4. th'[t].pc = "idle"
  BY <1>2, <1>3 DEF Idle
<1>5. NoNewEntry
  BY <1>1, SameEntries
<1> QED
  BY <1>1, <1>4, <1>5 DEF Plain, tables, cacheVars

LEMMA OpenHitReadPlain ==
    ASSUME TypeInv, NEW t \in Threads, OpenHit(t), Reading(t)
    PROVE  Plain(t)
<1>1. /\ cache' = Touched(cache, SharedKey(t)) /\ disk' = disk
      /\ th' = [th EXCEPT ![t].pc = "count"] /\ UNCHANGED <<opened, tables>>
  BY DEF OpenHit, Go
<1>2. th \in [Threads -> Locals] /\ th[t] \in Locals
  BY DEF TypeInv, ThreadsOK
<1>3. th'[t] = [th[t] EXCEPT !.pc = "count"]
  BY <1>1, <1>2
<1>4. th'[t].pc = "count"
  BY <1>2, <1>3 DEF Locals
<1>5. NoNewEntry
  BY <1>1, TouchKeeps DEF TypeInv
<1> QED
  BY <1>1, <1>4, <1>5 DEF Plain, tables, cacheVars

LEMMA OpenHitWritePlain ==
    ASSUME TypeInv, NEW t \in Threads, OpenHit(t), ~Reading(t)
    PROVE  Plain(t)
<1>1. /\ cache' = Touched(cache, SharedKey(t)) /\ OpenFile(SharedKey(t))
      /\ th' = [th EXCEPT ![t].pc = "unlock", ![t].raf = InodeOf(SharedKey(t))]
      /\ UNCHANGED <<opened, tables>>
  BY DEF OpenHit
<1>2. th \in [Threads -> Locals] /\ th[t] \in Locals
  BY DEF TypeInv, ThreadsOK
<1>3. th'[t] = [th[t] EXCEPT !.pc = "unlock", !.raf = InodeOf(SharedKey(t))]
  BY <1>1, <1>2
<1>4. th'[t].pc = "unlock"
  BY <1>2, <1>3 DEF Locals
<1>5. NoNewEntry
  BY <1>1, TouchKeeps DEF TypeInv
<1> QED
  BY <1>1, <1>4, <1>5, FilesOpen DEF Plain, tables, cacheVars

LEMMA OpenMissPlain ==
    ASSUME TypeInv, NEW t \in Threads, OpenMiss(t)
    PROVE  Plain(t)
<1>1. /\ th' = [th EXCEPT ![t].pc = "length", ![t].ver = IF @ = 0 THEN 1 ELSE @]
      /\ UNCHANGED <<cacheVars, opened, tables>>
  BY DEF OpenMiss
<1>2. th \in [Threads -> Locals] /\ th[t] \in Locals
  BY DEF TypeInv, ThreadsOK
<1>3. th'[t] = [th[t] EXCEPT !.pc = "length", !.ver = IF @ = 0 THEN 1 ELSE @]
  BY <1>1, <1>2
<1>4. th'[t].pc = "length"
  BY <1>2, <1>3 DEF Locals
<1>5. NoNewEntry
  BY <1>1, SameEntries
<1> QED
  BY <1>1, <1>4, <1>5 DEF Plain, tables, cacheVars

LEMMA FetchLengthPlain ==
    ASSUME TypeInv, NEW t \in Threads, FetchLength(t)
    PROVE  Plain(t)
<1>1. /\ OpenFile(SharedKey(t))
      /\ th' = [th EXCEPT ![t].pc = "fetch", ![t].raf = InodeOf(SharedKey(t)),
                          ![t].len = LengthOf(th[t].path)]
      /\ UNCHANGED <<cache, opened, tables>>
  BY DEF FetchLength
<1>2. th \in [Threads -> Locals] /\ th[t] \in Locals
  BY DEF TypeInv, ThreadsOK
<1>3. th'[t] = [th[t] EXCEPT !.pc = "fetch", !.raf = InodeOf(SharedKey(t)),
                              !.len = LengthOf(th[t].path)]
  BY <1>1, <1>2
<1>4. th'[t].pc = "fetch"
  BY <1>2, <1>3 DEF Locals
<1>5. NoNewEntry
  BY <1>1, SameEntries
<1> QED
  BY <1>1, <1>4, <1>5, FilesOpen DEF Plain, tables, cacheVars

LEMMA FetchChunkPlain ==
    ASSUME TypeInv, NEW t \in Threads, FetchChunk(t)
    PROVE  Plain(t)
<1>1. /\ th[t].pc = "fetch" /\ th' = [th EXCEPT ![t].pos = NextPos(@)]
      /\ UNCHANGED <<cache, disk, opened, tables>>
  BY DEF FetchChunk, WriteChunk, At
<1>2. th \in [Threads -> Locals] /\ th[t] \in Locals
  BY DEF TypeInv, ThreadsOK
<1>3. th'[t] = [th[t] EXCEPT !.pos = NextPos(@)]
  BY <1>1, <1>2
<1>4. th'[t].pc = "fetch"
  BY <1>1, <1>2, <1>3 DEF Locals
<1>5. NoNewEntry
  BY <1>1, SameEntries
<1> QED
  BY <1>1, <1>4, <1>5 DEF Plain, tables, cacheVars

LEMMA FetchFailsPlain ==
    ASSUME TypeInv, NEW t \in Threads, FetchFails(t)
    PROVE  Plain(t)
<1>1. /\ th' = [th EXCEPT ![t] = [Idle EXCEPT !.pc = "dead"]]
      /\ UNCHANGED <<cacheVars, opened, tables>>
  BY DEF FetchFails, Die
<1>2. th \in [Threads -> Locals] /\ th[t] \in Locals
  BY DEF TypeInv, ThreadsOK
<1>3. th'[t] = [Idle EXCEPT !.pc = "dead"]
  BY <1>1, <1>2
<1>4. th'[t].pc = "dead"
  BY <1>2, <1>3 DEF Idle
<1>5. NoNewEntry
  BY <1>1, SameEntries
<1> QED
  BY <1>1, <1>4, <1>5 DEF Plain, tables, cacheVars

LEMMA CountPlain ==
    ASSUME TypeInv, NEW t \in Threads, Count(t)
    PROVE  Plain(t)
<1>1. /\ AddClient(SharedKey(t)) /\ th' = [th EXCEPT ![t].pc = "unlock"]
      /\ UNCHANGED <<disk, opened, tables>>
  BY DEF Count, Go, AddClient
<1>2. th \in [Threads -> Locals] /\ th[t] \in Locals
  BY DEF TypeInv, ThreadsOK
<1>3. th'[t] = [th[t] EXCEPT !.pc = "unlock"]
  BY <1>1, <1>2
<1>4. th'[t].pc = "unlock"
  BY <1>2, <1>3 DEF Locals
<1>5. NoNewEntry
  BY <1>1, AddKeeps DEF TypeInv
<1> QED
  BY <1>1, <1>4, <1>5 DEF Plain, tables, cacheVars

LEMMA UnlockPlain ==
    ASSUME TypeInv, NEW t \in Threads, Unlock(t)
    PROVE  Plain(t)
<1>1. /\ th' = [th EXCEPT ![t].pc = "fd"]
      /\ UNCHANGED <<cacheVars, opened, tables>>
  BY DEF Unlock, Go
<1>2. th \in [Threads -> Locals] /\ th[t] \in Locals
  BY DEF TypeInv, ThreadsOK
<1>3. th'[t] = [th[t] EXCEPT !.pc = "fd"]
  BY <1>1, <1>2
<1>4. th'[t].pc = "fd"
  BY <1>2, <1>3 DEF Locals
<1>5. NoNewEntry
  BY <1>1, SameEntries
<1> QED
  BY <1>1, <1>4, <1>5 DEF Plain, tables, cacheVars

LEMMA ReadFdPlain ==
    ASSUME TypeInv, NEW t \in Threads, ReadFd(t)
    PROVE  Plain(t)
<1>1. /\ th' = [th EXCEPT ![t].pc = "bump", ![t].fd = curr_fd]
      /\ UNCHANGED <<cacheVars, opened, tables>>
  BY DEF ReadFd
<1>2. th \in [Threads -> Locals] /\ th[t] \in Locals
  BY DEF TypeInv, ThreadsOK
<1>3. th'[t] = [th[t] EXCEPT !.pc = "bump", !.fd = curr_fd]
  BY <1>1, <1>2
<1>4. th'[t].pc = "bump"
  BY <1>2, <1>3 DEF Locals
<1>5. NoNewEntry
  BY <1>1, SameEntries
<1> QED
  BY <1>1, <1>4, <1>5 DEF Plain, tables, cacheVars

LEMMA WritePlain ==
    ASSUME TypeInv, NEW t \in Threads, NEW fd, NEW pos, Write(t, fd, pos)
    PROVE  Plain(t)
<1>1. th[t].pc = "idle" /\ UNCHANGED <<cache, disk, th, opened, tables>>
  BY DEF Write, WriteChunk, At
<1> QED
  BY <1>1, SameEntries DEF Plain, tables, cacheVars

LEMMA UnlinkPlain ==
    ASSUME TypeInv, NEW t \in Threads, NEW p, Unlink(t, p)
    PROVE  Plain(t)
<1>1. th[t].pc = "idle" /\ UNCHANGED <<cacheVars, th, opened, tables>>
  BY DEF Unlink, At
<1> QED
  BY <1>1, SameEntries DEF Plain, tables, cacheVars

LEMMA CloseUnknownPlain ==
    ASSUME TypeInv, NEW t \in Threads, NEW fd, CloseUnknown(t, fd)
    PROVE  Plain(t)
<1>1. /\ th' = [th EXCEPT ![t] = [Idle EXCEPT !.pc = "dead"]]
      /\ UNCHANGED <<cacheVars, opened, tables>>
  BY DEF CloseUnknown, Die
<1>2. th \in [Threads -> Locals] /\ th[t] \in Locals
  BY DEF TypeInv, ThreadsOK
<1>3. th'[t] = [Idle EXCEPT !.pc = "dead"]
  BY <1>1, <1>2
<1>4. th'[t].pc = "dead"
  BY <1>2, <1>3 DEF Idle
<1>5. NoNewEntry
  BY <1>1, SameEntries
<1> QED
  BY <1>1, <1>4, <1>5 DEF Plain, tables, cacheVars

LEMMA CloseLostPlain ==
    ASSUME TypeInv, NEW t \in Threads, NEW fd, CloseLost(t, fd)
    PROVE  Plain(t)
<1>1. /\ th[t].pc = "idle" /\ opened' = [opened EXCEPT ![t] = @ \ {fd}]
      /\ UNCHANGED <<cacheVars, th, tables>>
  BY DEF CloseLost, Closes, At
<1>2. opened'[t] \subseteq opened[t]
  BY <1>1 DEF TypeInv, TablesOK
<1> QED
  BY <1>1, <1>2, SameEntries DEF Plain, tables, cacheVars

LEMMA CloseWriterPlain ==
    ASSUME TypeInv, NEW t \in Threads, NEW d, CloseWriter(t, d)
    PROVE  Plain(t)
<1> DEFINE r == [Idle EXCEPT !.pc = "scan", !.op = "CLOSE", !.path = fd_paths[d].path,
                             !.ver = fd_paths[d].ver, !.fd = d, !.copy = fd_files[d]]
<1>1. /\ OpenFile(Key(fd_paths[d].path, NewVersion(fd_paths[d].ver), Shared))
      /\ th' = [th EXCEPT ![t] = r] /\ UNCHANGED <<cache, opened, tables>>
  BY DEF CloseWriter
<1>2. r.pc = "scan"
  BY DEF Idle
<1> HIDE DEF r
<1>3. th'[t] = r
  BY <1>1 DEF TypeInv, ThreadsOK
<1>4. DOMAIN disk \subseteq DOMAIN disk'
  BY <1>1, FilesOpen
<1> QED
  BY <1>1, <1>2, <1>3, <1>4, SameEntries DEF Plain, tables

LEMMA CloseLengthsPlain ==
    ASSUME TypeInv, NEW t \in Threads, CloseLengths(t)
    PROVE  Plain(t)
<1>1. /\ OpenFile(SharedKey(t))
      /\ th' = [th EXCEPT ![t].pc = "send", ![t].raf = InodeOf(SharedKey(t)),
                          ![t].len = Len(inodes[th[t].copy]),
                          ![t].old = FileLength(SharedKey(t))]
      /\ UNCHANGED <<cache, opened, tables>>
  BY DEF CloseLengths
<1>2. th \in [Threads -> Locals] /\ th[t] \in Locals
  BY DEF TypeInv, ThreadsOK
<1>3. th'[t] = [th[t] EXCEPT !.pc = "send", !.raf = InodeOf(SharedKey(t)),
                              !.len = Len(inodes[th[t].copy]),
                              !.old = FileLength(SharedKey(t))]
  BY <1>1, <1>2
<1>4. th'[t].pc = "send"
  BY <1>2, <1>3 DEF Locals
<1>5. NoNewEntry
  BY <1>1, SameEntries
<1> QED
  BY <1>1, <1>4, <1>5, FilesOpen DEF Plain, tables, cacheVars

LEMMA SendChunkPlain ==
    ASSUME TypeInv, NEW t \in Threads, SendChunk(t), Bumps(th[t].path)
    PROVE  Plain(t)
<1>1. /\ th' = [th EXCEPT ![t].pc = "store"]
      /\ UNCHANGED <<cache, disk, opened, tables>>
  BY DEF SendChunk, Go, WriteChunk
<1>2. th \in [Threads -> Locals] /\ th[t] \in Locals
  BY DEF TypeInv, ThreadsOK
<1>3. th'[t] = [th[t] EXCEPT !.pc = "store"]
  BY <1>1, <1>2
<1>4. th'[t].pc = "store"
  BY <1>2, <1>3 DEF Locals
<1>5. NoNewEntry
  BY <1>1, SameEntries
<1> QED
  BY <1>1, <1>4, <1>5 DEF Plain, tables, cacheVars

LEMMA SendFailsPlain ==
    ASSUME TypeInv, NEW t \in Threads, SendChunk(t), ~Bumps(th[t].path)
    PROVE  Plain(t)
<1>1. /\ th' = [th EXCEPT ![t] = [Idle EXCEPT !.pc = "dead"]]
      /\ UNCHANGED <<cache, disk, opened, tables>>
  BY DEF SendChunk, Die, WriteChunk
<1>2. th \in [Threads -> Locals] /\ th[t] \in Locals
  BY DEF TypeInv, ThreadsOK
<1>3. th'[t] = [Idle EXCEPT !.pc = "dead"]
  BY <1>1, <1>2
<1>4. th'[t].pc = "dead"
  BY <1>2, <1>3 DEF Idle
<1>5. NoNewEntry
  BY <1>1, SameEntries
<1> QED
  BY <1>1, <1>4, <1>5 DEF Plain, tables, cacheVars

LEMMA StoreChunkPlain ==
    ASSUME TypeInv, NEW t \in Threads, StoreChunk(t)
    PROVE  Plain(t)
<1>1. /\ th' = [th EXCEPT ![t].pc = "send", ![t].pos = NextPos(@)]
      /\ UNCHANGED <<cache, disk, opened, tables>>
  BY DEF StoreChunk, WriteChunk
<1>2. th \in [Threads -> Locals] /\ th[t] \in Locals
  BY DEF TypeInv, ThreadsOK
<1>3. th'[t] = [th[t] EXCEPT !.pc = "send", !.pos = NextPos(@)]
  BY <1>1, <1>2
<1>4. th'[t].pc = "send"
  BY <1>2, <1>3 DEF Locals
<1>5. NoNewEntry
  BY <1>1, SameEntries
<1> QED
  BY <1>1, <1>4, <1>5 DEF Plain, tables, cacheVars

LEMMA SettleReadPlain ==
    ASSUME TypeInv, NEW t \in Threads, SettleRead(t)
    PROVE  Plain(t)
<1>1. /\ th' = [th EXCEPT ![t].pc = "settle",
                          ![t].old = cache.size + th[t].len - th[t].old]
      /\ UNCHANGED <<cacheVars, opened, tables>>
  BY DEF SettleRead
<1>2. th \in [Threads -> Locals] /\ th[t] \in Locals
  BY DEF TypeInv, ThreadsOK
<1>3. th'[t] = [th[t] EXCEPT !.pc = "settle",
                              !.old = cache.size + th[t].len - th[t].old]
  BY <1>1, <1>2
<1>4. th'[t].pc = "settle"
  BY <1>2, <1>3 DEF Locals
<1>5. NoNewEntry
  BY <1>1, SameEntries
<1> QED
  BY <1>1, <1>4, <1>5 DEF Plain, tables, cacheVars

LEMMA SettleWritePlain ==
    ASSUME TypeInv, NEW t \in Threads, SettleWrite(t)
    PROVE  Plain(t)
<1>1. /\ cache' = [cache EXCEPT !.size = th[t].old]
      /\ th' = [th EXCEPT ![t].pc = "release"]
      /\ UNCHANGED <<disk, opened, tables>>
  BY DEF SettleWrite, Go
<1>2. th \in [Threads -> Locals] /\ th[t] \in Locals
  BY DEF TypeInv, ThreadsOK
<1>3. th'[t] = [th[t] EXCEPT !.pc = "release"]
  BY <1>1, <1>2
<1>4. th'[t].pc = "release"
  BY <1>2, <1>3 DEF Locals
<1>5. NoNewEntry
  BY <1>1, SizeKeeps DEF TypeInv
<1> QED
  BY <1>1, <1>4, <1>5 DEF Plain, tables, cacheVars

\* A put of a shared file gives up files nobody has open.
LEMMA PutKeeps ==
    ASSUME TypeInv, TypeInv', OpenedCounted', NEW t \in Threads, FilesHeld(t),
           NEW k \in Keys, Put(k), k.fd = Shared,
           UNCHANGED <<fd_paths, opened, curr_fd>>,
           th'[t].pc \notin {"drop", "writer", "copy", "own"}
    PROVE  FilesHeld(t)'
<1>1. OnlyIdleGone /\ DOMAIN cache'.entries \subseteq DOMAIN cache.entries \cup {k}
  BY PutEffect DEF TypeInv
<1>2. curr_fd <= curr_fd'
  BY DEF TypeInv, FdsOK
<1>3. \A fd \in opened'[t] \cap DOMAIN fd_paths' : FdKey(fd)' \in DOMAIN disk
  <2>1. \A fd : FdKey(fd)' = FdKey(fd)
    BY DEF FdKey
  <2> QED
    BY <2>1 DEF FilesHeld
<1> QED
  BY <1>1, <1>2, <1>3, FilesHeldAgain DEF OnlyIdleGone

LEMMA CachePutKeeps ==
    ASSUME TypeInv, TypeInv', OpenedCounted', NEW t \in Threads, FilesHeld(t), CachePut(t)
    PROVE  FilesHeld(t)'
<1> DEFINE pc == IF Reading(t) THEN "count" ELSE "unlock"
<1>1. /\ th[t].pc = "fetch" /\ Put(SharedKey(t)) /\ th' = [th EXCEPT ![t].pc = pc]
      /\ UNCHANGED <<fd_paths, opened, curr_fd>>
  BY DEF CachePut, Go, At, tables
<1>2. th \in [Threads -> Locals] /\ th[t] \in Locals /\ LocalOK(th[t])
  BY DEF TypeInv, ThreadsOK
<1>3. th'[t] = [th[t] EXCEPT !.pc = pc]
  BY <1>1, <1>2
<1>4. th'[t].pc \in {"count", "unlock"}
  BY <1>2, <1>3 DEF Locals
<1>5. SharedKey(t) \in Keys /\ SharedKey(t).fd = Shared
  BY <1>1, <1>2, KeysOfThread DEF SharedKey, Resting, Key
<1> QED
  BY <1>1, <1>4, <1>5, PutKeeps

LEMMA ClosePutKeeps ==
    ASSUME TypeInv, TypeInv', OpenedCounted', NEW t \in Threads, FilesHeld(t), ClosePut(t)
    PROVE  FilesHeld(t)'
<1>1. /\ th[t].pc = "put" /\ Put(SharedKey(t)) /\ th' = [th EXCEPT ![t].pc = "lengths"]
      /\ UNCHANGED <<fd_paths, opened, curr_fd>>
  BY DEF ClosePut, Go, At, tables
<1>2. th \in [Threads -> Locals] /\ th[t] \in Locals /\ LocalOK(th[t])
  BY DEF TypeInv, ThreadsOK
<1>3. th'[t] = [th[t] EXCEPT !.pc = "lengths"]
  BY <1>1, <1>2
<1>4. th'[t].pc = "lengths"
  BY <1>2, <1>3 DEF Locals
<1>5. SharedKey(t) \in Keys /\ SharedKey(t).fd = Shared
  BY <1>1, <1>2, KeysOfThread DEF SharedKey, Resting, Key
<1> QED
  BY <1>1, <1>4, <1>5, PutKeeps

LEMMA SameFdKeys ==
    ASSUME fd_paths' = fd_paths, NEW t, FilesHeld(t), opened'[t] \subseteq opened[t]
    PROVE  \A fd \in opened'[t] \cap DOMAIN fd_paths' : FdKey(fd)' \in DOMAIN disk
<1>1. \A fd : FdKey(fd)' = FdKey(fd)
  BY DEF FdKey
<1> QED
  BY <1>1 DEF FilesHeld

LEMMA BumpFdKeeps ==
    ASSUME TypeInv, TypeInv', OpenedCounted', NEW t \in Threads, FilesHeld(t), BumpFd(t),
           ~raced
    PROVE  FilesHeld(t)'
<1> DEFINE pc == IF Reading(t) THEN "reader" ELSE "writer"
<1>1. /\ th[t].pc = "bump" /\ curr_fd' = th[t].fd + 1 /\ th' = [th EXCEPT ![t].pc = pc]
      /\ UNCHANGED <<cache, disk, fd_paths, opened>>
  BY DEF BumpFd, Go, At, cacheVars
<1>2. th \in [Threads -> Locals] /\ th[t] \in Locals
  BY DEF TypeInv, ThreadsOK
<1>3. th'[t] = [th[t] EXCEPT !.pc = pc]
  BY <1>1, <1>2
<1>4. th'[t].pc \in {"reader", "writer"} /\ th'[t].fd = th[t].fd
  BY <1>2, <1>3 DEF Locals
<1>5. th[t].fd = curr_fd /\ curr_fd \in Nat
  BY <1>1 DEF TypeInv, FdsOK, At
<1>6. curr_fd <= curr_fd'
  BY <1>1, <1>5
<1>7. \A k \in DOMAIN cache'.entries : k.fd # th'[t].fd
  <2>1. ASSUME NEW k \in DOMAIN cache.entries PROVE k.fd # curr_fd
    <3>1. k.fd < curr_fd
      BY DEF FilesHeld
    <3> QED
      BY <1>5, <3>1
  <2> QED
    BY <1>1, <1>4, <1>5, <2>1
<1>8. \A fd \in opened'[t] \cap DOMAIN fd_paths' : FdKey(fd)' \in DOMAIN disk
  BY <1>1, SameFdKeys
<1> QED
  BY <1>1, <1>4, <1>6, <1>7, <1>8, FilesHeldAgain

LEMMA OpenReaderKeeps ==
    ASSUME TypeInv, TypeInv', OpenedCounted', NEW t \in Threads, FilesHeld(t),
           OpenReader(t), HeldInv, ~raced
    PROVE  FilesHeld(t)'
<1> DEFINE k == SharedKey(t)
           d == th[t].fd
           n == [path |-> th[t].path, ver |-> th[t].ver, write |-> FALSE]
<1>1. /\ th[t].pc = "reader" /\ th' = [th EXCEPT ![t] = Idle]
      /\ fd_paths' = With(fd_paths, d, n)
      /\ IF k \in DOMAIN disk THEN opened' = [opened EXCEPT ![t] = @ \cup {d}]
                              ELSE opened' = opened
      /\ UNCHANGED <<cache, disk, curr_fd>>
  BY DEF OpenReader, Return, At, Named, cacheVars
<1>2. th[t].op = "READ" /\ Reading(t)
  BY <1>1 DEF TypeInv, ThreadsOK, LocalOK, Reading
<1>3. th'[t].pc = "idle"
  BY <1>1 DEF TypeInv, ThreadsOK, Idle
<1>4. d \notin opened[t]
  BY <1>1 DEF HeldInv, FdsApart, UsingFd
<1>5. ASSUME NEW fd \in opened'[t] \cap DOMAIN fd_paths' PROVE FdKey(fd)' \in DOMAIN disk
  <2>1. CASE fd # d
    <3>1. fd \in opened[t] /\ fd \in DOMAIN fd_paths /\ fd_paths'[fd] = fd_paths[fd]
      BY <1>1, <1>5, <2>1 DEF TypeInv, TablesOK, With
    <3>2. FdKey(fd)' = FdKey(fd)
      BY <3>1 DEF FdKey
    <3> QED
      BY <3>1, <3>2 DEF FilesHeld
  <2>2. CASE fd = d
    <3>1. k \in DOMAIN disk
      BY <1>1, <1>4, <1>5, <2>2
    <3>2. fd_paths'[fd] = n
      BY <1>1, <2>2 DEF With
    <3>3. n.path = th[t].path /\ n.ver = th[t].ver /\ n.write = FALSE
      OBVIOUS
    <3> HIDE DEF n
    <3>4. k = Key(th[t].path, th[t].ver, Shared)
      BY <1>2, SharedKeyOfReader
    <3>5. FdKey(fd)' = k
      BY <3>2, <3>3, <3>4 DEF FdKey
    <3> QED
      BY <3>1, <3>5
  <2> QED
    BY <2>1, <2>2
<1>6. curr_fd <= curr_fd'
  BY <1>1 DEF TypeInv, FdsOK
<1> QED
  BY <1>1, <1>3, <1>5, <1>6, FilesHeldAgain

LEMMA OpenWriterKeeps ==
    ASSUME TypeInv, TypeInv', OpenedCounted', NEW t \in Threads, FilesHeld(t), OpenWriter(t)
    PROVE  FilesHeld(t)'
<1>1. /\ th[t].pc = "writer" /\ OpenFile(CopyKey(t))
      /\ th' = [th EXCEPT ![t].pc = "copy", ![t].pos = 0,
                          ![t].copy = InodeOf(CopyKey(t)),
                          ![t].len = Len(inodes[th[t].raf])]
      /\ UNCHANGED <<cache, fd_paths, opened, curr_fd>>
  BY DEF OpenWriter, At, tables
<1>2. th \in [Threads -> Locals] /\ th[t] \in Locals
  BY DEF TypeInv, ThreadsOK
<1>3. th'[t] = [th[t] EXCEPT !.pc = "copy", !.pos = 0, !.copy = InodeOf(CopyKey(t)),
                             !.len = Len(inodes[th[t].raf])]
  BY <1>1, <1>2
<1>4. /\ th'[t].pc = "copy" /\ th'[t].fd = th[t].fd
      /\ th'[t].path = th[t].path /\ th'[t].ver = th[t].ver
  BY <1>2, <1>3 DEF Locals
<1>5. CopyKey(t)' = CopyKey(t)
  BY <1>4 DEF CopyKey
<1>6. DOMAIN disk \subseteq DOMAIN disk' /\ CopyKey(t) \in DOMAIN disk'
  BY <1>1, FilesOpen
<1>7. \A k \in DOMAIN cache'.entries : k.fd # th'[t].fd
  BY <1>1, <1>4 DEF FilesHeld
<1>8. \A fd \in opened'[t] \cap DOMAIN fd_paths' : FdKey(fd)' \in DOMAIN disk
  BY <1>1, SameFdKeys
<1>9. curr_fd <= curr_fd'
  BY <1>1 DEF TypeInv, FdsOK
<1> QED
  BY <1>1, <1>4, <1>5, <1>6, <1>7, <1>8, <1>9, FilesHeldAgain

LEMMA CopyChunkKeeps ==
    ASSUME TypeInv, TypeInv', OpenedCounted', NEW t \in Threads, FilesHeld(t), CopyChunk(t)
    PROVE  FilesHeld(t)'
<1>1. /\ th[t].pc = "copy" /\ th' = [th EXCEPT ![t].pos = NextPos(@)]
      /\ UNCHANGED <<cache, disk, fd_paths, opened, curr_fd>>
  BY DEF CopyChunk, At, WriteChunk, tables
<1>2. th \in [Threads -> Locals] /\ th[t] \in Locals
  BY DEF TypeInv, ThreadsOK
<1>3. th'[t] = [th[t] EXCEPT !.pos = NextPos(@)]
  BY <1>1, <1>2
<1>4. /\ th'[t].pc = "copy" /\ th'[t].fd = th[t].fd
      /\ th'[t].path = th[t].path /\ th'[t].ver = th[t].ver
  BY <1>1, <1>2, <1>3 DEF Locals
<1>5. CopyKey(t)' = CopyKey(t)
  BY <1>4 DEF CopyKey
<1>6. CopyKey(t)' \in DOMAIN disk' /\ \A k \in DOMAIN cache'.entries : k.fd # th'[t].fd
  BY <1>1, <1>4, <1>5 DEF FilesHeld
<1>7. \A fd \in opened'[t] \cap DOMAIN fd_paths' : FdKey(fd)' \in DOMAIN disk
  BY <1>1, SameFdKeys
<1>8. curr_fd <= curr_fd'
  BY <1>1 DEF TypeInv, FdsOK
<1> QED
  BY <1>1, <1>4, <1>6, <1>7, <1>8, FilesHeldAgain

LEMMA PutCopyKeeps ==
    ASSUME TypeInv, TypeInv', OpenedCounted', NEW t \in Threads, FilesHeld(t),
           PutCopy(t), HeldInv, ~raced
    PROVE  FilesHeld(t)'
<1> DEFINE k == CopyKey(t)
           d == th[t].fd
<1>1. /\ th[t].pc = "copy" /\ Put(k) /\ th' = [th EXCEPT ![t].pc = "own"]
      /\ fd_paths' = With(fd_paths, d, [path |-> th[t].path, ver |-> th[t].ver, write |-> TRUE])
      /\ UNCHANGED <<opened, curr_fd>>
  BY DEF PutCopy, Go, At, Named
<1>2. th \in [Threads -> Locals] /\ th[t] \in Locals /\ LocalOK(th[t])
  BY DEF TypeInv, ThreadsOK
<1>3. th'[t] = [th[t] EXCEPT !.pc = "own"]
  BY <1>1, <1>2
<1>4. /\ th'[t].pc = "own" /\ th'[t].fd = th[t].fd
      /\ th'[t].path = th[t].path /\ th'[t].ver = th[t].ver
  BY <1>2, <1>3 DEF Locals
<1>5. k' = k /\ k.fd = d /\ k \in Keys
  <2>1. k' = k /\ k.fd = d
    BY <1>4 DEF CopyKey, Key
  <2> QED
    BY <1>1, <1>2, <2>1, KeysOfThread DEF CopyKey, Resting
<1>6. /\ OnlyIdleGone /\ DOMAIN cache'.entries \subseteq DOMAIN cache.entries \cup {k}
      /\ \A j \in DOMAIN disk : j \notin DOMAIN disk' => j \in DOMAIN cache.entries
  BY <1>1, <1>5, PutEffect DEF TypeInv
<1>7. d \notin opened[t] /\ d < curr_fd
  BY <1>1 DEF HeldInv, FdsApart, UsingFd
<1>8. k' \in DOMAIN disk'
  <2>1. k \in DOMAIN disk /\ k \notin DOMAIN cache.entries
    BY <1>1, <1>5 DEF FilesHeld
  <2> QED
    BY <1>5, <1>6, <2>1
<1>9. ASSUME NEW fd \in opened'[t] \cap DOMAIN fd_paths' PROVE FdKey(fd)' \in DOMAIN disk
  <2>1. fd \in opened[t] /\ fd \in DOMAIN fd_paths /\ fd_paths'[fd] = fd_paths[fd]
    BY <1>1, <1>7, <1>9 DEF With
  <2>2. FdKey(fd)' = FdKey(fd)
    BY <2>1 DEF FdKey
  <2> QED
    BY <2>1, <2>2 DEF FilesHeld
<1>10. curr_fd <= curr_fd'
  BY <1>1 DEF TypeInv, FdsOK
<1>11. \A j \in DOMAIN cache'.entries : j \in DOMAIN cache.entries \/ j.fd < curr_fd'
  BY <1>1, <1>5, <1>6, <1>7
<1> QED
  BY <1>4, <1>6, <1>8, <1>9, <1>10, <1>11, FilesHeldAgain DEF OnlyIdleGone

LEMMA OwnCopyKeeps ==
    ASSUME TypeInv, TypeInv', OpenedCounted', NEW t \in Threads, FilesHeld(t),
           OwnCopy(t), HeldInv, ~raced
    PROVE  FilesHeld(t)'
<1> DEFINE d == th[t].fd
<1>1. /\ th[t].pc = "own" /\ AddClient(CopyKey(t)) /\ th' = [th EXCEPT ![t] = Idle]
      /\ opened' = [opened EXCEPT ![t] = @ \cup {d}]
      /\ UNCHANGED <<disk, fd_paths, curr_fd>>
  BY DEF OwnCopy, Return, At, AddClient, tables
<1>2. th'[t].pc = "idle"
  BY <1>1 DEF TypeInv, ThreadsOK, Idle
<1>3. NoNewEntry
  BY <1>1, AddKeeps DEF TypeInv
<1>4. ASSUME NEW fd \in opened'[t] \cap DOMAIN fd_paths' PROVE FdKey(fd)' \in DOMAIN disk
  <2>1. FdKey(fd)' = FdKey(fd)
    BY <1>1 DEF FdKey
  <2>2. CASE fd # d
    BY <1>1, <1>4, <2>1, <2>2 DEF FilesHeld, TypeInv, TablesOK
  <2>3. CASE fd = d
    <3>1. FdKey(d) = CopyKey(t)
      BY <1>1 DEF HeldInv, FdsApart
    <3> QED
      BY <1>1, <2>1, <2>3, <3>1 DEF FilesHeld
  <2> QED
    BY <2>2, <2>3
<1>5. curr_fd <= curr_fd'
  BY <1>1 DEF TypeInv, FdsOK
<1> QED
  BY <1>1, <1>2, <1>3, <1>4, <1>5, FilesHeldAgain DEF NoNewEntry

LEMMA CloseReaderKeeps ==
    ASSUME TypeInv, TypeInv', OpenedCounted', NEW t \in Threads, FilesHeld(t),
           NEW d, CloseReader(t, d)
    PROVE  FilesHeld(t)'
<1> DEFINE r == [Idle EXCEPT !.pc = "scan", !.op = "READ", !.path = fd_paths[d].path,
                             !.ver = fd_paths[d].ver]
<1>1. /\ RemoveReader(FdKey(d)) /\ th' = [th EXCEPT ![t] = r]
      /\ fd_paths' = Without(fd_paths, {d})
      /\ opened' = [opened EXCEPT ![t] = @ \ {d}] /\ curr_fd' = curr_fd
  BY DEF CloseReader, Forget
<1>2. r.pc = "scan"
  BY DEF Idle
<1> HIDE DEF r
<1>3. th'[t].pc = "scan"
  BY <1>1, <1>2 DEF TypeInv, ThreadsOK
<1>4. OnlyIdleGone /\ NoNewEntry
  BY <1>1, RemoveReaderEffect DEF TypeInv
<1>5. ASSUME NEW fd \in opened'[t] \cap DOMAIN fd_paths' PROVE FdKey(fd)' \in DOMAIN disk
  <2>1. fd \in opened[t] /\ fd \in DOMAIN fd_paths /\ fd_paths'[fd] = fd_paths[fd]
    BY <1>1, <1>5 DEF Without, TypeInv, TablesOK
  <2>2. FdKey(fd)' = FdKey(fd)
    BY <2>1 DEF FdKey
  <2> QED
    BY <2>1, <2>2 DEF FilesHeld
<1>6. curr_fd <= curr_fd'
  BY <1>1 DEF TypeInv, FdsOK
<1> QED
  BY <1>3, <1>4, <1>5, <1>6, FilesHeldAgain DEF OnlyIdleGone, NoNewEntry

LEMMA StaleScanKeeps ==
    ASSUME TypeInv, TypeInv', OpenedCounted', NEW t \in Threads, FilesHeld(t), StaleScan(t)
    PROVE  FilesHeld(t)'
<1> DEFINE victims == StaleEntries(cache, SharedKey(t))
<1>1. /\ th' = [th EXCEPT ![t].pc = "drop", ![t].victims = victims]
      /\ UNCHANGED <<cache, disk, fd_paths, opened, curr_fd>>
  BY DEF StaleScan, cacheVars, tables
<1>2. \A k \in victims : k \in DOMAIN cache.clients /\ cache.clients[k] = 0
  BY DEF StaleEntries, IdleEntry, TypeInv, CacheOK
<1> HIDE DEF victims
<1>3. th'[t] = [th[t] EXCEPT !.pc = "drop", !.victims = victims] /\ th[t] \in Locals
  BY <1>1 DEF TypeInv, ThreadsOK
<1>4. th'[t].pc = "drop" /\ th'[t].victims = victims
  BY <1>3 DEF Locals
<1>5. \A fd \in opened'[t] \cap DOMAIN fd_paths' : FdKey(fd)' \in DOMAIN disk
  BY <1>1, SameFdKeys
<1>6. curr_fd <= curr_fd'
  BY <1>1 DEF TypeInv, FdsOK
<1> QED
  BY <1>1, <1>2, <1>4, <1>5, <1>6, FilesHeldAgain

LEMMA StaleDropKeeps ==
    ASSUME TypeInv, TypeInv', OpenedCounted', NEW t \in Threads, FilesHeld(t), StaleDrop(t)
    PROVE  FilesHeld(t)'
<1>1. /\ th[t].pc = "drop" /\ DropStale(th[t].victims)
      /\ UNCHANGED <<fd_paths, opened, curr_fd>>
      /\ \/ th' = [th EXCEPT ![t] = Idle]
         \/ th' = [th EXCEPT ![t].pc = "put", ![t].victims = {}]
  BY DEF StaleDrop, At, Return, tables
<1>2. th'[t].pc \in {"idle", "put"}
  <2>1. CASE th' = [th EXCEPT ![t] = Idle]
    BY <2>1 DEF TypeInv, ThreadsOK, Idle
  <2>2. CASE th' = [th EXCEPT ![t].pc = "put", ![t].victims = {}]
    <3>1. th'[t] = [th[t] EXCEPT !.pc = "put", !.victims = {}] /\ th[t] \in Locals
      BY <2>2 DEF TypeInv, ThreadsOK
    <3> QED
      BY <3>1 DEF Locals
  <2> QED
    BY <1>1, <2>1, <2>2
<1>3. /\ cache'.clients = cache.clients /\ NoNewEntry
      /\ \A k \in DOMAIN disk : k \notin DOMAIN disk' => k \in th[t].victims
  BY <1>1, DropStaleEffect DEF TypeInv
<1>4. \A k \in DOMAIN disk : k \notin DOMAIN disk' => cache'.clients[k] = 0
  BY <1>1, <1>3 DEF FilesHeld
<1>5. \A fd \in opened'[t] \cap DOMAIN fd_paths' : FdKey(fd)' \in DOMAIN disk
  BY <1>1, SameFdKeys
<1>6. curr_fd <= curr_fd'
  BY <1>1 DEF TypeInv, FdsOK
<1> QED
  BY <1>2, <1>3, <1>4, <1>5, <1>6, FilesHeldAgain DEF NoNewEntry

\* The private copy of another descriptor has another name.
LEMMA ReleaseKeeps ==
    ASSUME TypeInv, NEW t \in Threads, FilesHeld(t), Release(t)
    PROVE  FilesHeld(t)'
<1> DEFINE d == th[t].fd
           k == CopyKey(t)
<1>1. /\ th[t].pc = "release" /\ RemoveWriter(k) /\ th' = [th EXCEPT ![t] = Idle]
      /\ fd_paths' = Without(fd_paths, {d})
      /\ opened' = [opened EXCEPT ![t] = @ \ {d}] /\ curr_fd' = curr_fd
  BY DEF Release, Forget, Return, At
<1>2. th'[t].pc = "idle"
  BY <1>1 DEF TypeInv, ThreadsOK, Idle
<1>3. NoNewEntry /\ DOMAIN disk' = DOMAIN disk \ {k}
  BY <1>1, RemoveWriterEffect DEF TypeInv
<1>4. k.fd = d /\ d # Shared
  <2>1. th[t].op = "CLOSE" /\ d \in Fds
    BY <1>1 DEF TypeInv, ThreadsOK, LocalOK, Ending
  <2> QED
    BY <2>1 DEF CopyKey, Key, Fds, FirstFd, Shared
<1>5. ASSUME NEW fd \in opened'[t] \cap DOMAIN fd_paths' PROVE FdKey(fd)' \in DOMAIN disk'
  <2>1. fd # d /\ fd \in opened[t] /\ fd \in DOMAIN fd_paths /\ fd_paths'[fd] = fd_paths[fd]
    BY <1>1, <1>5 DEF Without, TypeInv, TablesOK
  <2>2. FdKey(fd)' = FdKey(fd)
    BY <2>1 DEF FdKey
  <2>3. FdKey(fd).fd \in {fd, Shared}
    BY DEF FdKey, Key
  <2>4. FdKey(fd) # k
    BY <1>4, <2>1, <2>3
  <2> QED
    BY <1>3, <2>1, <2>2, <2>4 DEF FilesHeld
<1>6. \A j \in DOMAIN cache'.entries : j.fd < curr_fd'
  BY <1>1, <1>3 DEF NoNewEntry, FilesHeld
<1> QED
  BY <1>2, <1>5, <1>6 DEF FilesHeld

LEMMA FilesHeldInductive ==
    ASSUME TypeInv, TypeInv', HeldInv, ~raced, OpenedCounted', NEW t, Threads = {t},
           FilesHeld(t), [Next]_allVars
    PROVE  FilesHeld(t)'
<1>0. t \in Threads
  OBVIOUS
<1>1. CASE UNCHANGED allVars
  <2>1. UNCHANGED <<cache, disk, th, opened, fd_paths, curr_fd>>
    BY <1>1 DEF allVars, vars, cacheVars, tables
  <2> QED
    BY <2>1 DEF FilesHeld, CopyKey, FdKey
<1>2. CASE Call(t)
  <2>1. CASE \E p \in Paths, o \in Modes[t] : Open(t, p, o)
    BY <1>0, <2>1, OpenPlain, PlainKeeps
  <2>2. CASE \E fd \in Fds : \E pos \in 0..MaxChunks : Write(t, fd, pos)
    BY <1>0, <2>2, WritePlain, PlainKeeps
  <2>3. CASE \E fd \in Fds : \/ CloseReader(t, fd) \/ CloseWriter(t, fd)
                             \/ CloseLost(t, fd) \/ CloseUnknown(t, fd)
    BY <1>0, <2>3, CloseReaderKeeps, CloseWriterPlain, CloseLostPlain, CloseUnknownPlain,
       PlainKeeps
  <2>4. CASE \E p \in Paths : Unlink(t, p)
    BY <1>0, <2>4, UnlinkPlain, PlainKeeps
  <2> QED
    BY <1>2, <2>1, <2>2, <2>3, <2>4 DEF Call
<1>3. CASE OpenStep(t)
  <2>1. CASE OpenHit(t)
    BY <1>0, <2>1, OpenHitReadPlain, OpenHitWritePlain, PlainKeeps
  <2>2. CASE OpenRefused(t) \/ OpenMiss(t) \/ FetchLength(t) \/ FetchChunk(t) \/ FetchFails(t)
    BY <1>0, <2>2, OpenRefusedPlain, OpenMissPlain, FetchLengthPlain, FetchChunkPlain,
       FetchFailsPlain, PlainKeeps
  <2>3. CASE Count(t) \/ Unlock(t) \/ ReadFd(t)
    BY <1>0, <2>3, CountPlain, UnlockPlain, ReadFdPlain, PlainKeeps
  <2>4. CASE CachePut(t) \/ BumpFd(t) \/ OpenReader(t)
    BY <1>0, <2>4, CachePutKeeps, BumpFdKeeps, OpenReaderKeeps
  <2>5. CASE OpenWriter(t) \/ CopyChunk(t) \/ PutCopy(t) \/ OwnCopy(t)
    BY <1>0, <2>5, OpenWriterKeeps, CopyChunkKeeps, PutCopyKeeps, OwnCopyKeeps
  <2> QED
    BY <1>3, <2>1, <2>2, <2>3, <2>4, <2>5 DEF OpenStep
<1>4. CASE CloseStep(t)
  <2>1. CASE SendChunk(t)
    BY <1>0, <2>1, SendChunkPlain, SendFailsPlain, PlainKeeps
  <2>2. CASE CloseLengths(t) \/ StoreChunk(t) \/ SettleRead(t) \/ SettleWrite(t)
    BY <1>0, <2>2, CloseLengthsPlain, StoreChunkPlain, SettleReadPlain, SettleWritePlain,
       PlainKeeps
  <2>3. CASE StaleScan(t) \/ StaleDrop(t) \/ ClosePut(t) \/ Release(t)
    BY <1>0, <2>3, StaleScanKeeps, StaleDropKeeps, ClosePutKeeps, ReleaseKeeps
  <2> QED
    BY <1>4, <2>1, <2>2, <2>3 DEF CloseStep
<1> QED
  <2>1. Next => \E u \in Threads : Call(u) \/ OpenStep(u) \/ CloseStep(u)
    BY DEF Next
  <2> QED
    BY <1>1, <1>2, <1>3, <1>4, <2>1

LEMMA FilesHeldInitially ==
    ASSUME Init, NEW t \in Threads
    PROVE  FilesHeld(t)
<1>1. /\ cache = [entries |-> <<>>, clients |-> <<>>, size |-> 0]
      /\ opened = [u \in Threads |-> {}] /\ th = [u \in Threads |-> Idle]
  BY DEF Init
<1>2. DOMAIN cache.entries = {} /\ opened[t] = {} /\ th[t].pc = "idle"
  BY <1>1 DEF Idle
<1> QED
  BY <1>2 DEF FilesHeld

LEMMA NoRaceAlone ==
    ASSUME NEW t, Threads = {t}, ~raced, [Next]_allVars
    PROVE  ~raced'
<1>1. CASE UNCHANGED allVars
  BY <1>1 DEF allVars
<1>2. CASE Next
  <2>1. ~FdsRace'
    BY DEF FdsRace
  <2> QED
    BY <1>2, <2>1 DEF Next, History
<1> QED
  BY <1>1, <1>2

\* With one client, whatever it opens, writes, closes and unlinks and however
\* small the cache, eviction and the removal of stale versions leave the file of
\* every open descriptor in the cache directory (Cache.java 84-157, Proxy.java
\* 63-492).
THEOREM HeldFilesHold ==
    ASSUME NEW t, Threads = {t}
    PROVE  Spec => []HeldFilesStay
<1> DEFINE Calm == TypeInv /\ HeldInv /\ ~raced
<1>1. Init => Calm /\ FilesHeld(t)
  BY TypesInitially, HeldInitially, FilesHeldInitially DEF Init
<1>2. Calm /\ [Next]_allVars => Calm'
  BY TypesInductive, HeldInductive, NoRaceAlone
<1>3. Calm => OpenedCounted
  BY CountedOpen
<1>4. Calm /\ Calm' /\ OpenedCounted' /\ FilesHeld(t) /\ [Next]_allVars => FilesHeld(t)'
  BY FilesHeldInductive
<1>5. FilesHeld(t) => HeldFilesStay
  BY DEF FilesHeld, HeldFilesStay
<1> HIDE DEF Calm
<1> QED
  BY <1>1, <1>2, <1>3, <1>4, <1>5, PTL DEF Spec

\* Unless two getFd overlapped, no two clients hold the same descriptor: what
\* the synchronized getFd lacks is a lock that the clients share
\* (Proxy.java 46-53).
THEOREM FdsUniqueWithoutRace == Spec => [](~raced => UniqueFds)
<1>1. Init => TypeInv /\ HeldInv
  BY TypesInitially, HeldInitially
<1>2. TypeInv /\ HeldInv /\ [Next]_allVars => (TypeInv /\ HeldInv)'
  BY TypesInductive, HeldInductive
<1>3. HeldInv => (~raced => UniqueFds)
  BY DEF HeldInv, FdsApart, UniqueFds
<1> QED
  BY <1>1, <1>2, <1>3, PTL DEF Spec
=============================================================================
