------------------------- MODULE CacheSessions_proofs -------------------------
(***************************************************************************)
(* What one client of CachingProxy is promised, whatever it opens, writes, *)
(* closes and unlinks and however small the cache: a descriptor starts     *)
(* with what the server has, and the server ends with what was closed      *)
(* last.  The cached files whose version is the server's have the server's *)
(* content.                                                                *)
(***************************************************************************)
EXTENDS CachingProxy_proofs

-----------------------------------------------------------------------------
(* The invariant                                                           *)

\* The version the server gives p, and what opening k finds.
Vers(p) == Versioned(p)[p]
Holds(k) == IF k \in DOMAIN disk THEN inodes[disk[k]] ELSE <<>>

\* The cached file t is filling.
UnderWay(t, k) == k = SharedKey(t) /\ (th[t].op = "CLOSE" \/ At(t, "fetch"))

\* No cached file is newer than the server's, and one that is as new is the
\* same.  A file the server has no version of is empty.
UpToDate(k) ==
    /\ Cached(k) /\ k.ver \in 1..Vers(k.path)
    /\ k.ver = Vers(k.path) /\ k.path \in DOMAIN served => Holds(k) = served[k.path]
    /\ k.path \notin DOMAIN max_versions => Holds(k) = <<>>

FilesCurrent(t) ==
    \A k \in Keys :
      /\ k.fd = Shared /\ k.path \notin ambiguous /\ ~UnderWay(t, k)
      /\ Cached(k) \/ k \in DOMAIN disk
      => UpToDate(k)

\* Names lead to different inodes, and no name waits for a descriptor to come.
NamesApart(t) ==
    /\ \A j, k \in DOMAIN disk : disk[j] = disk[k] => j = k
    /\ \A k \in DOMAIN disk : k.fd < curr_fd
    /\ At(t, "writer") => \A k \in DOMAIN disk : k.fd # th[t].fd

Private(i) == \A k \in DOMAIN disk : k.fd = Shared => disk[k] # i

\* A private copy of version v of p covers that version.
Covers(i, p, v) ==
    p \notin ambiguous =>
      /\ v \in 1..Vers(p)
      /\ v = Vers(p) /\ p \in DOMAIN served => Len(served[p]) <= Len(inodes[i])

Copies ==
    \A fd \in DOMAIN fd_paths : fd_paths[fd].write =>
      Private(fd_files[fd]) /\ Covers(fd_files[fd], fd_paths[fd].path, fd_paths[fd].ver)

Agree(s, u, n) == \A i \in 1..n : s[i] = u[i]

\* An open that has asked the server for the version.
Locks(t) ==
    At(t, "lock") =>
      /\ th[t].pos = 0
      /\ IF th[t].ver = 0 THEN th[t].path \notin DOMAIN served
         ELSE /\ th[t].path \in DOMAIN served \cap DOMAIN max_versions
              /\ th[t].ver = Vers(th[t].path)

\* An open that will succeed: its version is the server's, and it has that file
\* or, of what it has copied, that file's beginning.
Succeeding == {"length", "fetch", "count", "unlock", "fd", "bump", "reader",
               "writer", "copy", "own"}
Begun(l) ==
    /\ l.path \in DOMAIN served /\ l.ver = Vers(l.path) /\ l.ver >= 1
    /\ l.path \notin DOMAIN max_versions => served[l.path] = <<>>
Started(l) ==
    /\ Begun(l)
    /\ l.pc \in {"length", "fetch"} /\ Cached(Key(l.path, l.ver, Shared)) =>
         served[l.path] = <<>>
    /\ l.pc = "fetch" => /\ l.len = Len(served[l.path]) /\ l.pos <= l.len
                         /\ inodes[l.raf] = SubSeq(served[l.path], 1, l.pos)
    /\ l.op # "READ" /\ l.pc \in {"unlock", "fd", "bump", "writer", "copy"} =>
         inodes[l.raf] = served[l.path]
    /\ l.pc = "copy" => /\ l.len = Len(served[l.path]) /\ l.pos <= l.len
                        /\ inodes[l.copy] = SubSeq(served[l.path], 1, l.pos)
    /\ l.pc = "own" => inodes[l.copy] = served[l.path]
Opens(t) ==
    /\ At(t, "length") => th[t].pos = 0 /\ th[t].path \in DOMAIN served
    /\ At(t, "fetch") => /\ SharedKey(t) \in DOMAIN disk
                         /\ th[t].raf = disk[SharedKey(t)]
    /\ At(t, "copy") => /\ CopyKey(t) \in DOMAIN disk
                        /\ th[t].copy = disk[CopyKey(t)] /\ th[t].raf # th[t].copy
    /\ At(t, "own") => /\ th[t].fd \in DOMAIN fd_paths /\ th[t].fd \in DOMAIN fd_files
                       /\ fd_files[th[t].fd] = th[t].copy
                       /\ fd_paths[th[t].fd] = [path |-> th[t].path, ver |-> th[t].ver,
                                                write |-> TRUE]
    /\ th[t].pc \in Succeeding /\ th[t].path \notin ambiguous => Started(th[t])

\* A close before it sends its copy, and from then on: the first Sent(l) chunks
\* have reached the server.  Only the close of a copy of one chunk makes the
\* version that it puts into the cache.
Unsent == {"scan", "drop", "put", "lengths"}
Sending == {"send", "store", "settle", "release"}
Sent(l) == IF l.pc = "store" THEN l.pos + 1 ELSE l.pos
Counts(l) ==
    /\ l.len >= 1 /\ l.ver >= 1 /\ l.ver + Sent(l) <= Vers(l.path)
    /\ l.ver + Sent(l) = Vers(l.path) =>
         /\ l.path \in DOMAIN served => Len(served[l.path]) <= l.len
         /\ Len(inodes[l.raf]) = Sent(l)
         /\ Agree(inodes[l.raf], inodes[l.copy], l.pos)
Arrived(l) ==
    Sent(l) >= 1 => /\ l.path \in DOMAIN served /\ Sent(l) <= Len(served[l.path])
                    /\ Agree(served[l.path], inodes[l.copy], Sent(l))
Closing(t) ==
    th[t].op = "CLOSE" =>
      /\ Private(th[t].copy)
      /\ th[t].pc \in Unsent =>
           /\ th[t].pos = 0
           /\ Covers(th[t].copy, th[t].path, th[t].ver)
           /\ th[t].path \notin ambiguous /\ th[t].ver = Vers(th[t].path) =>
                Holds(SharedKey(t)) = <<>>
      /\ th[t].pc \in {"lengths"} \cup Sending => Cached(SharedKey(t))
      /\ th[t].pc \in Sending =>
           /\ SharedKey(t) \in DOMAIN disk /\ th[t].raf = disk[SharedKey(t)]
           /\ th[t].len = Len(inodes[th[t].copy])
           /\ Sent(th[t]) <= th[t].len
           /\ th[t].pc \in {"settle", "release"} => Sent(th[t]) = th[t].len
           /\ Arrived(th[t])
           /\ th[t].path \notin ambiguous => Counts(th[t])

SessionInv(t) ==
    ~At(t, "dead") => /\ FilesCurrent(t) /\ NamesApart(t) /\ Copies
                      /\ Locks(t) /\ Opens(t) /\ Closing(t)

-----------------------------------------------------------------------------
(* What steps leave alone                                                  *)

\* The server keeps its files, apart from some that go, and their versions.
SteadyAt(p) ==
    /\ Vers(p)' = Vers(p)
    /\ p \in DOMAIN served' => p \in DOMAIN served /\ served'[p] = served[p]
    /\ p \in DOMAIN max_versions => p \in DOMAIN max_versions'
Steady == \A p \in Paths : SteadyAt(p)

\* The version tells whether the content is another one.
Telling ==
    \A p \in Paths : p \notin ambiguous' =>
      \/ Vers(p)' > Vers(p)
      \/ /\ Vers(p)' = Vers(p)
         /\ p \in DOMAIN served' => \/ served'[p] = <<>>
                                    \/ (p \in DOMAIN served /\ served'[p] = served[p])

\* A cached file is what it was, if it is there at all.
Kept(k) ==
    Cached(k)' \/ k \in DOMAIN disk' =>
      /\ Cached(k) \/ k \in DOMAIN disk
      /\ Cached(k) => Cached(k)'
      /\ Holds(k)' = Holds(k)

\* No name leads to an inode that had none of this name.
NoNewName ==
    \A k \in DOMAIN disk' : k \in DOMAIN disk /\ disk'[k] = disk[k]
NoNewShare ==
    \A k \in DOMAIN disk' : k.fd = Shared =>
      \/ (k \in DOMAIN disk /\ disk'[k] = disk[k])
      \/ disk'[k] \notin DOMAIN inodes

\* The descriptors that write are those there were.
NoNewWriter ==
    \A fd \in DOMAIN fd_paths' : fd_paths'[fd].write =>
      /\ fd \in DOMAIN fd_paths /\ fd_paths'[fd] = fd_paths[fd]
      /\ fd_files'[fd] = fd_files[fd]

LEMMA VersTyped ==
    ASSUME ServerOK, NEW p
    PROVE  Vers(p) \in Nat \ {0}
<1>1. CASE p \in DOMAIN max_versions
  BY <1>1 DEF Vers, Versioned, ServerOK
<1>2. CASE p \notin DOMAIN max_versions
  BY <1>2 DEF Vers, Versioned, With, FirstVersion
<1> QED
  BY <1>1, <1>2

LEMMA VersTypedAgain ==
    ASSUME ServerOK', NEW p
    PROVE  Vers(p)' \in Nat \ {0}
<1>1. CASE p \in DOMAIN max_versions'
  BY <1>1 DEF Vers, Versioned, ServerOK
<1>2. CASE p \notin DOMAIN max_versions'
  BY <1>2 DEF Vers, Versioned, With, FirstVersion
<1> QED
  BY <1>1, <1>2

LEMMA HistoryGrows ==
    ASSUME History
    PROVE  ambiguous \subseteq ambiguous'
  BY DEF History

LEMMA Steadily ==
    ASSUME Steady
    PROVE  Telling
  BY DEF Steady, SteadyAt, Telling

LEMMA ServerSame ==
    ASSUME UNCHANGED serverVars
    PROVE  Steady
  BY DEF Steady, SteadyAt, serverVars, Vers, Versioned

LEMMA FilesStay ==
    ASSUME TypeInv, TypeInv', NEW t \in Threads, FilesCurrent(t),
           ambiguous \subseteq ambiguous',
           \A k \in Keys :
             /\ k.fd = Shared /\ k.path \notin ambiguous' /\ ~UnderWay(t, k)'
             /\ Cached(k)' \/ k \in DOMAIN disk'
             => UpToDate(k)' \/ (~UnderWay(t, k) /\ Kept(k) /\ SteadyAt(k.path))
    PROVE  FilesCurrent(t)'
<1> SUFFICES ASSUME NEW k \in Keys, k.fd = Shared, k.path \notin ambiguous',
                    ~UnderWay(t, k)', Cached(k)' \/ k \in DOMAIN disk',
                    ~UnderWay(t, k), Kept(k), SteadyAt(k.path)
             PROVE  UpToDate(k)'
  BY DEF FilesCurrent
<1>1. /\ Cached(k) \/ k \in DOMAIN disk
      /\ Cached(k) => Cached(k)'
      /\ Holds(k)' = Holds(k)
  BY DEF Kept
<1>2. UpToDate(k)
  BY <1>1 DEF FilesCurrent
<1>3. k.path \in Paths
  BY DEF Keys
<1>4. /\ Vers(k.path)' = Vers(k.path)
      /\ k.path \in DOMAIN served' =>
           k.path \in DOMAIN served /\ served'[k.path] = served[k.path]
      /\ k.path \notin DOMAIN max_versions' => k.path \notin DOMAIN max_versions
  BY <1>3 DEF SteadyAt
<1> QED
  BY <1>1, <1>2, <1>4 DEF UpToDate

LEMMA NamesStay ==
    ASSUME TypeInv, TypeInv', NEW t \in Threads, NamesApart(t), NoNewName, curr_fd <= curr_fd',
           At(t, "writer")' => \A k \in DOMAIN disk : k.fd # th'[t].fd
    PROVE  NamesApart(t)'
<1>1. \A k \in DOMAIN disk' : k \in DOMAIN disk /\ disk'[k] = disk[k]
  BY DEF NoNewName
<1>2. \A k \in DOMAIN disk : k.fd \in Nat
  BY DEF TypeInv, FilesOK, Keys, Fds, FirstFd, Shared
<1>3. curr_fd \in Nat /\ curr_fd' \in Nat
  BY DEF TypeInv, FdsOK
<1>4. \A k \in DOMAIN disk' : k.fd < curr_fd'
  BY <1>1, <1>2, <1>3 DEF NamesApart
<1> QED
  BY <1>1, <1>4 DEF NamesApart

LEMMA NamesOpen ==
    ASSUME TypeInv, NEW t \in Threads, NamesApart(t), NEW k \in Keys, OpenFile(k),
           k.fd < curr_fd, curr_fd' = curr_fd, ~At(t, "writer")'
    PROVE  NamesApart(t)'
<1>1. /\ DOMAIN disk' = DOMAIN disk \cup {k}
      /\ \A j \in DOMAIN disk : disk'[j] = disk[j]
      /\ disk'[k] = InodeOf(k)
  BY OpenFileEffect DEF TypeInv
<1>2. k \notin DOMAIN disk => \A j \in DOMAIN disk : disk[j] # InodeOf(k)
  BY DEF InodeOf, TypeInv, FilesOK
<1>3. \A i, j \in DOMAIN disk' : disk'[i] = disk'[j] => i = j
  BY <1>1, <1>2 DEF NamesApart
<1>4. \A j \in DOMAIN disk' : j.fd < curr_fd'
  BY <1>1 DEF NamesApart
<1> QED
  BY <1>3, <1>4 DEF NamesApart

LEMMA PrivateStays ==
    ASSUME NEW i \in DOMAIN inodes, Private(i), NoNewShare
    PROVE  Private(i)'
  BY DEF Private, NoNewShare

LEMMA CoversStays ==
    ASSUME ServerOK, ServerOK', NEW p \in Paths, NEW v, NEW i, Covers(i, p, v), Telling,
           Len(inodes[i]) \in Nat, Len(inodes'[i]) \in Nat,
           Len(inodes[i]) <= Len(inodes'[i]), ambiguous \subseteq ambiguous'
    PROVE  Covers(i, p, v)'
<1> SUFFICES ASSUME p \notin ambiguous'
             PROVE  /\ v \in 1..Vers(p)'
                    /\ v = Vers(p)' /\ p \in DOMAIN served' =>
                         Len(served'[p]) <= Len(inodes'[i])
  BY DEF Covers
<1>1. /\ v \in 1..Vers(p)
      /\ v = Vers(p) /\ p \in DOMAIN served => Len(served[p]) <= Len(inodes[i])
  BY DEF Covers
<1>2. Vers(p) \in Nat /\ Vers(p)' \in Nat
  BY VersTyped, VersTypedAgain
<1>3. Vers(p)' >= Vers(p)
  BY <1>2 DEF Telling
<1>4. v \in 1..Vers(p)'
  BY <1>1, <1>2, <1>3
<1>5. ASSUME v = Vers(p)', p \in DOMAIN served' PROVE Len(served'[p]) <= Len(inodes'[i])
  <2>1. v = Vers(p)
    BY <1>1, <1>2, <1>3, <1>5
  <2>0. ~(Vers(p)' > Vers(p))
    BY <1>2, <1>5, <2>1
  <2>2. served'[p] = <<>> \/ (p \in DOMAIN served /\ served'[p] = served[p])
    BY <1>5, <2>0 DEF Telling
  <2>3. CASE served'[p] = <<>>
    BY <2>3
  <2>4. CASE p \in DOMAIN served /\ served'[p] = served[p]
    <3>1. Len(served[p]) \in Nat
      BY <2>4 DEF ServerOK
    <3> QED
      BY <1>1, <2>1, <2>4, <3>1
  <2> QED
    BY <2>2, <2>3, <2>4
<1> QED
  BY <1>4, <1>5

LEMMA LengthsGrow ==
    ASSUME FilesOK, FilesOK', InodesGrow, NEW i \in DOMAIN inodes
    PROVE  /\ i \in DOMAIN inodes'
           /\ Len(inodes[i]) \in Nat /\ Len(inodes'[i]) \in Nat
           /\ Len(inodes[i]) <= Len(inodes'[i])
<1>1. inodes[i] \in Seq(Chunks) /\ i \in DOMAIN inodes'
  BY DEF FilesOK, InodesGrow
<1>2. inodes'[i] \in Seq(Chunks)
  BY <1>1 DEF FilesOK
<1> QED
  BY <1>1, <1>2 DEF InodesGrow

LEMMA CopiesStay ==
    ASSUME TypeInv, TypeInv', Copies, Telling, InodesGrow, NoNewShare, NoNewWriter,
           ambiguous \subseteq ambiguous'
    PROVE  Copies'
<1> SUFFICES ASSUME NEW fd \in DOMAIN fd_paths', fd_paths'[fd].write
             PROVE  (/\ Private(fd_files[fd])
                     /\ Covers(fd_files[fd], fd_paths[fd].path, fd_paths[fd].ver))'
  BY DEF Copies
<1>1. /\ fd \in DOMAIN fd_paths /\ fd_paths'[fd] = fd_paths[fd]
      /\ fd_files'[fd] = fd_files[fd] /\ fd_paths[fd].write
  BY DEF NoNewWriter
<1>2. fd_files[fd] \in DOMAIN inodes /\ fd_paths[fd].path \in Paths
  BY <1>1 DEF TypeInv, TablesOK, Names
<1>3. PICK i, p, v :
        i \in DOMAIN inodes /\ p \in Paths
        /\ i = fd_files[fd] /\ p = fd_paths[fd].path /\ v = fd_paths[fd].ver
  BY <1>2
<1>4. Private(i) /\ Covers(i, p, v)
  BY <1>1, <1>3 DEF Copies
<1>5. Private(i)'
  BY <1>3, <1>4, PrivateStays
<1>6. /\ Len(inodes[i]) \in Nat /\ Len(inodes'[i]) \in Nat
      /\ Len(inodes[i]) <= Len(inodes'[i])
  BY <1>3, LengthsGrow DEF TypeInv
<1>7. Covers(i, p, v)'
  BY <1>3, <1>4, <1>6, CoversStays DEF TypeInv
<1> QED
  BY <1>1, <1>3, <1>5, <1>7

\* Files and names rest.
LEMMA FilesAtRest ==
    ASSUME TypeInv, TypeInv', NEW t \in Threads, SessionInv(t), ~At(t, "dead"), History,
           Steady, DOMAIN cache'.entries = DOMAIN cache.entries, UNCHANGED <<disk, inodes>>,
           NoNewWriter, curr_fd <= curr_fd',
           \A k \in Keys : UnderWay(t, k) => UnderWay(t, k)',
           At(t, "writer")' => \A k \in DOMAIN disk : k.fd # th'[t].fd
    PROVE  FilesCurrent(t)' /\ NamesApart(t)' /\ Copies'
<1>1. FilesCurrent(t) /\ NamesApart(t) /\ Copies
  BY DEF SessionInv
<1>2. ambiguous \subseteq ambiguous'
  BY HistoryGrows
<1>3. \A k \in Keys : Kept(k) /\ SteadyAt(k.path)
  BY DEF Kept, Cached, Holds, Keys, Steady
<1>4. FilesCurrent(t)'
  BY <1>1, <1>2, <1>3, FilesStay
<1>5. NoNewName /\ NoNewShare
  BY DEF NoNewName, NoNewShare
<1>6. NamesApart(t)'
  BY <1>1, <1>5, NamesStay
<1>7. InodesGrow
  BY FilesRest DEF TypeInv
<1>8. Copies'
  BY <1>1, <1>2, <1>5, <1>7, Steadily, CopiesStay
<1> QED
  BY <1>4, <1>6, <1>8

LEMMA NothingToDo ==
    ASSUME NEW t \in Threads, th'[t] = Idle
    PROVE  Locks(t)' /\ Opens(t)' /\ Closing(t)'
<1>1. th'[t].pc = "idle" /\ th'[t].op = "none"
  BY DEF Idle
<1> QED
  BY <1>1 DEF Locks, Opens, Closing, At, Succeeding

LEMMA SameKey ==
    ASSUME NEW t, th'[t].path = th[t].path, th'[t].op = th[t].op, th'[t].ver = th[t].ver
    PROVE  SharedKey(t)' = SharedKey(t)
  BY DEF SharedKey

\* A step of a call that does not take it to its end.
LEMMA StillUnderWay ==
    ASSUME NEW t, th'[t].path = th[t].path, th'[t].op = th[t].op, th'[t].ver = th[t].ver,
           At(t, "fetch") => At(t, "fetch")'
    PROVE  \A k : UnderWay(t, k) => UnderWay(t, k)'
  BY SameKey DEF UnderWay

\* t fills no file.
LEMMA NoneUnderWay ==
    ASSUME NEW t, th[t].op # "CLOSE", ~At(t, "fetch")
    PROVE  \A k : ~UnderWay(t, k)
  BY DEF UnderWay

-----------------------------------------------------------------------------
(* open                                                                    *)

LEMMA OpenSession ==
    ASSUME TypeInv, TypeInv', NEW t \in Threads, SessionInv(t), History,
           NEW p \in Paths, NEW o \in Modes[t], Open(t, p, o)
    PROVE  SessionInv(t)'
<1>1. /\ At(t, "idle") /\ serverExists(p) /\ UNCHANGED <<cacheVars, opened, tables>>
      /\ th' = [th EXCEPT ![t] = [Idle EXCEPT !.pc = "lock", !.op = o, !.path = p,
                                    !.ver = VersionFound(p)]]
  BY DEF Open
<1>2. th'[t] = [Idle EXCEPT !.pc = "lock", !.op = o, !.path = p, !.ver = VersionFound(p)]
  BY <1>1 DEF TypeInv, ThreadsOK
<1>3. /\ th'[t].pc = "lock" /\ th'[t].op = o /\ th'[t].path = p
      /\ th'[t].ver = VersionFound(p) /\ th'[t].pos = 0
  BY <1>2 DEF Idle
<1>4. th[t].op = "none"
  BY <1>1 DEF TypeInv, ThreadsOK, LocalOK, At, Resting
<1>5. o # "CLOSE"
  BY ProxyAssumption
<1>6. served' = served /\ (p \in DOMAIN served => max_versions' = Versioned(p))
         /\ (p \notin DOMAIN served => max_versions' = max_versions)
  BY <1>1 DEF serverExists
<1>7. /\ p \in DOMAIN Versioned(p) /\ DOMAIN max_versions \subseteq DOMAIN Versioned(p)
      /\ \A q \in DOMAIN max_versions : Versioned(p)[q] = max_versions[q]
      /\ \A q \in DOMAIN Versioned(p) \ DOMAIN max_versions :
           q = p /\ Versioned(p)[q] = FirstVersion
  <2>1. CASE p \in DOMAIN max_versions
    BY <2>1 DEF Versioned
  <2>2. CASE p \notin DOMAIN max_versions
    BY <2>2 DEF Versioned, With
  <2> QED
    BY <2>1, <2>2
<1>8. \A q : Vers(q) = IF q \in DOMAIN max_versions THEN max_versions[q] ELSE FirstVersion
  BY DEF Vers, Versioned, With
<1>9. \A q : Vers(q)' = IF q \in DOMAIN max_versions' THEN max_versions'[q] ELSE FirstVersion
  BY DEF Vers, Versioned, With
<1>10. \A q : Vers(q)' = Vers(q)
  <2>1. CASE p \in DOMAIN served
    BY <1>6, <1>7, <1>8, <1>9, <2>1
  <2>2. CASE p \notin DOMAIN served
    BY <1>6, <1>8, <1>9, <2>2
  <2> QED
    BY <2>1, <2>2
<1>11. Steady
  <2>1. DOMAIN max_versions \subseteq DOMAIN max_versions'
    BY <1>6, <1>7
  <2> QED
    BY <1>6, <1>10, <2>1 DEF Steady, SteadyAt
<1>12. FilesCurrent(t)' /\ NamesApart(t)' /\ Copies'
  <2>1. \A k : ~UnderWay(t, k)
    BY <1>1, <1>4, NoneUnderWay DEF At
  <2>2. NoNewWriter /\ curr_fd <= curr_fd'
    BY <1>1 DEF NoNewWriter, tables, TypeInv, FdsOK
  <2>3. ~At(t, "dead") /\ ~At(t, "writer")'
    BY <1>1, <1>3 DEF At
  <2>4. DOMAIN cache'.entries = DOMAIN cache.entries /\ UNCHANGED <<disk, inodes>>
    BY <1>1 DEF cacheVars
  <2> QED
    BY <1>11, <2>1, <2>2, <2>3, <2>4, FilesAtRest
<1>13. Locks(t)'
  <2>1. CASE p \in DOMAIN served
    <3>1. VersionFound(p) = Vers(p) /\ VersionFound(p) # 0
      BY <2>1, VersTyped DEF VersionFound, Vers, TypeInv
    <3>2. p \in DOMAIN max_versions'
      BY <1>6, <1>7, <2>1
    <3> QED
      BY <1>3, <1>6, <1>10, <2>1, <3>1, <3>2 DEF Locks
  <2>2. CASE p \notin DOMAIN served
    BY <1>3, <1>6, <2>2 DEF Locks, VersionFound
  <2> QED
    BY <2>1, <2>2
<1>14. Opens(t)' /\ Closing(t)'
  BY <1>3, <1>5 DEF Opens, Closing, At, Succeeding
<1> QED
  BY <1>12, <1>13, <1>14 DEF SessionInv

LEMMA OpenRefusedSession ==
    ASSUME TypeInv, TypeInv', NEW t \in Threads, SessionInv(t), History, OpenRefused(t)
    PROVE  SessionInv(t)'
<1>1. /\ At(t, "lock") /\ th' = [th EXCEPT ![t] = Idle]
      /\ UNCHANGED <<serverVars, cacheVars, opened, tables>>
  BY DEF OpenRefused, Return
<1>2. th'[t] = Idle /\ th'[t].pc = "idle" /\ th[t].op # "CLOSE"
  BY <1>1 DEF TypeInv, ThreadsOK, Idle, LocalOK, At, TakingFd, OpenOps
<1>3. FilesCurrent(t)' /\ NamesApart(t)' /\ Copies'
  <2>1. \A k : ~UnderWay(t, k)
    BY <1>1, <1>2, NoneUnderWay DEF At
  <2>2. NoNewWriter /\ curr_fd <= curr_fd' /\ Steady
    BY <1>1, ServerSame DEF NoNewWriter, tables, TypeInv, FdsOK
  <2>3. ~At(t, "dead") /\ ~At(t, "writer")'
    BY <1>1, <1>2 DEF At
  <2>4. DOMAIN cache'.entries = DOMAIN cache.entries /\ UNCHANGED <<disk, inodes>>
    BY <1>1 DEF cacheVars
  <2> QED
    BY <2>1, <2>2, <2>3, <2>4, FilesAtRest
<1> QED
  BY <1>2, <1>3, NothingToDo DEF SessionInv

LEMMA OpenHitKnows ==
    ASSUME TypeInv, NEW t \in Threads, SessionInv(t), OpenHit(t)
    PROVE  /\ At(t, "lock") /\ th[t] \in Locals /\ th[t].op \in OpenOps
           /\ th[t].path \in Paths
           /\ SharedKey(t) = Key(th[t].path, th[t].ver, Shared) /\ SharedKey(t) \in Keys
           /\ th[t].path \notin ambiguous =>
                /\ th[t].path \in DOMAIN served /\ th[t].ver = Vers(th[t].path)
                /\ th[t].ver >= 1 /\ th[t].path \in DOMAIN max_versions
                /\ Holds(SharedKey(t)) = served[th[t].path]
<1>1. At(t, "lock") /\ Cached(SharedKey(t))
  BY DEF OpenHit
<1>2. th[t] \in Locals /\ LocalOK(th[t])
  BY DEF TypeInv, ThreadsOK
<1>3. th[t].op \in OpenOps /\ th[t].op # "CLOSE" /\ th[t].path \in Paths
  BY <1>1, <1>2 DEF LocalOK, At, TakingFd, OpenOps, Resting
<1>4. SharedKey(t) = Key(th[t].path, th[t].ver, Shared)
  BY <1>3 DEF SharedKey
<1>5. SharedKey(t) \in Keys
  BY <1>1, <1>2, <1>4, KeysOfThread DEF At, Resting
<1>6. ASSUME th[t].path \notin ambiguous
      PROVE  /\ th[t].path \in DOMAIN served /\ th[t].ver = Vers(th[t].path)
             /\ th[t].ver >= 1 /\ th[t].path \in DOMAIN max_versions
             /\ Holds(SharedKey(t)) = served[th[t].path]
  <2>1. ~At(t, "dead") /\ ~UnderWay(t, SharedKey(t))
    BY <1>1, <1>3, NoneUnderWay DEF At
  <2>2. UpToDate(SharedKey(t))
    BY <1>1, <1>4, <1>5, <1>6, <2>1 DEF SessionInv, FilesCurrent, Key
  <2>3. /\ SharedKey(t).path = th[t].path /\ SharedKey(t).ver = th[t].ver
    BY <1>4 DEF Key
  <2>4. th[t].ver \in 1..Vers(th[t].path)
    BY <2>2, <2>3 DEF UpToDate
  <2>5. Vers(th[t].path) \in Nat
    BY VersTyped DEF TypeInv
  <2>6. th[t].ver # 0 /\ th[t].ver >= 1
    BY <2>4, <2>5
  <2>7. /\ th[t].path \in DOMAIN served /\ th[t].path \in DOMAIN max_versions
        /\ th[t].ver = Vers(th[t].path)
    BY <1>1, <2>1, <2>6 DEF SessionInv, Locks
  <2> QED
    BY <2>2, <2>3, <2>6, <2>7 DEF UpToDate
<1> QED
  BY <1>1, <1>2, <1>3, <1>4, <1>5, <1>6

LEMMA OpenHitReadSession ==
    ASSUME TypeInv, TypeInv', NEW t \in Threads, SessionInv(t), History, OpenHit(t), Reading(t)
    PROVE  SessionInv(t)'
<1>1. /\ cache' = Touched(cache, SharedKey(t)) /\ UNCHANGED <<disk, inodes>>
      /\ Go(t, "count") /\ UNCHANGED <<serverVars, opened, tables>>
  BY DEF OpenHit
<1>2. /\ At(t, "lock") /\ th[t].op \in OpenOps
      /\ th[t].path \notin ambiguous =>
           /\ th[t].path \in DOMAIN served /\ th[t].ver = Vers(th[t].path)
           /\ th[t].ver >= 1 /\ th[t].path \in DOMAIN max_versions
  BY OpenHitKnows
<1>3. /\ th'[t].pc = "count" /\ th'[t].op = th[t].op /\ th'[t].path = th[t].path
      /\ th'[t].ver = th[t].ver
  BY <1>1, GoneOn DEF TypeInv, TakingFd
<1>4. served' = served /\ max_versions' = max_versions /\ ambiguous \subseteq ambiguous'
  BY <1>1, HistoryGrows DEF serverVars
<1>5. FilesCurrent(t)' /\ NamesApart(t)' /\ Copies'
  <2>1. \A k : ~UnderWay(t, k)
    BY <1>2, NoneUnderWay DEF At, OpenOps
  <2>2. NoNewWriter /\ curr_fd <= curr_fd' /\ Steady
    BY <1>1, ServerSame DEF NoNewWriter, tables, TypeInv, FdsOK
  <2>3. ~At(t, "dead") /\ ~At(t, "writer")'
    BY <1>2, <1>3 DEF At
  <2>4. DOMAIN cache'.entries = DOMAIN cache.entries
    BY <1>1, TouchedTyped DEF TypeInv
  <2> QED
    BY <1>1, <2>1, <2>2, <2>3, <2>4, FilesAtRest
<1>6. Locks(t)' /\ Closing(t)'
  BY <1>2, <1>3 DEF Locks, Closing, At, OpenOps
<1>7. Opens(t)'
  <2>1. Reading(t)'
    BY <1>3 DEF Reading
  <2>2. Vers(th[t].path)' = Vers(th[t].path)
    BY <1>3, <1>4 DEF Vers, Versioned
  <2>3. th'[t].path \notin ambiguous' =>
          /\ th'[t].path \in DOMAIN served' /\ th'[t].ver = Vers(th[t].path)'
          /\ th'[t].ver >= 1 /\ th'[t].path \in DOMAIN max_versions'
    BY <1>2, <1>3, <1>4, <2>2
  <2>4. th'[t].path \notin ambiguous' => Started(th[t])'
    BY <1>3, <2>1, <2>3 DEF Started, Begun, Reading
  <2> QED
    BY <1>3, <2>4 DEF Opens, At
<1> QED
  BY <1>5, <1>6, <1>7 DEF SessionInv

\* What opening a file by its name finds is what there was.
LEMMA OpenFileHolds ==
    ASSUME TypeInv, NEW k \in Keys, OpenFile(k)
    PROVE  /\ \A j : Holds(j)' = Holds(j)
           /\ DOMAIN disk' = DOMAIN disk \cup {k}
           /\ inodes'[InodeOf(k)] = Holds(k) /\ disk'[k] = InodeOf(k)
           /\ InodesGrow /\ NoNewShare
           /\ \A i \in DOMAIN inodes : inodes'[i] = inodes[i]
<1>1. /\ FilesOK' /\ InodesGrow
      /\ DOMAIN disk' = DOMAIN disk \cup {k}
      /\ \A j \in DOMAIN disk : disk'[j] = disk[j]
      /\ disk'[k] = InodeOf(k)
      /\ InodeOf(k) \in DOMAIN inodes'
      /\ \A i \in DOMAIN inodes : inodes'[i] = inodes[i]
  BY OpenFileEffect DEF TypeInv
<1>2. /\ k \in DOMAIN disk => InodeOf(k) = disk[k] /\ disk[k] \in DOMAIN inodes
      /\ k \notin DOMAIN disk => InodeOf(k) = Len(inodes) + 1 /\ inodes' = Append(inodes, <<>>)
  BY DEF OpenFile, InodeOf, TypeInv, FilesOK
<1>3. inodes'[InodeOf(k)] = Holds(k)
  <2>1. CASE k \in DOMAIN disk
    BY <1>1, <1>2, <2>1 DEF Holds
  <2>2. CASE k \notin DOMAIN disk
    <3>1. inodes \in Seq(Seq(Chunks)) /\ <<>> \in Seq(Chunks)
      BY DEF TypeInv, FilesOK
    <3>2. Append(inodes, <<>>)[Len(inodes) + 1] = <<>>
      BY <3>1
    <3> QED
      BY <1>2, <2>2, <3>2 DEF Holds
  <2> QED
    BY <2>1, <2>2
<1>4. ASSUME NEW j PROVE Holds(j)' = Holds(j)
  <2>1. CASE j \in DOMAIN disk
    <3>1. disk[j] \in DOMAIN inodes /\ j \in DOMAIN disk' /\ disk'[j] = disk[j]
      BY <1>1, <2>1 DEF TypeInv, FilesOK
    <3> QED
      BY <1>1, <2>1, <3>1 DEF Holds
  <2>2. CASE j \notin DOMAIN disk /\ j = k
    BY <1>1, <1>3, <2>2 DEF Holds
  <2>3. CASE j \notin DOMAIN disk /\ j # k
    BY <1>1, <2>3 DEF Holds
  <2> QED
    BY <2>1, <2>2, <2>3
<1>5. k \notin DOMAIN disk => InodeOf(k) \notin DOMAIN inodes
  BY <1>2 DEF TypeInv, FilesOK
<1>6. NoNewShare
  BY <1>1, <1>5 DEF NoNewShare
<1> QED
  BY <1>1, <1>3, <1>4, <1>6

LEMMA SharedIsBelow ==
    ASSUME TypeInv, NEW k, k.fd = Shared
    PROVE  k.fd < curr_fd
  BY DEF TypeInv, FdsOK, Shared, FirstFd

\* A file is opened by its name.
LEMMA FilesAtOpen ==
    ASSUME TypeInv, TypeInv', NEW t \in Threads, SessionInv(t), ~At(t, "dead"), History,
           Steady, DOMAIN cache'.entries = DOMAIN cache.entries,
           NEW k \in Keys, OpenFile(k), k.fd < curr_fd, curr_fd' = curr_fd, NoNewWriter,
           \A j \in Keys : UnderWay(t, j) => UnderWay(t, j)',
           k.fd = Shared => Cached(k) \/ UnderWay(t, k)', ~At(t, "writer")'
    PROVE  FilesCurrent(t)' /\ NamesApart(t)' /\ Copies'
<1>1. FilesCurrent(t) /\ NamesApart(t) /\ Copies
  BY DEF SessionInv
<1>2. ambiguous \subseteq ambiguous'
  BY HistoryGrows
<1>3. /\ \A j : Holds(j)' = Holds(j)
      /\ DOMAIN disk' = DOMAIN disk \cup {k} /\ InodesGrow /\ NoNewShare
  BY OpenFileHolds
<1>4. ASSUME NEW j \in Keys, j.fd = Shared, ~UnderWay(t, j)'
      PROVE  ~UnderWay(t, j) /\ Kept(j) /\ SteadyAt(j.path)
  <2>1. j = k => Cached(j)
    BY <1>4
  <2>2. Cached(j)' <=> Cached(j)
    BY DEF Cached
  <2> QED
    BY <1>3, <1>4, <2>1, <2>2 DEF Kept, Keys, Steady
<1>5. FilesCurrent(t)'
  BY <1>1, <1>2, <1>4, FilesStay
<1>6. NamesApart(t)'
  BY <1>1, NamesOpen
<1>7. Copies'
  BY <1>1, <1>2, <1>3, Steadily, CopiesStay
<1> QED
  BY <1>5, <1>6, <1>7

\* A chunk is written into an inode that no cached file has but the one under way.
LEMMA FilesAtWrite ==
    ASSUME TypeInv, TypeInv', NEW t \in Threads, SessionInv(t), ~At(t, "dead"), History,
           Steady, NEW i \in DOMAIN inodes, NEW pos \in Nat, NEW chunk \in Chunks,
           WriteChunk(i, pos, chunk), UNCHANGED tables,
           \A j \in Keys : UnderWay(t, j) => UnderWay(t, j)',
           \A j \in DOMAIN disk : j.fd = Shared /\ disk[j] = i => UnderWay(t, j),
           ~At(t, "writer")'
    PROVE  FilesCurrent(t)' /\ NamesApart(t)' /\ Copies'
<1>1. FilesCurrent(t) /\ NamesApart(t) /\ Copies
  BY DEF SessionInv
<1>2. ambiguous \subseteq ambiguous'
  BY HistoryGrows
<1>3. InodesGrow /\ cache' = cache /\ disk' = disk
  BY WriteEffect DEF TypeInv
<1>4. \A m \in DOMAIN inodes : m # i => inodes'[m] = inodes[m]
  BY DEF WriteChunk, TypeInv, FilesOK
<1>5. ASSUME NEW j \in Keys, j.fd = Shared, ~UnderWay(t, j)'
      PROVE  ~UnderWay(t, j) /\ Kept(j) /\ SteadyAt(j.path)
  <2>1. ~UnderWay(t, j)
    BY <1>5
  <2>2. j \in DOMAIN disk => disk[j] \in DOMAIN inodes /\ disk[j] # i
    BY <1>5, <2>1 DEF TypeInv, FilesOK
  <2>3. Holds(j)' = Holds(j)
    BY <1>3, <1>4, <2>2 DEF Holds
  <2> QED
    BY <1>3, <2>1, <2>3 DEF Kept, Cached, Keys, Steady
<1>6. FilesCurrent(t)'
  BY <1>1, <1>2, <1>5, FilesStay
<1>7. NoNewName /\ NoNewShare /\ NoNewWriter /\ curr_fd <= curr_fd'
  BY <1>3 DEF NoNewName, NoNewShare, NoNewWriter, tables, TypeInv, FdsOK
<1>8. NamesApart(t)'
  BY <1>1, <1>7, NamesStay
<1>9. Copies'
  BY <1>1, <1>2, <1>3, <1>7, Steadily, CopiesStay
<1> QED
  BY <1>6, <1>8, <1>9

LEMMA OpenHitWriteSession ==
    ASSUME TypeInv, TypeInv', NEW t \in Threads, SessionInv(t), History, OpenHit(t), ~Reading(t)
    PROVE  SessionInv(t)'
<1>1. /\ cache' = Touched(cache, SharedKey(t)) /\ OpenFile(SharedKey(t)) /\ Cached(SharedKey(t))
      /\ th' = [th EXCEPT ![t].pc = "unlock", ![t].raf = InodeOf(SharedKey(t))]
      /\ UNCHANGED <<serverVars, opened, tables>>
  BY DEF OpenHit
<1>2. /\ At(t, "lock") /\ th[t] \in Locals /\ th[t].op \in OpenOps
      /\ SharedKey(t) = Key(th[t].path, th[t].ver, Shared) /\ SharedKey(t) \in Keys
      /\ th[t].path \notin ambiguous =>
           /\ th[t].path \in DOMAIN served /\ th[t].ver = Vers(th[t].path)
           /\ th[t].ver >= 1 /\ th[t].path \in DOMAIN max_versions
           /\ Holds(SharedKey(t)) = served[th[t].path]
  BY OpenHitKnows
<1>3. th'[t] = [th[t] EXCEPT !.pc = "unlock", !.raf = InodeOf(SharedKey(t))]
  BY <1>1 DEF TypeInv, ThreadsOK
<1>4. /\ th'[t].pc = "unlock" /\ th'[t].op = th[t].op /\ th'[t].path = th[t].path
      /\ th'[t].ver = th[t].ver /\ th'[t].raf = InodeOf(SharedKey(t))
  BY <1>2, <1>3 DEF Locals
<1>5. served' = served /\ max_versions' = max_versions /\ ambiguous \subseteq ambiguous'
  BY <1>1, HistoryGrows DEF serverVars
<1>6. FilesCurrent(t)' /\ NamesApart(t)' /\ Copies'
  <2>1. \A k : ~UnderWay(t, k)
    BY <1>2, NoneUnderWay DEF At, OpenOps
  <2>2. NoNewWriter /\ curr_fd' = curr_fd /\ Steady
    BY <1>1, ServerSame DEF NoNewWriter, tables
  <2>3. ~At(t, "dead") /\ ~At(t, "writer")'
    BY <1>2, <1>4 DEF At
  <2>4. DOMAIN cache'.entries = DOMAIN cache.entries
    BY <1>1, TouchedTyped DEF TypeInv
  <2>5. SharedKey(t).fd < curr_fd
    BY <1>2, SharedIsBelow DEF Key
  <2> QED
    BY <1>1, <1>2, <2>1, <2>2, <2>3, <2>4, <2>5, FilesAtOpen
<1>7. Locks(t)' /\ Closing(t)'
  BY <1>2, <1>4 DEF Locks, Closing, At, OpenOps
<1>8. Opens(t)'
  <2>1. inodes'[InodeOf(SharedKey(t))] = Holds(SharedKey(t))
    BY <1>1, <1>2, OpenFileHolds
  <2>2. Vers(th[t].path)' = Vers(th[t].path)
    BY <1>4, <1>5 DEF Vers, Versioned
  <2>3. th'[t].path \notin ambiguous' =>
          /\ th'[t].path \in DOMAIN served' /\ th'[t].ver = Vers(th[t].path)'
          /\ th'[t].ver >= 1 /\ th'[t].path \in DOMAIN max_versions'
          /\ inodes'[th'[t].raf] = served'[th'[t].path]
    BY <1>2, <1>4, <1>5, <2>1, <2>2
  <2>4. th'[t].path \notin ambiguous' => Started(th[t])'
    BY <1>4, <2>3 DEF Started, Begun
  <2> QED
    BY <1>4, <2>4 DEF Opens, At
<1> QED
  BY <1>6, <1>7, <1>8 DEF SessionInv

LEMMA OpenMissSession ==
    ASSUME TypeInv, TypeInv', NEW t \in Threads, SessionInv(t), History, OpenMiss(t)
    PROVE  SessionInv(t)'
<1> DEFINE p == th[t].path
<1>1. /\ At(t, "lock") /\ ~Cached(SharedKey(t))
      /\ IF th[t].ver = 0 THEN createFile(p) ELSE UNCHANGED serverVars
      /\ th' = [th EXCEPT ![t].pc = "length", ![t].ver = IF @ = 0 THEN 1 ELSE @]
      /\ UNCHANGED <<cacheVars, opened, tables>>
  BY DEF OpenMiss
<1>2. th[t] \in Locals /\ LocalOK(th[t])
  BY DEF TypeInv, ThreadsOK
<1>3. th[t].op \in OpenOps /\ th[t].op # "CLOSE" /\ p \in Paths /\ th[t].ver \in Nat
  BY <1>1, <1>2 DEF LocalOK, At, TakingFd, OpenOps, Resting, Locals
<1>4. th'[t] = [th[t] EXCEPT !.pc = "length", !.ver = IF @ = 0 THEN 1 ELSE @]
  BY <1>1 DEF TypeInv, ThreadsOK
<1>5. /\ th'[t].pc = "length" /\ th'[t].op = th[t].op /\ th'[t].path = p
      /\ th'[t].ver = (IF th[t].ver = 0 THEN 1 ELSE th[t].ver) /\ th'[t].pos = th[t].pos
  BY <1>2, <1>4 DEF Locals
<1>6. /\ th[t].pos = 0
      /\ th[t].ver = 0 => p \notin DOMAIN served
      /\ th[t].ver # 0 => /\ p \in DOMAIN served /\ p \in DOMAIN max_versions
                          /\ th[t].ver = Vers(p)
  BY <1>1 DEF SessionInv, Locks, At
<1>7. /\ max_versions' = max_versions
      /\ th[t].ver = 0 => served' = With(served, p, <<>>)
      /\ th[t].ver # 0 => served' = served
  BY <1>1, <1>6 DEF createFile, serverVars
<1>8. /\ ambiguous \subseteq ambiguous'
      /\ th[t].ver = 0 /\ p \in DOMAIN max_versions => p \in ambiguous'
  <2>1. ambiguous \subseteq ambiguous' /\ Revived \subseteq ambiguous'
    BY DEF History
  <2>2. th[t].ver = 0 => p \in DOMAIN served'
    BY <1>7 DEF With
  <2> QED
    BY <1>6, <1>7, <2>1, <2>2 DEF Revived
<1>9. \A q : Vers(q)' = Vers(q)
  BY <1>7 DEF Vers, Versioned
<1>10. \A q : th[t].ver # 0 \/ q # p => SteadyAt(q)
  BY <1>7, <1>9 DEF SteadyAt, With
<1>11. p \in DOMAIN served' /\ (th[t].ver = 0 => served'[p] = <<>>)
  BY <1>6, <1>7 DEF With
<1>12. \A k : ~UnderWay(t, k)
  BY <1>1, <1>3, NoneUnderWay DEF At
<1>13. FilesCurrent(t) /\ NamesApart(t) /\ Copies /\ ~At(t, "dead")
  BY <1>1 DEF SessionInv, At
<1>14. FilesCurrent(t)'
  <2>1. ASSUME NEW k \in Keys, k.fd = Shared, k.path \notin ambiguous',
               Cached(k)' \/ k \in DOMAIN disk'
        PROVE  UpToDate(k)' \/ (~UnderWay(t, k) /\ Kept(k) /\ SteadyAt(k.path))
    <3>1. Cached(k)' = Cached(k) /\ Holds(k)' = Holds(k) /\ disk' = disk
      BY <1>1 DEF Cached, Holds, cacheVars
    <3>2. CASE th[t].ver # 0 \/ k.path # p
      BY <3>1, <3>2, <1>10, <1>12 DEF Kept
    <3>3. CASE th[t].ver = 0 /\ k.path = p
      <4>1. p \notin DOMAIN max_versions
        BY <1>8, <2>1, <3>3
      <4>2. UpToDate(k)
        BY <1>8, <1>12, <1>13, <2>1, <3>1 DEF FilesCurrent
      <4>3. Holds(k) = <<>>
        BY <3>3, <4>1, <4>2 DEF UpToDate
      <4> QED
        BY <1>7, <1>9, <1>11, <3>1, <3>3, <4>2, <4>3 DEF UpToDate
    <3> QED
      BY <3>2, <3>3
  <2> QED
    BY <1>8, <1>13, <2>1, FilesStay
<1>15. NamesApart(t)' /\ Copies'
  <2>1. Telling
    BY <1>7, <1>8, <1>9, <1>10, <1>11 DEF Telling, SteadyAt
  <2>2. InodesGrow
    BY <1>1, FilesRest DEF TypeInv, cacheVars
  <2>3. NoNewName /\ NoNewShare /\ NoNewWriter
    BY <1>1 DEF NoNewName, NoNewShare, NoNewWriter, tables, cacheVars
  <2>4. curr_fd <= curr_fd' /\ ~At(t, "writer")'
    BY <1>1, <1>5 DEF tables, At, TypeInv, FdsOK
  <2> QED
    BY <1>8, <1>13, <2>1, <2>2, <2>3, <2>4, CopiesStay, NamesStay
<1>16. Locks(t)' /\ Closing(t)'
  BY <1>3, <1>5 DEF Locks, Closing, At
<1>17. Opens(t)'
  <2>1. ASSUME p \notin ambiguous' PROVE Started(th[t])'
    <3>1. CASE th[t].ver = 0
      <4>1. p \notin DOMAIN max_versions
        BY <1>8, <2>1, <3>1
      <4>2. Vers(th[t].path)' = 1
        BY <1>5, <1>7, <4>1 DEF Vers, Versioned, With, FirstVersion
      <4> QED
        BY <1>5, <1>11, <3>1, <4>2 DEF Started, Begun
    <3>2. CASE th[t].ver # 0
      <4>1. Vers(th[t].path)' = Vers(p)
        BY <1>5, <1>7 DEF Vers, Versioned
      <4>2. th[t].ver >= 1
        BY <1>3, <3>2
      <4>3. ~Cached(Key(p, th[t].ver, Shared))
        BY <1>1, <1>3 DEF SharedKey
      <4>4. ~Cached(Key(th[t].path, th[t].ver, Shared))'
        BY <1>1, <1>5, <3>2, <4>3 DEF Cached, cacheVars
      <4> QED
        BY <1>5, <1>6, <1>7, <3>2, <4>1, <4>2, <4>4 DEF Started, Begun
    <3> QED
      BY <3>1, <3>2
  <2> QED
    BY <1>5, <1>6, <1>11, <2>1 DEF Opens, At
<1> QED
  BY <1>14, <1>15, <1>16, <1>17 DEF SessionInv

\* What t knows of its file stays true as long as the server does nothing.
LEMMA BegunStays ==
    ASSUME NEW t, th'[t].path = th[t].path, th'[t].ver = th[t].ver,
           served' = served, max_versions' = max_versions, Begun(th[t])
    PROVE  Begun(th[t])'
<1>1. Vers(th[t].path)' = Vers(th[t].path)
  BY DEF Vers, Versioned
<1> QED
  BY <1>1 DEF Begun

LEMMA OverlayExtends ==
    ASSUME NEW S, NEW s \in Seq(S), NEW n \in Nat, n < Len(s)
    PROVE  Overlay(SubSeq(s, 1, n), n, s[n + 1]) = SubSeq(s, 1, n + 1)
<1>1. /\ SubSeq(s, 1, n) \in Seq(S) /\ Len(SubSeq(s, 1, n)) = n
      /\ \A i \in 1..n : SubSeq(s, 1, n)[i] = s[i]
  OBVIOUS
<1>2. SubSeq(s, 1, n + 1) = [i \in 1..(n + 1) |-> s[i]]
  OBVIOUS
<1>3. Overlay(SubSeq(s, 1, n), n, s[n + 1])
        = [i \in 1..(n + 1) |-> IF i = n + 1 THEN s[n + 1]
                                ELSE IF i <= n THEN SubSeq(s, 1, n)[i] ELSE Zero]
  BY <1>1 DEF Overlay
<1>4. \A i \in 1..(n + 1) : s[i] = IF i = n + 1 THEN s[n + 1]
                                   ELSE IF i <= n THEN SubSeq(s, 1, n)[i] ELSE Zero
  BY <1>1
<1> QED
  BY <1>2, <1>3, <1>4

\* The call that t makes, and its locals.
LEMMA Making ==
    ASSUME TypeInv, NEW t \in Threads, th[t].pc \notin Resting
    PROVE  /\ th[t] \in Locals /\ LocalOK(th[t]) /\ th[t].path \in Paths
           /\ SharedKey(t) \in Keys /\ SharedKey(t).fd = Shared
           /\ SharedKey(t).path = th[t].path
           /\ SharedKey(t).ver = IF th[t].op = "CLOSE" THEN th[t].ver + 1 ELSE th[t].ver
           /\ th[t].ver \in Nat /\ th[t].pos \in Nat /\ th[t].len \in Nat
<1>1. th[t] \in Locals /\ LocalOK(th[t])
  BY DEF TypeInv, ThreadsOK
<1>2. /\ th[t].path \in Paths /\ th[t].ver \in Nat /\ th[t].pos \in Nat /\ th[t].len \in Nat
  BY <1>1 DEF LocalOK, Locals
<1>3. SharedKey(t) \in Keys
  BY <1>1, KeysOfThread DEF SharedKey
<1> QED
  BY <1>1, <1>2, <1>3 DEF SharedKey, Key, NewVersion

LEMMA FetchLengthSession ==
    ASSUME TypeInv, TypeInv', NEW t \in Threads, SessionInv(t), History, FetchLength(t)
    PROVE  SessionInv(t)'
<1> DEFINE k == SharedKey(t)
<1>1. /\ At(t, "length") /\ OpenFile(k) /\ createFile(th[t].path)
      /\ th' = [th EXCEPT ![t].pc = "fetch", ![t].raf = InodeOf(k),
                          ![t].len = LengthOf(th[t].path)]
      /\ UNCHANGED <<cache, opened, tables>>
  BY DEF FetchLength, getFileLength
<1>2. /\ th[t] \in Locals /\ LocalOK(th[t]) /\ th[t].path \in Paths
      /\ k \in Keys /\ k.fd = Shared /\ th[t].op # "CLOSE"
      /\ k.path = th[t].path /\ k.ver = th[t].ver
  <2>1. th[t].pc \notin Resting
    BY <1>1 DEF At, Resting
  <2>2. th[t].op # "CLOSE"
    BY <1>1, <2>1, Making DEF At, LocalOK, TakingFd, OpenOps
  <2> QED
    BY <2>1, <2>2, Making
<1>3. th'[t] = [th[t] EXCEPT !.pc = "fetch", !.raf = InodeOf(k), !.len = LengthOf(th[t].path)]
  BY <1>1 DEF TypeInv, ThreadsOK
<1>4. /\ th'[t].pc = "fetch" /\ th'[t].op = th[t].op /\ th'[t].path = th[t].path
      /\ th'[t].ver = th[t].ver /\ th'[t].pos = th[t].pos
      /\ th'[t].raf = InodeOf(k) /\ th'[t].len = LengthOf(th[t].path)
  BY <1>2, <1>3 DEF Locals
<1>5. /\ th[t].pos = 0 /\ th[t].path \in DOMAIN served /\ ~At(t, "dead")
      /\ th[t].path \notin ambiguous => Started(th[t])
  BY <1>1 DEF SessionInv, Opens, At, Succeeding
<1>6. served' = served /\ max_versions' = max_versions /\ ambiguous \subseteq ambiguous'
  BY <1>1, <1>5, HistoryGrows DEF createFile
<1>7. th'[t].len = Len(served[th[t].path]) /\ th'[t].len \in Nat
  BY <1>4, <1>5 DEF LengthOf, TypeInv, ServerOK
<1>8. SharedKey(t)' = k
  BY <1>4, SameKey
<1>9. \A j : ~UnderWay(t, j)
  BY <1>1, <1>2, NoneUnderWay DEF At
<1>10. FilesCurrent(t)' /\ NamesApart(t)' /\ Copies'
  <2>1. NoNewWriter /\ curr_fd' = curr_fd /\ Steady
    BY <1>1, <1>6, ServerSame DEF NoNewWriter, tables, serverVars
  <2>2. PICK j \in Keys : j = k
    BY <1>2
  <2>3. UnderWay(t, j)' /\ ~At(t, "writer")'
    BY <1>4, <1>8, <2>2 DEF UnderWay, At
  <2>4. j.fd < curr_fd /\ OpenFile(j)
    BY <1>1, <1>2, <2>2, SharedIsBelow
  <2>5. DOMAIN cache'.entries = DOMAIN cache.entries
    BY <1>1
  <2> QED
    BY <1>5, <1>9, <2>1, <2>3, <2>4, <2>5, FilesAtOpen
<1>11. k \in DOMAIN disk' /\ disk'[k] = InodeOf(k) /\ inodes'[InodeOf(k)] = Holds(k)
  BY <1>1, <1>2, OpenFileHolds
<1>12. ASSUME th[t].path \notin ambiguous PROVE Holds(k) = <<>>
  <2>1. CASE k \in DOMAIN disk
    <3>1. UpToDate(k)
      BY <1>2, <1>5, <1>9, <1>12, <2>1 DEF SessionInv, FilesCurrent
    <3>2. Holds(k) = served[th[t].path]
      BY <1>2, <1>5, <1>12, <3>1 DEF UpToDate, Started, Begun
    <3>3. Cached(Key(th[t].path, th[t].ver, Shared))
      BY <1>2, <3>1 DEF UpToDate, SharedKey
    <3> QED
      BY <1>1, <1>5, <1>12, <3>2, <3>3 DEF Started, At
  <2>2. CASE k \notin DOMAIN disk
    BY <2>2 DEF Holds
  <2> QED
    BY <2>1, <2>2
<1>13. Locks(t)' /\ Closing(t)'
  BY <1>2, <1>4 DEF Locks, Closing, At
<1>14. Opens(t)'
  <2>1. ASSUME th[t].path \notin ambiguous' PROVE Started(th[t])'
    <3>1. Begun(th[t])' /\ Holds(k) = <<>>
      BY <1>4, <1>5, <1>6, <1>12, <2>1, BegunStays DEF Started
    <3>2. Cached(Key(th[t].path, th[t].ver, Shared))' => served'[th'[t].path] = <<>>
      BY <1>1, <1>4, <1>5, <1>6, <2>1 DEF Started, Cached, At
    <3>3. SubSeq(served[th[t].path], 1, 0) = <<>>
      BY <1>5 DEF TypeInv, ServerOK
    <3>4. /\ th'[t].len = Len(served'[th'[t].path]) /\ th'[t].pos <= th'[t].len
          /\ inodes'[th'[t].raf] = SubSeq(served'[th'[t].path], 1, th'[t].pos)
      BY <1>4, <1>5, <1>6, <1>7, <1>11, <3>1, <3>3
    <3> QED
      BY <1>4, <3>1, <3>2, <3>4 DEF Started
  <2> QED
    BY <1>4, <1>8, <1>11, <2>1 DEF Opens, At
<1> QED
  BY <1>10, <1>13, <1>14 DEF SessionInv

LEMMA FetchChunkSession ==
    ASSUME TypeInv, TypeInv', NEW t \in Threads, SessionInv(t), History, FetchChunk(t)
    PROVE  SessionInv(t)'
<1> DEFINE k == SharedKey(t)
           p == th[t].path
           n == th[t].pos
<1>1. /\ At(t, "fetch") /\ n < th[t].len /\ HasChunk(p, n)
      /\ WriteChunk(th[t].raf, n, served[p][n + 1])
      /\ th' = [th EXCEPT ![t].pos = NextPos(@)]
      /\ UNCHANGED <<serverVars, opened, tables>>
  BY DEF FetchChunk
<1>2. /\ th[t] \in Locals /\ LocalOK(th[t]) /\ p \in Paths
      /\ k \in Keys /\ k.fd = Shared /\ th[t].op # "CLOSE"
      /\ n \in Nat /\ th[t].raf \in DOMAIN inodes
  <2>1. th[t].pc \notin Resting
    BY <1>1 DEF At, Resting
  <2>2. th[t].op # "CLOSE" /\ th[t].raf \in DOMAIN inodes
    BY <1>1, <2>1, Making DEF At, LocalOK, TakingFd, OpenOps
  <2> QED
    BY <2>1, <2>2, Making
<1>3. th'[t] = [th[t] EXCEPT !.pos = NextPos(@)]
  BY <1>1 DEF TypeInv, ThreadsOK
<1>4. /\ th'[t].pc = "fetch" /\ th'[t].op = th[t].op /\ th'[t].path = p
      /\ th'[t].ver = th[t].ver /\ th'[t].pos = n + 1
      /\ th'[t].raf = th[t].raf /\ th'[t].len = th[t].len
  BY <1>1, <1>2, <1>3 DEF Locals, NextPos, At
<1>5. /\ k \in DOMAIN disk /\ th[t].raf = disk[k] /\ ~At(t, "dead") /\ NamesApart(t)
      /\ p \notin ambiguous => Started(th[t])
  BY <1>1 DEF SessionInv, Opens, At, Succeeding
<1>6. served' = served /\ max_versions' = max_versions /\ ambiguous \subseteq ambiguous'
  BY <1>1, HistoryGrows DEF serverVars
<1>7. p \in DOMAIN served /\ served[p] \in Seq(Chunks) /\ n < Len(served[p])
         /\ served[p][n + 1] \in Chunks
  <2>1. p \in DOMAIN served /\ served[p] \in Seq(Chunks) /\ n < Len(served[p])
    BY <1>1 DEF HasChunk, TypeInv, ServerOK
  <2> QED
    BY <1>2, <2>1
<1>8. cache' = cache /\ disk' = disk
         /\ inodes' = [inodes EXCEPT ![th[t].raf] = Overlay(@, n, served[p][n + 1])]
  BY <1>1 DEF WriteChunk
<1>9. SharedKey(t)' = k
  BY <1>4, SameKey
<1>10. FilesCurrent(t)' /\ NamesApart(t)' /\ Copies'
  <2>1. Steady /\ ~At(t, "writer")'
    BY <1>1, <1>4, ServerSame DEF At
  <2>2. \A j \in Keys : UnderWay(t, j) => UnderWay(t, j)'
    BY <1>4, StillUnderWay DEF At
  <2>3. \A j \in DOMAIN disk : j.fd = Shared /\ disk[j] = th[t].raf => UnderWay(t, j)
    BY <1>1, <1>5 DEF NamesApart, UnderWay
  <2> QED
    BY <1>1, <1>2, <1>5, <1>7, <2>1, <2>2, <2>3, FilesAtWrite
<1>11. Locks(t)' /\ Closing(t)'
  BY <1>2, <1>4 DEF Locks, Closing, At
<1>12. Opens(t)'
  <2>1. ASSUME p \notin ambiguous' PROVE Started(th[t])'
    <3>1. Started(th[t]) /\ Begun(th[t])'
      BY <1>4, <1>5, <1>6, <2>1, BegunStays DEF Started
    <3>2. Cached(Key(th[t].path, th[t].ver, Shared))' => served'[th'[t].path] = <<>>
      BY <1>1, <1>4, <1>6, <1>8, <3>1 DEF Started, Cached, At
    <3>3. th[t].len = Len(served[p]) /\ inodes[th[t].raf] = SubSeq(served[p], 1, n)
      BY <1>1, <3>1 DEF Started, At
    <3>4. inodes'[th[t].raf] = SubSeq(served[p], 1, n + 1)
      <4>1. Overlay(SubSeq(served[p], 1, n), n, served[p][n + 1]) = SubSeq(served[p], 1, n + 1)
        BY <1>2, <1>7, OverlayExtends
      <4> QED
        BY <1>2, <1>8, <3>3, <4>1
    <3>5. n + 1 <= th[t].len
      BY <1>2, <1>7, <3>3
    <3> QED
      BY <1>4, <1>6, <3>1, <3>2, <3>3, <3>4, <3>5 DEF Started
  <2> QED
    BY <1>4, <1>5, <1>8, <1>9, <2>1 DEF Opens, At
<1> QED
  BY <1>10, <1>11, <1>12 DEF SessionInv

\* A client whose connection ended makes no more calls.
LEMMA DeadSession ==
    ASSUME TypeInv, NEW t \in Threads, Die(t)
    PROVE  SessionInv(t)'
<1>1. th'[t].pc = "dead"
  BY DEF Die, Idle, TypeInv, ThreadsOK
<1> QED
  BY <1>1 DEF SessionInv, At

\* The entries and the files that make room for k.
LEMMA PutFiles ==
    ASSUME CacheOK, FilesOK, NEW k \in Keys, Put(k)
    PROVE  /\ \E gone \in SUBSET DOMAIN cache.entries :
                /\ DOMAIN cache'.entries = (DOMAIN cache.entries \ gone) \cup {k}
                /\ DOMAIN disk' = DOMAIN disk \ gone
           /\ \A j \in DOMAIN disk' : disk'[j] = disk[j]
           /\ inodes' = inodes /\ InodesGrow
<1> DEFINE clients == IF k \in DOMAIN cache.clients THEN cache.clients
                      ELSE With(cache.clients, k, 0)
           size == cache.size + FileLength(k)
           counted == [cache EXCEPT
                         !.clients = IF k \in DOMAIN @ THEN @ ELSE With(@, k, 0),
                         !.size = @ + FileLength(k)]
           stale == IF k.fd = Shared THEN StaleEntries(counted, k) ELSE {}
           gone == stale \cup Evicted(counted, stale)
<1>1. /\ cache' = [Dropped(counted, gone) EXCEPT !.entries = Used(@, k)]
      /\ disk' = Without(disk, gone) /\ inodes' = inodes
  BY DEF Put
<1>2. counted = [entries |-> cache.entries, clients |-> clients, size |-> size]
  <2>1. counted = [cache EXCEPT !.clients = clients, !.size = size]
    OBVIOUS
  <2> HIDE DEF counted, clients, size
  <2>2. cache = [entries |-> cache.entries, clients |-> cache.clients, size |-> cache.size]
    BY DEF CacheOK
  <2>3. [cache EXCEPT !.clients = clients, !.size = size]
          = [entries |-> cache.entries, clients |-> clients, size |-> size]
    BY <2>2, ClientsAndSize
  <2> QED
    BY <2>1, <2>3
<1>3. size \in Int
  BY LengthTyped DEF CacheOK
<1> HIDE DEF clients, size, counted
<1>4. /\ counted = [entries |-> counted.entries, clients |-> counted.clients,
                    size |-> counted.size]
      /\ counted.entries = cache.entries /\ counted.clients = clients
      /\ counted.size = size
  BY <1>2
<1>5. gone \subseteq DOMAIN cache.entries
  BY <1>4 DEF StaleEntries, Evicted
<1> HIDE DEF gone
<1>6. IsFiniteSet(DOMAIN counted.entries) /\ counted.size \in Int
         /\ gone \in SUBSET DOMAIN counted.entries
  BY <1>3, <1>4, <1>5 DEF CacheOK
<1> DEFINE e == Left(cache.entries, gone)
           z == size - Total(gone)
<1>7. /\ Dropped(counted, gone) = [entries |-> e, clients |-> clients, size |-> z]
      /\ DOMAIN e = DOMAIN cache.entries \ gone /\ IsFiniteSet(DOMAIN e)
  <2>1. /\ Dropped(counted, gone) = [entries |-> Left(counted.entries, gone),
                                     clients |-> counted.clients,
                                     size |-> counted.size - Total(gone)]
        /\ DOMAIN Left(counted.entries, gone) = DOMAIN counted.entries \ gone
        /\ IsFiniteSet(DOMAIN Left(counted.entries, gone))
    BY <1>4, <1>6, DroppedTyped
  <2> QED
    BY <1>4, <2>1
<1> HIDE DEF e, z
<1>8. cache'.entries = Used(e, k)
  BY <1>1, <1>7
<1>9. DOMAIN Used(e, k) = DOMAIN e \cup {k}
  BY <1>7, UsedTyped
<1>10. InodesGrow /\ DOMAIN disk' = DOMAIN disk \ gone /\ \A j \in DOMAIN disk' : disk'[j] = disk[j]
  BY <1>1, WithoutFiles
<1> QED
  BY <1>1, <1>5, <1>7, <1>8, <1>9, <1>10

\* Cached files leave with their entries, or stay; k, which is under way or
\* nobody else's, is seen to.
LEMMA FilesAtPut ==
    ASSUME TypeInv, TypeInv', NEW t \in Threads, SessionInv(t), ~At(t, "dead"), History,
           Steady, NEW k \in Keys, Put(k), curr_fd <= curr_fd', ~At(t, "writer")',
           \A j \in Keys : UnderWay(t, j) => j = k \/ UnderWay(t, j)',
           k.fd = Shared /\ k.path \notin ambiguous' => UnderWay(t, k)' \/ UpToDate(k)'
    PROVE  /\ FilesCurrent(t)' /\ NamesApart(t)' /\ InodesGrow /\ NoNewShare
           /\ NoNewWriter => Copies'
<1>1. FilesCurrent(t) /\ NamesApart(t) /\ Copies
  BY DEF SessionInv
<1>2. ambiguous \subseteq ambiguous'
  BY HistoryGrows
<1>3. /\ \A j \in DOMAIN disk' : disk'[j] = disk[j]
      /\ inodes' = inodes /\ InodesGrow
  BY PutFiles DEF TypeInv
<1>4. PICK gone \in SUBSET DOMAIN cache.entries :
        /\ DOMAIN cache'.entries = (DOMAIN cache.entries \ gone) \cup {k}
        /\ DOMAIN disk' = DOMAIN disk \ gone
  BY PutFiles DEF TypeInv
<1>5. ASSUME NEW j \in Keys, j.fd = Shared, j.path \notin ambiguous', ~UnderWay(t, j)', j # k
      PROVE  ~UnderWay(t, j) /\ Kept(j) /\ SteadyAt(j.path)
  <2>1. Cached(j)' \/ j \in DOMAIN disk' => j \notin gone
    BY <1>4, <1>5 DEF Cached
  <2>2. j \in DOMAIN disk' <=> j \in DOMAIN disk /\ j \notin gone
    BY <1>4
  <2>3. j \notin gone => Holds(j)' = Holds(j)
    BY <1>3, <2>2 DEF Holds
  <2>4. Cached(j)' <=> Cached(j) /\ j \notin gone
    BY <1>4, <1>5 DEF Cached
  <2>5. Kept(j)
    BY <2>1, <2>2, <2>3, <2>4 DEF Kept
  <2> QED
    BY <1>5, <2>5 DEF Keys, Steady
<1>6. FilesCurrent(t)'
  BY <1>1, <1>2, <1>5, FilesStay
<1>7. NoNewName /\ NoNewShare
  BY <1>3, <1>4 DEF NoNewName, NoNewShare
<1>8. NamesApart(t)'
  BY <1>1, <1>7, NamesStay
<1>9. NoNewWriter => Copies'
  BY <1>1, <1>2, <1>3, <1>7, Steadily, CopiesStay
<1> QED
  BY <1>3, <1>6, <1>7, <1>8, <1>9

LEMMA CachePutSession ==
    ASSUME TypeInv, TypeInv', NEW t \in Threads, SessionInv(t), History, CachePut(t)
    PROVE  SessionInv(t)'
<1> DEFINE p == th[t].path
           pc == IF Reading(t) THEN "count" ELSE "unlock"
<1>1. /\ At(t, "fetch") /\ th[t].pos >= th[t].len /\ Put(SharedKey(t)) /\ Go(t, pc)
      /\ UNCHANGED <<serverVars, opened, tables>>
  BY DEF CachePut
<1>2. /\ th[t] \in Locals /\ LocalOK(th[t]) /\ p \in Paths
      /\ SharedKey(t) \in Keys /\ SharedKey(t).fd = Shared /\ th[t].op # "CLOSE"
      /\ SharedKey(t).path = p /\ SharedKey(t).ver = th[t].ver
      /\ th[t].pos \in Nat /\ th[t].len \in Nat /\ th[t].ver \in Nat
  <2>1. th[t].pc \notin Resting
    BY <1>1 DEF At, Resting
  <2>2. th[t].op # "CLOSE"
    BY <1>1, <2>1, Making DEF At, LocalOK, TakingFd, OpenOps
  <2> QED
    BY <2>1, <2>2, Making
<1>3. /\ th'[t].pc = pc /\ th'[t].op = th[t].op /\ th'[t].path = p
      /\ th'[t].ver = th[t].ver /\ th'[t].raf = th[t].raf
  BY <1>1, GoneOn DEF TypeInv, TakingFd
<1>4. PICK k \in Keys : k = SharedKey(t)
  BY <1>2
<1>5. /\ k \in DOMAIN disk /\ th[t].raf = disk[k] /\ ~At(t, "dead")
      /\ p \notin ambiguous => Started(th[t])
  BY <1>1, <1>4 DEF SessionInv, Opens, At, Succeeding
<1>6. served' = served /\ max_versions' = max_versions /\ ambiguous \subseteq ambiguous'
  BY <1>1, HistoryGrows DEF serverVars
<1>7. PICK gone \in SUBSET DOMAIN cache.entries :
        /\ DOMAIN cache'.entries = (DOMAIN cache.entries \ gone) \cup {k}
        /\ DOMAIN disk' = DOMAIN disk \ gone
  BY <1>1, <1>4, PutFiles DEF TypeInv
<1>8. inodes' = inodes /\ \A j \in DOMAIN disk' : disk'[j] = disk[j]
  BY <1>1, <1>4, PutFiles DEF TypeInv
<1>9. ASSUME p \notin ambiguous
      PROVE  /\ inodes[th[t].raf] = served[p] /\ p \in DOMAIN served
             /\ th[t].ver = Vers(p) /\ Vers(p) \in Nat /\ th[t].ver >= 1
             /\ p \notin DOMAIN max_versions => served[p] = <<>>
             /\ Cached(k) => served[p] = <<>>
  <2>1. Started(th[t]) /\ Begun(th[t])
    BY <1>5, <1>9 DEF Started
  <2>2. /\ th[t].len = Len(served[p]) /\ th[t].pos <= th[t].len
        /\ inodes[th[t].raf] = SubSeq(served[p], 1, th[t].pos)
    BY <1>1, <2>1 DEF Started, At
  <2>3. p \in DOMAIN served /\ served[p] \in Seq(Chunks)
    BY <2>1 DEF Begun, TypeInv, ServerOK
  <2>4. th[t].pos = Len(served[p])
    BY <1>1, <1>2, <2>2
  <2>5. inodes[th[t].raf] = served[p]
    BY <2>2, <2>3, <2>4
  <2>6. Vers(p) \in Nat
    BY VersTyped DEF TypeInv
  <2>7. Cached(k) => served[p] = <<>>
    BY <1>1, <1>2, <1>4, <2>1 DEF Started, SharedKey, At
  <2> QED
    BY <2>1, <2>5, <2>6, <2>7 DEF Begun
<1>10. ASSUME k.path \notin ambiguous' PROVE UpToDate(k)'
  <2>1. Cached(k)' /\ k.path = p /\ k.ver = th[t].ver
    BY <1>2, <1>4, <1>7 DEF Cached
  <2>2. Holds(k)' = served[p]
    <3>1. CASE k \in gone
      BY <1>5, <1>6, <1>7, <1>9, <1>10, <2>1, <3>1 DEF Cached, Holds
    <3>2. CASE k \notin gone
      BY <1>5, <1>6, <1>7, <1>8, <1>9, <1>10, <2>1, <3>2 DEF Holds
    <3> QED
      BY <3>1, <3>2
  <2>3. Vers(k.path)' = Vers(p)
    BY <1>6, <2>1 DEF Vers, Versioned
  <2> QED
    BY <1>6, <1>9, <1>10, <2>1, <2>2, <2>3 DEF UpToDate
<1>11. FilesCurrent(t)' /\ NamesApart(t)' /\ Copies'
  <2>1. Steady /\ ~At(t, "writer")' /\ NoNewWriter /\ curr_fd <= curr_fd'
    BY <1>1, <1>3, ServerSame DEF At, NoNewWriter, tables, TypeInv, FdsOK
  <2>2. \A j : UnderWay(t, j) => j = k
    BY <1>2, <1>4 DEF UnderWay
  <2>3. Put(k)
    BY <1>1, <1>4
  <2> QED
    BY <1>5, <1>10, <2>1, <2>2, <2>3, FilesAtPut
<1>12. Locks(t)' /\ Closing(t)'
  BY <1>2, <1>3 DEF Locks, Closing, At
<1>13. Opens(t)'
  <2>1. ASSUME p \notin ambiguous' PROVE Started(th[t])'
    <3>1. Begun(th[t])'
      BY <1>3, <1>5, <1>6, <2>1, BegunStays DEF Started
    <3>2. inodes'[th'[t].raf] = served'[th'[t].path]
      BY <1>3, <1>6, <1>8, <1>9, <2>1
    <3> QED
      BY <1>3, <3>1, <3>2 DEF Started
  <2> QED
    BY <1>3, <2>1 DEF Opens, At
<1> QED
  BY <1>11, <1>12, <1>13 DEF SessionInv

\* The steps from the cache to the descriptor.
LEMMA OnwardSession ==
    ASSUME TypeInv, TypeInv', NEW t \in Threads, SessionInv(t), History,
           th[t].pc \in {"count", "unlock", "fd", "bump"},
           th'[t].pc \in {"unlock", "fd", "bump", "reader", "writer"},
           th'[t].path = th[t].path, th'[t].op = th[t].op, th'[t].ver = th[t].ver,
           th'[t].raf = th[t].raf, th[t].pc = "count" => Reading(t),
           UNCHANGED <<serverVars, disk, inodes, fd_paths, fd_files>>,
           DOMAIN cache'.entries = DOMAIN cache.entries, curr_fd <= curr_fd',
           At(t, "writer")' => \A k \in DOMAIN disk : k.fd # th'[t].fd
    PROVE  SessionInv(t)'
<1>1. ~At(t, "dead") /\ th[t].op # "CLOSE" /\ ~At(t, "fetch")
  BY DEF At, TypeInv, ThreadsOK, LocalOK, TakingFd, OpenOps
<1>2. FilesCurrent(t)' /\ NamesApart(t)' /\ Copies'
  <2>1. \A k : ~UnderWay(t, k)
    BY <1>1, NoneUnderWay
  <2>2. Steady /\ NoNewWriter
    BY ServerSame DEF NoNewWriter
  <2> QED
    BY <1>1, <2>1, <2>2, FilesAtRest
<1>3. Locks(t)' /\ Closing(t)'
  BY <1>1 DEF Locks, Closing, At
<1>4. ASSUME th[t].path \notin ambiguous' PROVE Started(th[t])'
  <2>1. Started(th[t])
    BY <1>1, <1>4, HistoryGrows DEF SessionInv, Opens, Succeeding
  <2>2. Begun(th[t])'
    BY <2>1, BegunStays DEF Started, serverVars
  <2>3. th[t].op # "READ" => inodes[th[t].raf] = served[th[t].path]
    BY <2>1 DEF Started, Reading
  <2>4. th'[t].op # "READ" => inodes'[th'[t].raf] = served'[th'[t].path]
    BY <2>3 DEF serverVars
  <2> QED
    BY <2>2, <2>4 DEF Started
<1>5. Opens(t)'
  BY <1>4 DEF Opens, At
<1> QED
  BY <1>2, <1>3, <1>5 DEF SessionInv

LEMMA AddedEntries ==
    ASSUME CacheOK, NEW k, AddClient(k)
    PROVE  DOMAIN cache'.entries = DOMAIN cache.entries /\ UNCHANGED <<disk, inodes>>
<1>1. /\ cache' = [cache EXCEPT !.clients[k] = @ + 1] /\ UNCHANGED <<disk, inodes>>
      /\ cache = [entries |-> cache.entries, clients |-> cache.clients, size |-> cache.size]
  BY DEF AddClient, CacheOK
<1>2. cache'.entries = cache.entries
  BY <1>1
<1> QED
  BY <1>1, <1>2

LEMMA CountSession ==
    ASSUME TypeInv, TypeInv', NEW t \in Threads, SessionInv(t), History, Count(t)
    PROVE  SessionInv(t)'
<1>1. /\ th[t].pc = "count" /\ AddClient(SharedKey(t)) /\ Go(t, "unlock")
      /\ UNCHANGED <<serverVars, opened, tables>>
  BY DEF Count, At
<1>2. /\ th'[t].pc = "unlock" /\ th'[t].op = th[t].op /\ th'[t].path = th[t].path
      /\ th'[t].ver = th[t].ver /\ th'[t].raf = th[t].raf
  BY <1>1, GoneOn DEF TypeInv, TakingFd
<1>3. DOMAIN cache'.entries = DOMAIN cache.entries /\ UNCHANGED <<disk, inodes>>
  BY <1>1, AddedEntries DEF TypeInv
<1>4. Reading(t)
  BY <1>1 DEF TypeInv, ThreadsOK, LocalOK, Reading
<1>5. ~At(t, "writer")' /\ curr_fd <= curr_fd' /\ UNCHANGED <<serverVars, fd_paths, fd_files>>
  BY <1>1, <1>2 DEF At, tables, TypeInv, FdsOK
<1> QED
  BY <1>1, <1>2, <1>3, <1>4, <1>5, OnwardSession

LEMMA UnlockSession ==
    ASSUME TypeInv, TypeInv', NEW t \in Threads, SessionInv(t), History, Unlock(t)
    PROVE  SessionInv(t)'
<1>1. /\ th[t].pc = "unlock" /\ Go(t, "fd") /\ UNCHANGED <<serverVars, cacheVars, opened, tables>>
  BY DEF Unlock, At
<1>2. /\ th'[t].pc = "fd" /\ th'[t].op = th[t].op /\ th'[t].path = th[t].path
      /\ th'[t].ver = th[t].ver /\ th'[t].raf = th[t].raf
  BY <1>1, GoneOn DEF TypeInv, TakingFd
<1>3. DOMAIN cache'.entries = DOMAIN cache.entries /\ UNCHANGED <<disk, inodes>>
  BY <1>1 DEF cacheVars
<1>4. ~At(t, "writer")' /\ curr_fd <= curr_fd' /\ UNCHANGED <<serverVars, fd_paths, fd_files>>
  BY <1>1, <1>2 DEF At, tables, TypeInv, FdsOK
<1> QED
  BY <1>1, <1>2, <1>3, <1>4, OnwardSession

LEMMA ReadFdSession ==
    ASSUME TypeInv, TypeInv', NEW t \in Threads, SessionInv(t), History, ReadFd(t)
    PROVE  SessionInv(t)'
<1>1. /\ th[t].pc = "fd" /\ th' = [th EXCEPT ![t].pc = "bump", ![t].fd = curr_fd]
      /\ UNCHANGED <<serverVars, cacheVars, opened, tables>>
  BY DEF ReadFd, At
<1>2. th[t] \in Locals /\ th'[t] = [th[t] EXCEPT !.pc = "bump", !.fd = curr_fd]
  BY <1>1 DEF TypeInv, ThreadsOK
<1>3. /\ th'[t].pc = "bump" /\ th'[t].op = th[t].op /\ th'[t].path = th[t].path
      /\ th'[t].ver = th[t].ver /\ th'[t].raf = th[t].raf
  BY <1>2 DEF Locals
<1>4. DOMAIN cache'.entries = DOMAIN cache.entries /\ UNCHANGED <<disk, inodes>>
  BY <1>1 DEF cacheVars
<1>5. ~At(t, "writer")' /\ curr_fd <= curr_fd' /\ UNCHANGED <<serverVars, fd_paths, fd_files>>
  BY <1>1, <1>3 DEF At, tables, TypeInv, FdsOK
<1> QED
  BY <1>1, <1>3, <1>4, <1>5, OnwardSession

\* Without a race the descriptor is curr_fd, above all names.
LEMMA BumpFdSession ==
    ASSUME TypeInv, TypeInv', NEW t \in Threads, SessionInv(t), History, ~raced, BumpFd(t)
    PROVE  SessionInv(t)'
<1> DEFINE pc == IF Reading(t) THEN "reader" ELSE "writer"
<1>1. /\ th[t].pc = "bump" /\ Go(t, pc) /\ curr_fd' = th[t].fd + 1
      /\ UNCHANGED <<serverVars, cacheVars, opened, fd_paths, fd_files>>
  BY DEF BumpFd, At
<1>2. /\ th'[t].pc = pc /\ th'[t].op = th[t].op /\ th'[t].path = th[t].path
      /\ th'[t].ver = th[t].ver /\ th'[t].raf = th[t].raf /\ th'[t].fd = th[t].fd
  BY <1>1, GoneOn DEF TypeInv, UsingFd
<1>3. DOMAIN cache'.entries = DOMAIN cache.entries /\ UNCHANGED <<disk, inodes>>
  BY <1>1 DEF cacheVars
<1>4. th[t].fd = curr_fd /\ curr_fd \in Nat
  BY <1>1 DEF TypeInv, FdsOK, At
<1>5. NamesApart(t)
  BY <1>1 DEF SessionInv, At
<1>6. \A k \in DOMAIN disk : k.fd # th'[t].fd
  <2>1. \A k \in DOMAIN disk : k.fd < curr_fd
    BY <1>5 DEF NamesApart
  <2> QED
    BY <1>2, <1>4, <2>1
<1>7. curr_fd <= curr_fd'
  BY <1>1, <1>4
<1> QED
  BY <1>1, <1>2, <1>3, <1>6, <1>7, OnwardSession

LEMMA OpenReaderSession ==
    ASSUME TypeInv, TypeInv', NEW t \in Threads, SessionInv(t), History, OpenReader(t)
    PROVE  SessionInv(t)'
<1>1. /\ At(t, "reader") /\ th' = [th EXCEPT ![t] = Idle] /\ fd_paths' = Named(t, FALSE)
      /\ \/ fd_files' = With(fd_files, th[t].fd, disk[SharedKey(t)])
         \/ fd_files' = fd_files
      /\ UNCHANGED <<serverVars, cacheVars, curr_fd>>
  BY DEF OpenReader, Return
<1>2. th'[t] = Idle /\ th'[t].pc = "idle" /\ th[t].op # "CLOSE"
  BY <1>1 DEF TypeInv, ThreadsOK, Idle, LocalOK, At, UsingFd, OpenOps
<1>3. NoNewWriter
  <2>1. ASSUME NEW fd \in DOMAIN fd_paths', fd_paths'[fd].write
        PROVE  /\ fd \in DOMAIN fd_paths /\ fd_paths'[fd] = fd_paths[fd]
               /\ fd_files'[fd] = fd_files[fd]
    <3>1. fd # th[t].fd
      BY <1>1, <2>1 DEF Named, With
    <3>2. fd \in DOMAIN fd_paths /\ fd_paths'[fd] = fd_paths[fd]
      BY <1>1, <3>1 DEF Named, With
    <3>3. fd \in DOMAIN fd_files
      BY <2>1, <3>2 DEF TypeInv, TablesOK
    <3> QED
      BY <1>1, <3>1, <3>2, <3>3 DEF With
  <2> QED
    BY <2>1 DEF NoNewWriter
<1>4. FilesCurrent(t)' /\ NamesApart(t)' /\ Copies'
  <2>1. \A k : ~UnderWay(t, k)
    BY <1>1, <1>2, NoneUnderWay DEF At
  <2>2. curr_fd <= curr_fd' /\ Steady
    BY <1>1, ServerSame DEF TypeInv, FdsOK
  <2>3. ~At(t, "dead") /\ ~At(t, "writer")'
    BY <1>1, <1>2 DEF At
  <2>4. DOMAIN cache'.entries = DOMAIN cache.entries /\ UNCHANGED <<disk, inodes>>
    BY <1>1 DEF cacheVars
  <2> QED
    BY <1>3, <2>1, <2>2, <2>3, <2>4, FilesAtRest
<1> QED
  BY <1>2, <1>4, NothingToDo DEF SessionInv

\* The copy is a new and empty file.
LEMMA OpenWriterSession ==
    ASSUME TypeInv, TypeInv', HeldInv, ~raced, NEW t \in Threads, SessionInv(t), History,
           OpenWriter(t)
    PROVE  SessionInv(t)'
<1> DEFINE p == th[t].path
<1>1. /\ At(t, "writer") /\ OpenFile(CopyKey(t))
      /\ th' = [th EXCEPT ![t].pc = "copy", ![t].pos = 0,
                          ![t].copy = InodeOf(CopyKey(t)),
                          ![t].len = Len(inodes[th[t].raf])]
      /\ UNCHANGED <<serverVars, cache, opened, tables>>
  BY DEF OpenWriter
<1>2. /\ th[t] \in Locals /\ LocalOK(th[t]) /\ p \in Paths
      /\ th[t].raf \in DOMAIN inodes /\ th[t].op # "CLOSE" /\ th[t].op # "READ"
      /\ th[t].fd \in Fds /\ CopyKey(t) \in Keys
  BY <1>1, KeysOfThread
  DEF TypeInv, ThreadsOK, LocalOK, At, UsingFd, OpenOps, CopyKey, Resting
<1>3. PICK k \in Keys : k = CopyKey(t)
  BY <1>2
<1>4. k.fd = th[t].fd /\ k.fd # Shared /\ k \notin DOMAIN disk /\ ~At(t, "dead") /\ NamesApart(t)
  <2>1. k.fd = th[t].fd /\ k.fd # Shared
    BY <1>2, <1>3 DEF CopyKey, Key, Fds, FirstFd, Shared
  <2>2. ~At(t, "dead") /\ NamesApart(t)
    BY <1>1 DEF SessionInv, At
  <2> QED
    BY <1>1, <2>1, <2>2 DEF NamesApart
<1>5. th'[t] = [th[t] EXCEPT !.pc = "copy", !.pos = 0, !.copy = InodeOf(k),
                             !.len = Len(inodes[th[t].raf])]
  BY <1>1, <1>3 DEF TypeInv, ThreadsOK
<1>6. /\ th'[t].pc = "copy" /\ th'[t].op = th[t].op /\ th'[t].path = p
      /\ th'[t].ver = th[t].ver /\ th'[t].pos = 0 /\ th'[t].raf = th[t].raf
      /\ th'[t].fd = th[t].fd
      /\ th'[t].copy = InodeOf(k) /\ th'[t].len = Len(inodes[th[t].raf])
  BY <1>2, <1>5 DEF Locals
<1>7. served' = served /\ max_versions' = max_versions /\ ambiguous \subseteq ambiguous'
  BY <1>1, HistoryGrows DEF serverVars
<1>8. /\ k \in DOMAIN disk' /\ disk'[k] = InodeOf(k) /\ inodes'[InodeOf(k)] = <<>>
      /\ inodes'[th[t].raf] = inodes[th[t].raf] /\ InodeOf(k) # th[t].raf
  <2>1. /\ k \in DOMAIN disk' /\ disk'[k] = InodeOf(k) /\ inodes'[InodeOf(k)] = Holds(k)
        /\ inodes'[th[t].raf] = inodes[th[t].raf]
    BY <1>1, <1>2, <1>3, OpenFileHolds
  <2>2. Holds(k) = <<>>
    BY <1>4 DEF Holds
  <2>3. InodeOf(k) # th[t].raf
    BY <1>2, <1>4 DEF InodeOf, TypeInv, FilesOK
  <2> QED
    BY <2>1, <2>2, <2>3
<1>9. CopyKey(t)' = k
  BY <1>3, <1>6 DEF CopyKey
<1>10. FilesCurrent(t)' /\ NamesApart(t)' /\ Copies'
  <2>1. Steady /\ NoNewWriter /\ curr_fd' = curr_fd /\ ~At(t, "writer")'
    BY <1>1, <1>6, ServerSame DEF NoNewWriter, tables, At
  <2>2. \A j : ~UnderWay(t, j)
    BY <1>1, <1>2, NoneUnderWay DEF At
  <2>3. OpenFile(k) /\ DOMAIN cache'.entries = DOMAIN cache.entries
    BY <1>1, <1>3
  <2>4. k.fd < curr_fd
    BY <1>1, <1>4 DEF HeldInv, FdsApart, At, UsingFd
  <2> QED
    BY <1>4, <2>1, <2>2, <2>3, <2>4, FilesAtOpen
<1>11. Locks(t)' /\ Closing(t)'
  BY <1>2, <1>6 DEF Locks, Closing, At
<1>12. ASSUME p \notin ambiguous' PROVE Started(th[t])'
  <2>1. Started(th[t])
    BY <1>1, <1>4, <1>7, <1>12 DEF SessionInv, Opens, Succeeding, At
  <2>2. Begun(th[t])'
    BY <1>6, <1>7, <2>1, BegunStays DEF Started
  <2>3. inodes[th[t].raf] = served[p] /\ p \in DOMAIN served
    BY <1>1, <1>2, <2>1 DEF Started, Begun, At
  <2>4. served[p] \in Seq(Chunks) /\ Len(served[p]) >= 0
    BY <2>3 DEF TypeInv, ServerOK
  <2>5. SubSeq(served[p], 1, 0) = <<>>
    BY <2>4
  <2> QED
    BY <1>6, <1>7, <1>8, <2>2, <2>3, <2>4, <2>5 DEF Started
<1>13. Opens(t)'
  BY <1>6, <1>8, <1>9, <1>12 DEF Opens, At
<1> QED
  BY <1>10, <1>11, <1>13 DEF SessionInv

LEMMA CopyChunkSession ==
    ASSUME TypeInv, TypeInv', NEW t \in Threads, SessionInv(t), History, CopyChunk(t)
    PROVE  SessionInv(t)'
<1> DEFINE p == th[t].path
           n == th[t].pos
<1>1. /\ At(t, "copy") /\ n < th[t].len
      /\ WriteChunk(th[t].copy, n, inodes[th[t].raf][n + 1])
      /\ th' = [th EXCEPT ![t].pos = NextPos(@)]
      /\ UNCHANGED <<serverVars, opened, tables>>
  BY DEF CopyChunk
<1>2. /\ th[t] \in Locals /\ LocalOK(th[t]) /\ p \in Paths /\ n \in Nat /\ th[t].len \in Nat
      /\ th[t].raf \in DOMAIN inodes /\ th[t].copy \in DOMAIN inodes
      /\ th[t].len <= Len(inodes[th[t].raf])
      /\ th[t].op # "CLOSE" /\ th[t].op # "READ" /\ th[t].fd \in Fds
  BY <1>1 DEF TypeInv, ThreadsOK, LocalOK, Locals, At, UsingFd, OpenOps, Resting
<1>3. th'[t] = [th[t] EXCEPT !.pos = NextPos(@)]
  BY <1>1 DEF TypeInv, ThreadsOK
<1>4. /\ th'[t].pc = "copy" /\ th'[t].op = th[t].op /\ th'[t].path = p
      /\ th'[t].ver = th[t].ver /\ th'[t].pos = n + 1 /\ th'[t].fd = th[t].fd
      /\ th'[t].raf = th[t].raf /\ th'[t].len = th[t].len /\ th'[t].copy = th[t].copy
  BY <1>1, <1>2, <1>3 DEF Locals, NextPos, At
<1>5. /\ CopyKey(t) \in DOMAIN disk /\ th[t].copy = disk[CopyKey(t)]
      /\ th[t].raf # th[t].copy /\ ~At(t, "dead") /\ NamesApart(t)
      /\ p \notin ambiguous => Started(th[t])
  BY <1>1 DEF SessionInv, Opens, At, Succeeding
<1>6. served' = served /\ max_versions' = max_versions /\ ambiguous \subseteq ambiguous'
  BY <1>1, HistoryGrows DEF serverVars
<1>7. inodes[th[t].raf] \in Seq(Chunks) /\ n < Len(inodes[th[t].raf])
         /\ inodes[th[t].raf][n + 1] \in Chunks
  <2>1. inodes[th[t].raf] \in Seq(Chunks)
    BY <1>2 DEF TypeInv, FilesOK
  <2> QED
    BY <1>1, <1>2, <2>1
<1>8. /\ cache' = cache /\ disk' = disk
      /\ inodes' = [inodes EXCEPT ![th[t].copy] = Overlay(@, n, inodes[th[t].raf][n + 1])]
      /\ inodes'[th[t].raf] = inodes[th[t].raf]
  BY <1>1, <1>2, <1>5 DEF WriteChunk
<1>9. CopyKey(t)' = CopyKey(t)
  BY <1>4 DEF CopyKey
<1>10. FilesCurrent(t)' /\ NamesApart(t)' /\ Copies'
  <2>1. Steady /\ ~At(t, "writer")'
    BY <1>1, <1>4, ServerSame DEF At
  <2>2. \A j : ~UnderWay(t, j)
    BY <1>1, <1>2, NoneUnderWay DEF At
  <2>3. CopyKey(t).fd # Shared
    BY <1>2 DEF CopyKey, Key, Fds, FirstFd, Shared
  <2>4. \A j \in DOMAIN disk : j.fd = Shared => disk[j] # th[t].copy
    BY <1>5, <2>3 DEF NamesApart
  <2> QED
    BY <1>1, <1>2, <1>5, <1>7, <2>1, <2>2, <2>4, FilesAtWrite
<1>11. Locks(t)' /\ Closing(t)'
  BY <1>2, <1>4 DEF Locks, Closing, At
<1>12. ASSUME p \notin ambiguous' PROVE Started(th[t])'
  <2>1. Started(th[t]) /\ Begun(th[t])'
    BY <1>4, <1>5, <1>6, <1>12, BegunStays DEF Started
  <2>2. /\ th[t].len = Len(served[p]) /\ inodes[th[t].copy] = SubSeq(served[p], 1, n)
        /\ inodes[th[t].raf] = served[p]
    BY <1>1, <1>2, <2>1 DEF Started, At
  <2>3. inodes'[th[t].copy] = SubSeq(served[p], 1, n + 1)
    <3>1. Overlay(SubSeq(served[p], 1, n), n, served[p][n + 1]) = SubSeq(served[p], 1, n + 1)
      BY <1>2, <1>7, <2>2, OverlayExtends
    <3> QED
      BY <1>2, <1>8, <2>2, <3>1
  <2>4. n + 1 <= th[t].len
    BY <1>1, <1>2
  <2> QED
    BY <1>4, <1>6, <1>8, <2>1, <2>2, <2>3, <2>4 DEF Started
<1>13. Opens(t)'
  BY <1>4, <1>5, <1>8, <1>9, <1>12 DEF Opens, At
<1> QED
  BY <1>10, <1>11, <1>13 DEF SessionInv

\* The copy has the server's content, and no other name has its inode.
LEMMA PutCopySession ==
    ASSUME TypeInv, TypeInv', NEW t \in Threads, SessionInv(t), History, PutCopy(t)
    PROVE  SessionInv(t)'
<1> DEFINE p == th[t].path
           d == th[t].fd
<1>1. /\ At(t, "copy") /\ th[t].pos >= th[t].len
      /\ fd_paths' = Named(t, TRUE) /\ fd_files' = With(fd_files, d, th[t].copy)
      /\ Put(CopyKey(t)) /\ Go(t, "own") /\ UNCHANGED <<serverVars, opened, curr_fd>>
  BY DEF PutCopy
<1>2. /\ th[t] \in Locals /\ LocalOK(th[t]) /\ p \in Paths
      /\ th[t].pos \in Nat /\ th[t].len \in Nat /\ th[t].ver \in Nat
      /\ th[t].copy \in DOMAIN inodes
      /\ th[t].op # "CLOSE" /\ th[t].op # "READ" /\ d \in Fds
  BY <1>1 DEF TypeInv, ThreadsOK, LocalOK, Locals, At, UsingFd, OpenOps, Resting
<1>3. /\ th'[t].pc = "own" /\ th'[t].op = th[t].op /\ th'[t].path = p
      /\ th'[t].ver = th[t].ver /\ th'[t].fd = d /\ th'[t].copy = th[t].copy
  BY <1>1, GoneOn DEF TypeInv, UsingFd
<1>4. /\ CopyKey(t) \in DOMAIN disk /\ th[t].copy = disk[CopyKey(t)]
      /\ ~At(t, "dead") /\ NamesApart(t) /\ Copies
      /\ p \notin ambiguous => Started(th[t])
  BY <1>1 DEF SessionInv, Opens, At, Succeeding
<1>5. PICK k \in Keys : k = CopyKey(t)
  BY <1>4 DEF TypeInv, FilesOK
<1>6. served' = served /\ max_versions' = max_versions /\ ambiguous \subseteq ambiguous'
  BY <1>1, HistoryGrows DEF serverVars
<1>7. k.fd # Shared
  BY <1>2, <1>5 DEF CopyKey, Key, Fds, FirstFd, Shared
<1>8. FilesCurrent(t)' /\ NamesApart(t)' /\ InodesGrow /\ NoNewShare
  <2>1. Steady /\ ~At(t, "writer")' /\ curr_fd <= curr_fd'
    BY <1>1, <1>3, ServerSame DEF At, TypeInv, FdsOK
  <2>2. \A j : ~UnderWay(t, j)
    BY <1>1, <1>2, NoneUnderWay DEF At
  <2>3. Put(k)
    BY <1>1, <1>5
  <2> QED
    BY <1>4, <1>7, <2>1, <2>2, <2>3, FilesAtPut
<1>9. inodes' = inodes
  BY <1>1, <1>5, PutFiles DEF TypeInv
<1>10. /\ d \in DOMAIN fd_paths' /\ d \in DOMAIN fd_files' /\ fd_files'[d] = th[t].copy
       /\ fd_paths'[d] = [path |-> p, ver |-> th[t].ver, write |-> TRUE]
       /\ \A fd \in DOMAIN fd_paths' : fd # d =>
            fd \in DOMAIN fd_paths /\ fd_paths'[fd] = fd_paths[fd]
       /\ \A fd \in DOMAIN fd_files : fd # d => fd_files'[fd] = fd_files[fd]
  BY <1>1 DEF Named, With
<1>11. ASSUME p \notin ambiguous
       PROVE  /\ Started(th[t]) /\ Begun(th[t]) /\ inodes[th[t].copy] = served[p]
              /\ served[p] \in Seq(Chunks)
  <2>1. Started(th[t]) /\ Begun(th[t])
    BY <1>4, <1>11 DEF Started
  <2>2. /\ th[t].len = Len(served[p]) /\ th[t].pos <= th[t].len
        /\ inodes[th[t].copy] = SubSeq(served[p], 1, th[t].pos)
    BY <1>1, <2>1 DEF Started, At
  <2>3. served[p] \in Seq(Chunks)
    BY <2>1 DEF Begun, TypeInv, ServerOK
  <2>4. th[t].pos = Len(served[p])
    BY <1>1, <1>2, <2>2
  <2> QED
    BY <2>1, <2>2, <2>3, <2>4
<1>12. PICK c, q, v : c = th[t].copy /\ q = p /\ v = th[t].ver
  OBVIOUS
<1>13. Private(c) /\ Covers(c, q, v)
  <2>1. Private(c)
    BY <1>4, <1>5, <1>7, <1>12 DEF Private, NamesApart
  <2>2. ASSUME p \notin ambiguous
        PROVE  /\ v \in 1..Vers(q)
               /\ v = Vers(q) /\ q \in DOMAIN served => Len(served[q]) <= Len(inodes[c])
    <3>1. v = Vers(q) /\ v >= 1 /\ v \in Nat
      BY <1>2, <1>11, <1>12, <2>2 DEF Begun
    <3>2. Len(served[q]) <= Len(inodes[c])
      BY <1>11, <1>12, <2>2
    <3> QED
      BY <3>1, <3>2
  <2>3. Covers(c, q, v)
    BY <1>12, <2>2 DEF Covers
  <2> QED
    BY <2>1, <2>3
<1>14. Private(c)' /\ Covers(c, q, v)'
  <2>1. Private(c)'
    BY <1>2, <1>8, <1>12, <1>13, PrivateStays
  <2>2. Vers(q)' = Vers(q)
    BY <1>6 DEF Vers, Versioned
  <2>3. Covers(c, q, v)'
    BY <1>6, <1>9, <1>13, <2>2 DEF Covers
  <2> QED
    BY <2>1, <2>3
<1>15. Copies'
  <2> SUFFICES ASSUME NEW fd \in DOMAIN fd_paths', fd_paths'[fd].write
               PROVE  (/\ Private(fd_files[fd])
                       /\ Covers(fd_files[fd], fd_paths[fd].path, fd_paths[fd].ver))'
    BY DEF Copies
  <2>1. CASE fd = d
    BY <1>10, <1>12, <1>14, <2>1
  <2>2. CASE fd # d
    <3>1. /\ fd \in DOMAIN fd_paths /\ fd_paths'[fd] = fd_paths[fd]
          /\ fd_files'[fd] = fd_files[fd] /\ fd_paths[fd].write
      BY <1>10, <2>2 DEF TypeInv, TablesOK
    <3>2. fd_files[fd] \in DOMAIN inodes
      BY <3>1 DEF TypeInv, TablesOK
    <3>3. PICK i, r, w : /\ i \in DOMAIN inodes /\ i = fd_files[fd]
                         /\ r = fd_paths[fd].path /\ w = fd_paths[fd].ver
      BY <3>2
    <3>4. Private(i) /\ Covers(i, r, w)
      BY <1>4, <3>1, <3>3 DEF Copies
    <3>5. Private(i)'
      BY <1>8, <3>3, <3>4, PrivateStays
    <3>6. Vers(r)' = Vers(r)
      BY <1>6 DEF Vers, Versioned
    <3>7. Covers(i, r, w)'
      BY <1>6, <1>9, <3>4, <3>6 DEF Covers
    <3> QED
      BY <3>1, <3>3, <3>5, <3>7
  <2> QED
    BY <2>1, <2>2
<1>16. Locks(t)' /\ Closing(t)'
  BY <1>2, <1>3 DEF Locks, Closing, At
<1>17. ASSUME p \notin ambiguous' PROVE Started(th[t])'
  <2>1. Begun(th[t])'
    BY <1>3, <1>6, <1>11, <1>17, BegunStays
  <2>2. inodes'[th'[t].copy] = served'[th'[t].path]
    BY <1>3, <1>6, <1>9, <1>11, <1>17
  <2> QED
    BY <1>3, <2>1, <2>2 DEF Started
<1>18. Opens(t)'
  BY <1>3, <1>10, <1>17 DEF Opens, At
<1> QED
  BY <1>8, <1>15, <1>16, <1>18 DEF SessionInv

LEMMA OwnCopySession ==
    ASSUME TypeInv, TypeInv', NEW t \in Threads, SessionInv(t), History, OwnCopy(t)
    PROVE  SessionInv(t)'
<1>1. /\ At(t, "own") /\ AddClient(CopyKey(t)) /\ th' = [th EXCEPT ![t] = Idle]
      /\ UNCHANGED <<serverVars, tables>>
  BY DEF OwnCopy, Return
<1>2. th'[t] = Idle /\ th'[t].pc = "idle" /\ th[t].op # "CLOSE"
  BY <1>1 DEF TypeInv, ThreadsOK, Idle, LocalOK, At, UsingFd, OpenOps
<1>3. FilesCurrent(t)' /\ NamesApart(t)' /\ Copies'
  <2>1. \A k : ~UnderWay(t, k)
    BY <1>1, <1>2, NoneUnderWay DEF At
  <2>2. NoNewWriter /\ curr_fd <= curr_fd' /\ Steady
    BY <1>1, ServerSame DEF NoNewWriter, tables, TypeInv, FdsOK
  <2>3. ~At(t, "dead") /\ ~At(t, "writer")'
    BY <1>1, <1>2 DEF At
  <2>4. DOMAIN cache'.entries = DOMAIN cache.entries /\ UNCHANGED <<disk, inodes>>
    BY <1>1, AddedEntries DEF TypeInv
  <2> QED
    BY <2>1, <2>2, <2>3, <2>4, FilesAtRest
<1> QED
  BY <1>2, <1>3, NothingToDo DEF SessionInv

-----------------------------------------------------------------------------
(* write, unlink and what needs no close                                   *)

LEMMA NoCall ==
    ASSUME TypeInv, NEW t \in Threads, At(t, "idle"), th' = th
    PROVE  /\ \A k : ~UnderWay(t, k)
           /\ ~At(t, "dead") /\ ~At(t, "writer")'
           /\ Locks(t)' /\ Opens(t)' /\ Closing(t)'
<1>1. th[t].op = "none" /\ th[t].pc = "idle"
  BY DEF TypeInv, ThreadsOK, LocalOK, At, Resting
<1>2. \A k : ~UnderWay(t, k)
  BY <1>1, NoneUnderWay DEF At
<1> QED
  BY <1>1, <1>2 DEF At, Locks, Opens, Closing, Succeeding

LEMMA WriteSession ==
    ASSUME TypeInv, TypeInv', NEW t \in Threads, SessionInv(t), History,
           NEW fd, NEW pos \in Nat, Write(t, fd, pos)
    PROVE  SessionInv(t)'
<1>1. /\ At(t, "idle") /\ fd \in DOMAIN fd_paths /\ fd_paths[fd].write
      /\ WriteChunk(fd_files[fd], pos, fd) /\ UNCHANGED <<serverVars, th, tables>>
  BY DEF Write
<1>2. fd_files[fd] \in DOMAIN inodes /\ fd \in Chunks
  BY <1>1, ProxyAssumption DEF TypeInv, TablesOK
<1>3. Private(fd_files[fd])
  BY <1>1 DEF SessionInv, Copies, At
<1>4. /\ \A k : ~UnderWay(t, k)
      /\ ~At(t, "dead") /\ ~At(t, "writer")' /\ Locks(t)' /\ Opens(t)' /\ Closing(t)'
  BY <1>1, NoCall
<1>5. FilesCurrent(t)' /\ NamesApart(t)' /\ Copies'
  <2>1. \A j \in DOMAIN disk : j.fd = Shared => disk[j] # fd_files[fd]
    BY <1>3 DEF Private
  <2> QED
    BY <1>1, <1>2, <1>4, <2>1, ServerSame, FilesAtWrite
<1> QED
  BY <1>4, <1>5 DEF SessionInv

LEMMA UnlinkSession ==
    ASSUME TypeInv, TypeInv', NEW t \in Threads, SessionInv(t), History, NEW p, Unlink(t, p)
    PROVE  SessionInv(t)'
<1>1. /\ At(t, "idle") /\ served' = Without(served, {p}) /\ max_versions' = max_versions
      /\ UNCHANGED <<cacheVars, th, tables>>
  BY DEF Unlink, deleteFile
<1>2. Steady
  BY <1>1 DEF Steady, SteadyAt, Without, Vers, Versioned
<1>3. /\ \A k : ~UnderWay(t, k)
      /\ ~At(t, "dead") /\ ~At(t, "writer")' /\ Locks(t)' /\ Opens(t)' /\ Closing(t)'
  BY <1>1, NoCall
<1>4. FilesCurrent(t)' /\ NamesApart(t)' /\ Copies'
  <2>1. NoNewWriter /\ curr_fd <= curr_fd'
    BY <1>1 DEF NoNewWriter, tables, TypeInv, FdsOK
  <2>2. DOMAIN cache'.entries = DOMAIN cache.entries /\ UNCHANGED <<disk, inodes>>
    BY <1>1 DEF cacheVars
  <2> QED
    BY <1>2, <1>3, <2>1, <2>2, FilesAtRest
<1> QED
  BY <1>3, <1>4 DEF SessionInv

LEMMA CloseLostSession ==
    ASSUME TypeInv, TypeInv', NEW t \in Threads, SessionInv(t), History, NEW fd,
           CloseLost(t, fd)
    PROVE  SessionInv(t)'
<1>1. At(t, "idle") /\ UNCHANGED <<serverVars, cacheVars, th, tables>>
  BY DEF CloseLost, Closes
<1>2. /\ \A k : ~UnderWay(t, k)
      /\ ~At(t, "dead") /\ ~At(t, "writer")' /\ Locks(t)' /\ Opens(t)' /\ Closing(t)'
  BY <1>1, NoCall
<1>3. FilesCurrent(t)' /\ NamesApart(t)' /\ Copies'
  <2>1. NoNewWriter /\ curr_fd <= curr_fd' /\ Steady
    BY <1>1, ServerSame DEF NoNewWriter, tables, TypeInv, FdsOK
  <2>2. DOMAIN cache'.entries = DOMAIN cache.entries /\ UNCHANGED <<disk, inodes>>
    BY <1>1 DEF cacheVars
  <2> QED
    BY <1>2, <2>1, <2>2, FilesAtRest
<1> QED
  BY <1>2, <1>3 DEF SessionInv

-----------------------------------------------------------------------------
(* close                                                                   *)

\* Files leave the cache directory with their entries.
GivenUp ==
    /\ \E gone : /\ DOMAIN cache'.entries = DOMAIN cache.entries \ gone
                 /\ DOMAIN disk' = DOMAIN disk \ gone
    /\ \A j \in DOMAIN disk' : disk'[j] = disk[j]
    /\ inodes' = inodes /\ InodesGrow

LEMMA ReaderGivenUp ==
    ASSUME CacheOK, FilesOK, NEW k, RemoveReader(k)
    PROVE  GivenUp
<1> DEFINE clients == [cache.clients EXCEPT ![k] = OneClientLess(@)]
           touched == Touched(cache, k)
           left == [touched EXCEPT !.clients[k] = OneClientLess(@)]
           stale == StaleEntries(left, k)
<1>1. cache' = Dropped(left, stale) /\ disk' = Without(disk, stale) /\ inodes' = inodes
  BY DEF RemoveReader
<1>2. /\ touched = [entries |-> touched.entries, clients |-> cache.clients,
                    size |-> cache.size]
      /\ IsFiniteSet(DOMAIN touched.entries)
      /\ DOMAIN touched.entries = DOMAIN cache.entries
  BY TouchedTyped
<1>3. left = [entries |-> touched.entries, clients |-> clients, size |-> cache.size]
  <2> HIDE DEF touched
  <2>1. touched.clients = cache.clients
    BY <1>2
  <2>2. left = [touched EXCEPT !.clients = clients]
    BY <2>1
  <2> QED
    BY <1>2, <2>2
<1> HIDE DEF clients, touched, left
<1>4. stale \in SUBSET DOMAIN left.entries
  BY <1>3 DEF StaleEntries
<1> HIDE DEF stale
<1>5. /\ cache' = [entries |-> Left(left.entries, stale), clients |-> left.clients,
                   size |-> left.size - Total(stale)]
      /\ DOMAIN Left(left.entries, stale) = DOMAIN left.entries \ stale
  <2>1. /\ left = [entries |-> left.entries, clients |-> left.clients,
                   size |-> left.size]
        /\ IsFiniteSet(DOMAIN left.entries) /\ left.size \in Int
    BY <1>2, <1>3 DEF CacheOK
  <2> QED
    BY <1>1, <1>4, <2>1, DroppedTyped
<1>6. DOMAIN cache'.entries = DOMAIN cache.entries \ stale
  BY <1>2, <1>3, <1>5
<1>7. InodesGrow /\ DOMAIN disk' = DOMAIN disk \ stale /\ \A j \in DOMAIN disk' : disk'[j] = disk[j]
  BY <1>1, WithoutFiles
<1> QED
  BY <1>1, <1>6, <1>7 DEF GivenUp

LEMMA WriterGivenUp ==
    ASSUME CacheOK, FilesOK, NEW k, RemoveWriter(k)
    PROVE  /\ GivenUp
           /\ DOMAIN cache'.entries = DOMAIN cache.entries \ {k}
           /\ DOMAIN disk' = DOMAIN disk \ {k}
<1> DEFINE clients == [cache.clients EXCEPT ![k] = OneClientLess(@)]
           e == Left(cache.entries, {k})
           z == cache.size - FileLength(k)
<1>1. /\ cache' = [cache EXCEPT !.clients = clients, !.entries = e, !.size = z]
      /\ disk' = Without(disk, {k}) /\ inodes' = inodes
  BY DEF RemoveWriter
<1>2. DOMAIN e = DOMAIN cache.entries \ {k}
  BY LeftTyped DEF CacheOK
<1> HIDE DEF clients, e, z
<1>3. cache'.entries = e
  <2>1. cache = [entries |-> cache.entries, clients |-> cache.clients, size |-> cache.size]
    BY DEF CacheOK
  <2> QED
    BY <1>1, <2>1
<1>4. InodesGrow /\ DOMAIN disk' = DOMAIN disk \ {k} /\ \A j \in DOMAIN disk' : disk'[j] = disk[j]
  BY <1>1, WithoutFiles
<1> QED
  BY <1>1, <1>2, <1>3, <1>4 DEF GivenUp

LEMMA StaleGivenUp ==
    ASSUME CacheOK, FilesOK, NEW victims, DropStale(victims)
    PROVE  GivenUp
<1> DEFINE there == victims \cap DOMAIN cache.entries
<1>1. cache' = Dropped(cache, there) /\ disk' = Without(disk, there) /\ inodes' = inodes
  BY DEF DropStale
<1>2. there \in SUBSET DOMAIN cache.entries
  OBVIOUS
<1> HIDE DEF there
<1>3. /\ cache' = [entries |-> Left(cache.entries, there), clients |-> cache.clients,
                   size |-> cache.size - Total(there)]
      /\ DOMAIN Left(cache.entries, there) = DOMAIN cache.entries \ there
  <2>1. /\ cache = [entries |-> cache.entries, clients |-> cache.clients,
                   size |-> cache.size]
        /\ IsFiniteSet(DOMAIN cache.entries) /\ cache.size \in Int
    BY DEF CacheOK
  <2> QED
    BY <1>1, <1>2, <2>1, DroppedTyped
<1>4. DOMAIN cache'.entries = DOMAIN cache.entries \ there
  BY <1>3
<1>5. InodesGrow /\ DOMAIN disk' = DOMAIN disk \ there /\ \A j \in DOMAIN disk' : disk'[j] = disk[j]
  BY <1>1, WithoutFiles
<1> QED
  BY <1>1, <1>4, <1>5 DEF GivenUp

LEMMA FilesAtGivingUp ==
    ASSUME TypeInv, TypeInv', NEW t \in Threads, SessionInv(t), ~At(t, "dead"), History,
           Steady, GivenUp, NoNewWriter, curr_fd <= curr_fd', ~At(t, "writer")',
           \A j \in Keys : UnderWay(t, j) /\ j.path \notin ambiguous' =>
             UnderWay(t, j)' \/ UpToDate(j)'
    PROVE  FilesCurrent(t)' /\ NamesApart(t)' /\ Copies'
<1>1. FilesCurrent(t) /\ NamesApart(t) /\ Copies
  BY DEF SessionInv
<1>2. ambiguous \subseteq ambiguous'
  BY HistoryGrows
<1>3. /\ \A j \in DOMAIN disk' : disk'[j] = disk[j]
      /\ inodes' = inodes /\ InodesGrow
  BY DEF GivenUp
<1>4. PICK gone : /\ DOMAIN cache'.entries = DOMAIN cache.entries \ gone
                  /\ DOMAIN disk' = DOMAIN disk \ gone
  BY DEF GivenUp
<1>5. ASSUME NEW j \in Keys PROVE Kept(j) /\ SteadyAt(j.path)
  <2>1. Cached(j)' \/ j \in DOMAIN disk' => j \notin gone
    BY <1>4 DEF Cached
  <2>2. j \in DOMAIN disk' <=> j \in DOMAIN disk /\ j \notin gone
    BY <1>4
  <2>3. j \notin gone => Holds(j)' = Holds(j)
    BY <1>3, <2>2 DEF Holds
  <2>4. Cached(j)' <=> Cached(j) /\ j \notin gone
    BY <1>4 DEF Cached
  <2>5. Kept(j)
    BY <2>1, <2>2, <2>3, <2>4 DEF Kept
  <2> QED
    BY <2>5 DEF Keys, Steady
<1>6. FilesCurrent(t)'
  BY <1>1, <1>2, <1>5, FilesStay
<1>7. NoNewName /\ NoNewShare
  BY <1>3, <1>4 DEF NoNewName, NoNewShare
<1>8. NamesApart(t)'
  BY <1>1, <1>7, NamesStay
<1>9. Copies'
  BY <1>1, <1>2, <1>3, <1>7, Steadily, CopiesStay
<1> QED
  BY <1>6, <1>8, <1>9

\* A descriptor that is forgotten writes no more.
LEMMA ForgottenWriter ==
    ASSUME TypeInv, NEW t, NEW fd, Forget(t, fd)
    PROVE  NoNewWriter
<1>1. fd_paths' = Without(fd_paths, {fd}) /\ fd_files' = Without(fd_files, {fd})
  BY DEF Forget
<1>2. ASSUME NEW d \in DOMAIN fd_paths', fd_paths'[d].write
      PROVE  /\ d \in DOMAIN fd_paths /\ fd_paths'[d] = fd_paths[d]
             /\ fd_files'[d] = fd_files[d]
  <2>1. d \in DOMAIN fd_paths /\ d # fd /\ fd_paths'[d] = fd_paths[d]
    BY <1>1 DEF Without
  <2>2. d \in DOMAIN fd_files
    BY <1>2, <2>1 DEF TypeInv, TablesOK
  <2> QED
    BY <1>1, <2>1, <2>2 DEF Without
<1> QED
  BY <1>2 DEF NoNewWriter

LEMMA CloseReaderSession ==
    ASSUME TypeInv, TypeInv', NEW t \in Threads, SessionInv(t), History, NEW fd,
           CloseReader(t, fd)
    PROVE  SessionInv(t)'
<1> DEFINE r == [Idle EXCEPT !.pc = "scan", !.op = "READ", !.path = fd_paths[fd].path,
                             !.ver = fd_paths[fd].ver]
<1>1. /\ At(t, "idle") /\ RemoveReader(FdKey(fd)) /\ Forget(t, fd)
      /\ th' = [th EXCEPT ![t] = r] /\ UNCHANGED <<serverVars, curr_fd>>
  BY DEF CloseReader, Closes
<1>2. /\ th'[t] = r /\ r.pc = "scan" /\ r.op = "READ"
      /\ th[t].op = "none"
  BY <1>1 DEF TypeInv, ThreadsOK, LocalOK, At, Resting, Idle
<1> HIDE DEF r
<1>3. FilesCurrent(t)' /\ NamesApart(t)' /\ Copies'
  <2>1. \A k : ~UnderWay(t, k)
    BY <1>1, <1>2, NoneUnderWay DEF At
  <2>2. NoNewWriter /\ curr_fd <= curr_fd' /\ Steady /\ GivenUp
    BY <1>1, ServerSame, ForgottenWriter, ReaderGivenUp DEF TypeInv, FdsOK
  <2>3. ~At(t, "dead") /\ ~At(t, "writer")'
    BY <1>1, <1>2 DEF At
  <2> QED
    BY <2>1, <2>2, <2>3, FilesAtGivingUp
<1>4. Locks(t)' /\ Opens(t)' /\ Closing(t)'
  BY <1>2 DEF At, Locks, Opens, Closing, Succeeding
<1> QED
  BY <1>3, <1>4 DEF SessionInv

\* The next version of a file whose version is the server's is not cached.
LEMMA CloseWriterSession ==
    ASSUME TypeInv, TypeInv', NEW t \in Threads, SessionInv(t), History, NEW fd \in Fds,
           CloseWriter(t, fd)
    PROVE  SessionInv(t)'
<1> DEFINE p == fd_paths[fd].path
           v == fd_paths[fd].ver
           r == [Idle EXCEPT !.pc = "scan", !.op = "CLOSE", !.path = p, !.ver = v,
                             !.fd = fd, !.copy = fd_files[fd]]
<1>1. /\ At(t, "idle") /\ fd \in DOMAIN fd_paths /\ fd_paths[fd].write
      /\ OpenFile(Key(p, NewVersion(v), Shared)) /\ th' = [th EXCEPT ![t] = r]
      /\ UNCHANGED <<serverVars, cache, opened, tables>>
  BY DEF CloseWriter, Closes
<1>2. /\ th'[t] = r /\ r.pc = "scan" /\ r.op = "CLOSE" /\ r.path = p /\ r.ver = v
      /\ r.pos = 0 /\ r.copy = fd_files[fd] /\ th[t].op = "none"
  BY <1>1 DEF TypeInv, ThreadsOK, LocalOK, At, Resting, Idle
<1>3. /\ p \in Paths /\ v \in Nat /\ fd_files[fd] \in DOMAIN inodes
  BY <1>1 DEF TypeInv, TablesOK, Names
<1>17. /\ Key(p, NewVersion(v), Shared) \in Keys /\ Key(p, NewVersion(v), Shared).fd = Shared
       /\ Key(p, NewVersion(v), Shared).path = p
       /\ Key(p, NewVersion(v), Shared).ver = v + 1
  BY <1>3 DEF Key, Keys, NewVersion
<1>4. PICK k, q, w, i :
        /\ k = Key(p, NewVersion(v), Shared) /\ q = p /\ w = v /\ i = fd_files[fd]
        /\ k \in Keys /\ k.fd = Shared /\ k.path = q /\ k.ver = w + 1
        /\ q \in Paths /\ i \in DOMAIN inodes
  BY <1>3, <1>17
<1> HIDE DEF r
<1>5. ~At(t, "dead") /\ FilesCurrent(t) /\ Copies
  BY <1>1 DEF SessionInv, At
<1>6. \A j : ~UnderWay(t, j)
  BY <1>1, <1>2, NoneUnderWay DEF At
<1>7. SharedKey(t)' = k
  BY <1>2, <1>4 DEF SharedKey
<1>8. ambiguous \subseteq ambiguous' /\ Steady /\ served' = served /\ max_versions' = max_versions
  BY <1>1, HistoryGrows, ServerSame DEF serverVars
<1>9. NoNewWriter
  BY <1>1 DEF NoNewWriter, tables
<1>10. InodesGrow /\ NoNewShare /\ Holds(k)' = Holds(k)
  BY <1>1, <1>4, OpenFileHolds
<1>11. FilesCurrent(t)' /\ NamesApart(t)' /\ Copies'
  <2>1. UnderWay(t, k)' /\ ~At(t, "writer")'
    BY <1>2, <1>7 DEF UnderWay, At
  <2>2. k.fd < curr_fd /\ OpenFile(k) /\ curr_fd' = curr_fd
    BY <1>1, <1>4, SharedIsBelow DEF tables
  <2>3. DOMAIN cache'.entries = DOMAIN cache.entries
    BY <1>1
  <2> QED
    BY <1>4, <1>5, <1>6, <1>8, <1>9, <2>1, <2>2, <2>3, FilesAtOpen
<1>12. Private(i) /\ Covers(i, q, w)
  BY <1>1, <1>4, <1>5 DEF Copies
<1>13. Private(i)' /\ Covers(i, q, w)'
  <2>1. Private(i)'
    BY <1>4, <1>10, <1>12, PrivateStays
  <2>2. /\ Len(inodes[i]) \in Nat /\ Len(inodes'[i]) \in Nat
        /\ Len(inodes[i]) <= Len(inodes'[i])
    BY <1>4, <1>10, LengthsGrow DEF TypeInv
  <2>3. Covers(i, q, w)'
    BY <1>4, <1>8, <1>12, <2>2, Steadily, CoversStays DEF TypeInv
  <2> QED
    BY <2>1, <2>3
<1>14. ASSUME q \notin ambiguous', w = Vers(q)' PROVE Holds(k)' = <<>>
  <2>1. Vers(q)' = Vers(q) /\ Vers(q) \in Nat
    BY <1>8, VersTyped DEF Vers, Versioned, TypeInv
  <2>2. k \notin DOMAIN disk
    <3>1. SUFFICES ASSUME k \in DOMAIN disk PROVE FALSE
      OBVIOUS
    <3>2. UpToDate(k)
      BY <1>4, <1>5, <1>6, <1>8, <1>14, <3>1 DEF FilesCurrent
    <3> QED
      BY <1>4, <1>14, <2>1, <3>2 DEF UpToDate
  <2> QED
    BY <1>10, <2>2 DEF Holds
<1>15. Closing(t)'
  <2>1. th'[t].path = q /\ th'[t].ver = w /\ th'[t].copy = i /\ th'[t].pos = 0
           /\ th'[t].pc = "scan"
    BY <1>2, <1>4
  <2>2. Vers(th[t].path)' = Vers(q)'
    BY <2>1 DEF Vers, Versioned
  <2>3. Private(th[t].copy)' /\ Covers(th[t].copy, th[t].path, th[t].ver)'
    BY <1>13, <2>1
  <2>4. th'[t].path \notin ambiguous' /\ th'[t].ver = Vers(th[t].path)' =>
          Holds(SharedKey(t))' = <<>>
    BY <1>7, <1>14, <2>1, <2>2
  <2> QED
    BY <2>1, <2>3, <2>4 DEF Closing, Sending
<1>16. Locks(t)' /\ Opens(t)'
  BY <1>2 DEF At, Locks, Opens, Succeeding
<1> QED
  BY <1>11, <1>15, <1>16 DEF SessionInv

\* A close before it sends: what its file holds in the cache directory stays as
\* it is or goes.
LEMMA UnsentStays ==
    ASSUME TypeInv, TypeInv', NEW t \in Threads, SessionInv(t), th[t].op = "CLOSE",
           th[t].pc \in Unsent, th'[t].pc \in Unsent, th'[t].op = "CLOSE",
           th'[t].path = th[t].path, th'[t].ver = th[t].ver, th'[t].copy = th[t].copy,
           th'[t].pos = th[t].pos, UNCHANGED <<serverVars, inodes>>, History, NoNewShare,
           \A j : Holds(j)' \in {Holds(j), <<>>},
           th'[t].pc = "lengths" => Cached(SharedKey(t))'
    PROVE  Closing(t)' /\ Locks(t)' /\ Opens(t)'
<1>1. /\ th[t].pc # "dead" /\ th[t].copy \in DOMAIN inodes
  BY DEF Unsent, TypeInv, ThreadsOK, LocalOK
<1>2. /\ Private(th[t].copy) /\ th[t].pos = 0
      /\ Covers(th[t].copy, th[t].path, th[t].ver)
      /\ th[t].path \notin ambiguous /\ th[t].ver = Vers(th[t].path) => Holds(SharedKey(t)) = <<>>
  BY <1>1 DEF SessionInv, Closing, At
<1>3. PICK i, p, v, k :
        i = th[t].copy /\ p = th[t].path /\ v = th[t].ver /\ k = SharedKey(t)
  OBVIOUS
<1>4. Private(i)'
  BY <1>1, <1>2, <1>3, PrivateStays
<1>5. served' = served /\ max_versions' = max_versions /\ ambiguous \subseteq ambiguous'
  BY HistoryGrows DEF serverVars
<1>6. Vers(p)' = Vers(p)
  BY <1>5 DEF Vers, Versioned
<1>7. Covers(i, p, v)'
  BY <1>2, <1>3, <1>5, <1>6 DEF Covers
<1>8. SharedKey(t)' = k
  BY <1>3, SameKey
<1>9. p \notin ambiguous' /\ v = Vers(p)' => Holds(k)' = <<>>
  <2>1. Holds(k)' \in {Holds(k), <<>>}
    OBVIOUS
  <2> QED
    BY <1>2, <1>3, <1>5, <1>6, <2>1
<1>10. Closing(t)'
  <2>1. Private(th[t].copy)' /\ Covers(th[t].copy, th[t].path, th[t].ver)'
    BY <1>3, <1>4, <1>7
  <2>2. Vers(th[t].path)' = Vers(p)'
    BY <1>3 DEF Vers, Versioned
  <2>3. th'[t].path \notin ambiguous' /\ th'[t].ver = Vers(th[t].path)' =>
          Holds(SharedKey(t))' = <<>>
    BY <1>3, <1>8, <1>9, <2>2
  <2> QED
    BY <1>2, <2>1, <2>3 DEF Closing, Unsent, Sending
<1>11. Locks(t)' /\ Opens(t)'
  BY DEF Locks, Opens, At, Unsent, Succeeding
<1> QED
  BY <1>10, <1>11

LEMMA StaleScanSession ==
    ASSUME TypeInv, TypeInv', NEW t \in Threads, SessionInv(t), History, StaleScan(t)
    PROVE  SessionInv(t)'
<1> DEFINE s == StaleEntries(cache, SharedKey(t))
<1>1. /\ At(t, "scan") /\ th' = [th EXCEPT ![t].pc = "drop", ![t].victims = s]
      /\ UNCHANGED <<serverVars, cacheVars, opened, tables>>
  BY DEF StaleScan
<1> HIDE DEF s
<1>2. th[t] \in Locals /\ th'[t] = [th[t] EXCEPT !.pc = "drop", !.victims = s]
         /\ th[t].op \in {"READ", "CLOSE"}
  BY <1>1 DEF TypeInv, ThreadsOK, LocalOK, At, Scanning
<1>3. /\ th'[t].pc = "drop" /\ th'[t].op = th[t].op /\ th'[t].path = th[t].path
      /\ th'[t].ver = th[t].ver /\ th'[t].copy = th[t].copy /\ th'[t].pos = th[t].pos
  BY <1>2 DEF Locals
<1>4. FilesCurrent(t)' /\ NamesApart(t)' /\ Copies'
  <2>1. \A k : UnderWay(t, k) => UnderWay(t, k)'
    BY <1>1, <1>3, StillUnderWay DEF At
  <2>2. NoNewWriter /\ curr_fd <= curr_fd' /\ Steady
    BY <1>1, ServerSame DEF NoNewWriter, tables, TypeInv, FdsOK
  <2>3. ~At(t, "dead") /\ ~At(t, "writer")'
    BY <1>1, <1>3 DEF At
  <2>4. DOMAIN cache'.entries = DOMAIN cache.entries /\ UNCHANGED <<disk, inodes>>
    BY <1>1 DEF cacheVars
  <2> QED
    BY <2>1, <2>2, <2>3, <2>4, FilesAtRest
<1>5. Locks(t)' /\ Opens(t)' /\ Closing(t)'
  <2>1. CASE th[t].op = "READ"
    BY <1>3, <2>1 DEF Locks, Opens, Closing, At, Succeeding
  <2>2. CASE th[t].op = "CLOSE"
    <3>1. UNCHANGED <<serverVars, inodes>> /\ NoNewShare /\ \A j : Holds(j)' = Holds(j)
      BY <1>1 DEF cacheVars, NoNewShare, Holds
    <3> QED
      BY <1>1, <1>3, <2>2, <3>1, UnsentStays DEF At, Unsent
  <2> QED
    BY <1>2, <2>1, <2>2
<1> QED
  BY <1>4, <1>5 DEF SessionInv

LEMMA StaleDropSession ==
    ASSUME TypeInv, TypeInv', NEW t \in Threads, SessionInv(t), History, StaleDrop(t)
    PROVE  SessionInv(t)'
<1>1. /\ At(t, "drop") /\ DropStale(th[t].victims)
      /\ IF Reading(t) THEN th' = [th EXCEPT ![t] = Idle]
         ELSE th' = [th EXCEPT ![t].pc = "put", ![t].victims = {}]
      /\ UNCHANGED <<serverVars, opened, tables>>
  BY DEF StaleDrop, Return
<1>2. th[t] \in Locals /\ th[t].op \in {"READ", "CLOSE"}
  BY <1>1 DEF TypeInv, ThreadsOK, LocalOK, At, Scanning
<1>3. th[t].op = "READ" => th'[t] = Idle
  BY <1>1 DEF TypeInv, ThreadsOK, Reading
<1>4. th[t].op = "CLOSE" =>
        /\ th'[t].pc = "put" /\ th'[t].op = th[t].op /\ th'[t].path = th[t].path
        /\ th'[t].ver = th[t].ver /\ th'[t].copy = th[t].copy /\ th'[t].pos = th[t].pos
  <2>1. th[t].op = "CLOSE" => th'[t] = [th[t] EXCEPT !.pc = "put", !.victims = {}]
    BY <1>1 DEF TypeInv, ThreadsOK, Reading
  <2> QED
    BY <1>2, <2>1 DEF Locals
<1>5. GivenUp
  BY <1>1, StaleGivenUp DEF TypeInv
<1>6. FilesCurrent(t)' /\ NamesApart(t)' /\ Copies'
  <2>1. \A k : UnderWay(t, k) => UnderWay(t, k)'
    <3>1. CASE th[t].op = "READ"
      BY <1>1, <3>1, NoneUnderWay DEF At
    <3>2. CASE th[t].op = "CLOSE"
      BY <1>1, <1>4, <3>2, StillUnderWay DEF At
    <3> QED
      BY <1>2, <3>1, <3>2
  <2>2. NoNewWriter /\ curr_fd <= curr_fd' /\ Steady
    BY <1>1, ServerSame DEF NoNewWriter, tables, TypeInv, FdsOK
  <2>3. ~At(t, "dead") /\ ~At(t, "writer")'
    BY <1>1, <1>2, <1>3, <1>4 DEF At, Idle
  <2> QED
    BY <1>5, <2>1, <2>2, <2>3, FilesAtGivingUp
<1>7. Locks(t)' /\ Opens(t)' /\ Closing(t)'
  <2>1. CASE th[t].op = "READ"
    BY <1>3, <2>1, NothingToDo
  <2>2. CASE th[t].op = "CLOSE"
    <3>1. /\ inodes' = inodes /\ \A j \in DOMAIN disk' : disk'[j] = disk[j]
          /\ DOMAIN disk' \subseteq DOMAIN disk
      BY <1>5 DEF GivenUp
    <3>2. NoNewShare /\ \A j : Holds(j)' \in {Holds(j), <<>>}
      BY <3>1 DEF NoNewShare, Holds
    <3> QED
      BY <1>1, <1>4, <2>2, <3>1, <3>2, UnsentStays DEF At, Unsent
  <2> QED
    BY <1>2, <2>1, <2>2
<1> QED
  BY <1>6, <1>7 DEF SessionInv

LEMMA ClosePutSession ==
    ASSUME TypeInv, TypeInv', NEW t \in Threads, SessionInv(t), History, ClosePut(t)
    PROVE  SessionInv(t)'
<1>1. /\ At(t, "put") /\ Put(SharedKey(t)) /\ Go(t, "lengths")
      /\ UNCHANGED <<serverVars, opened, tables>>
  BY DEF ClosePut
<1>2. /\ th'[t].pc = "lengths" /\ th'[t].op = th[t].op /\ th'[t].path = th[t].path
      /\ th'[t].ver = th[t].ver /\ th'[t].copy = th[t].copy /\ th'[t].pos = th[t].pos
  BY <1>1, GoneOn DEF TypeInv, Ending
<1>3. th[t].op = "CLOSE" /\ SharedKey(t) \in Keys
  BY <1>1, Making DEF LocalOK, At, Ending, Resting
<1>4. PICK k \in Keys : k = SharedKey(t)
  BY <1>3
<1>5. SharedKey(t)' = k
  BY <1>2, <1>4, SameKey
<1>6. /\ \A j \in DOMAIN disk' : disk'[j] = disk[j]
      /\ DOMAIN disk' \subseteq DOMAIN disk /\ inodes' = inodes
      /\ k \in DOMAIN cache'.entries
  BY <1>1, <1>4, PutFiles DEF TypeInv
<1>7. FilesCurrent(t)' /\ NamesApart(t)' /\ Copies'
  <2>1. Steady /\ ~At(t, "writer")' /\ ~At(t, "dead") /\ NoNewWriter /\ curr_fd <= curr_fd'
    BY <1>1, <1>2, ServerSame DEF At, NoNewWriter, tables, TypeInv, FdsOK
  <2>2. \A j : UnderWay(t, j) => UnderWay(t, j)'
    BY <1>1, <1>2, StillUnderWay DEF At
  <2>3. Put(k) /\ UnderWay(t, k)'
    BY <1>1, <1>2, <1>3, <1>4, <1>5 DEF UnderWay
  <2> QED
    BY <2>1, <2>2, <2>3, FilesAtPut
<1>8. Locks(t)' /\ Opens(t)' /\ Closing(t)'
  <2>1. NoNewShare /\ \A j : Holds(j)' \in {Holds(j), <<>>}
    BY <1>6 DEF NoNewShare, Holds
  <2>2. Cached(SharedKey(t))'
    BY <1>5, <1>6 DEF Cached
  <2> QED
    BY <1>1, <1>2, <1>3, <1>6, <2>1, <2>2, UnsentStays DEF At, Unsent
<1> QED
  BY <1>7, <1>8 DEF SessionInv

\* The length of the copy is what there is to send; the cached file is empty as
\* long as its version is to come.
LEMMA CloseLengthsSession ==
    ASSUME TypeInv, TypeInv', NEW t \in Threads, SessionInv(t), History, CloseLengths(t)
    PROVE  SessionInv(t)'
<1>1. /\ At(t, "lengths") /\ OpenFile(SharedKey(t))
      /\ th' = [th EXCEPT ![t].pc = "send", ![t].raf = InodeOf(SharedKey(t)),
                          ![t].len = Len(inodes[th[t].copy]),
                          ![t].old = FileLength(SharedKey(t))]
      /\ UNCHANGED <<serverVars, cache, opened, tables>>
  BY DEF CloseLengths
<1>2. /\ th[t] \in Locals /\ th[t].op = "CLOSE" /\ th[t].copy \in DOMAIN inodes
      /\ th[t].path \in Paths /\ th[t].ver \in Nat
      /\ SharedKey(t) \in Keys /\ SharedKey(t).fd = Shared
  BY <1>1, Making DEF LocalOK, At, Ending, Resting
<1>3. PICK k, p, v, i, s, n :
        /\ k = SharedKey(t) /\ p = th[t].path /\ v = th[t].ver /\ i = th[t].copy
        /\ k \in Keys /\ k.fd = Shared /\ i \in DOMAIN inodes /\ p \in Paths /\ v \in Nat
        /\ s = FileLength(k) /\ n = Len(inodes[i])
  BY <1>2
<1>4. th'[t] = [th[t] EXCEPT !.pc = "send", !.raf = InodeOf(k), !.len = n, !.old = s]
  BY <1>1, <1>3 DEF TypeInv, ThreadsOK
<1>5. /\ th'[t].pc = "send" /\ th'[t].op = "CLOSE" /\ th'[t].path = p
      /\ th'[t].ver = v /\ th'[t].pos = th[t].pos /\ th'[t].copy = i
      /\ th'[t].raf = InodeOf(k) /\ th'[t].len = n
  BY <1>2, <1>3, <1>4 DEF Locals
<1>6. /\ ~At(t, "dead") /\ th[t].pos = 0 /\ Cached(k) /\ Private(i) /\ Covers(i, p, v)
      /\ p \notin ambiguous /\ v = Vers(p) => Holds(k) = <<>>
  BY <1>1, <1>2, <1>3 DEF SessionInv, Closing, At, Unsent
<1>7. served' = served /\ max_versions' = max_versions /\ ambiguous \subseteq ambiguous'
  BY <1>1, HistoryGrows DEF serverVars
<1>8. /\ k \in DOMAIN disk' /\ disk'[k] = InodeOf(k) /\ inodes'[InodeOf(k)] = Holds(k)
      /\ inodes'[i] = inodes[i] /\ NoNewShare
  BY <1>1, <1>3, OpenFileHolds
<1>9. SharedKey(t)' = k
  BY <1>2, <1>3, <1>5 DEF SharedKey
<1>10. n \in Nat
  BY <1>3 DEF TypeInv, FilesOK
<1>11. FilesCurrent(t)' /\ NamesApart(t)' /\ Copies'
  <2>1. NoNewWriter /\ curr_fd' = curr_fd /\ Steady
    BY <1>1, ServerSame DEF NoNewWriter, tables
  <2>2. \A j : UnderWay(t, j) => UnderWay(t, j)'
    BY <1>1, <1>2, <1>3, <1>5, StillUnderWay DEF At
  <2>3. OpenFile(k) /\ k.fd < curr_fd /\ ~At(t, "writer")'
    BY <1>1, <1>3, <1>5, SharedIsBelow DEF At
  <2>4. DOMAIN cache'.entries = DOMAIN cache.entries
    BY <1>1
  <2> QED
    BY <1>3, <1>6, <2>1, <2>2, <2>3, <2>4, FilesAtOpen
<1>12. Private(i)'
  BY <1>3, <1>6, <1>8, PrivateStays
<1>13. n = 0 => p \in ambiguous'
  <2>1. n = 0 => SendsNothing(t)
    BY <1>1, <1>5 DEF SendsNothing, At
  <2> QED
    BY <1>3, <2>1 DEF History
<1>14. ASSUME p \notin ambiguous' PROVE Counts(th[t])'
  <2>1. n >= 1
    BY <1>10, <1>13, <1>14
  <2>2. Vers(p)' = Vers(p) /\ Vers(p) \in Nat
    BY <1>7, VersTyped DEF Vers, Versioned, TypeInv
  <2>3. v \in 1..Vers(p) /\ (v = Vers(p) /\ p \in DOMAIN served => Len(served[p]) <= n)
    BY <1>3, <1>6, <1>7, <1>14 DEF Covers
  <2>4. v = Vers(p) => inodes'[InodeOf(k)] = <<>>
    BY <1>6, <1>7, <1>8, <1>14
  <2>5. Vers(th[t].path)' = Vers(p)
    BY <1>5, <2>2 DEF Vers, Versioned
  <2>6. Sent(th[t])' = 0 /\ th'[t].pos = 0
    BY <1>5, <1>6 DEF Sent
  <2>7. Agree(inodes[th[t].raf], inodes[th[t].copy], th[t].pos)'
    BY <2>6 DEF Agree
  <2>8. v + 0 = v /\ v >= 1 /\ v <= Vers(p)
    BY <2>2, <2>3
  <2>9. v = Vers(p) => Len(inodes'[InodeOf(k)]) = 0
    BY <2>4
  <2> QED
    BY <1>5, <1>7, <2>1, <2>3, <2>5, <2>6, <2>7, <2>8, <2>9 DEF Counts
<1>15. Closing(t)'
  <2>1. Sent(th[t])' = 0 /\ Arrived(th[t])'
    BY <1>5, <1>6 DEF Sent, Arrived
  <2>2. Private(th[t].copy)'
    BY <1>5, <1>12
  <2>3. SharedKey(t)' \in DOMAIN disk' /\ th'[t].raf = disk'[SharedKey(t)'] /\ Cached(SharedKey(t))'
    BY <1>1, <1>5, <1>6, <1>8, <1>9 DEF Cached
  <2>4. th'[t].len = Len(inodes'[th'[t].copy])
    BY <1>3, <1>5, <1>8
  <2> QED
    BY <1>5, <1>10, <1>14, <2>1, <2>2, <2>3, <2>4 DEF Closing, Unsent
<1>16. Locks(t)' /\ Opens(t)'
  BY <1>5 DEF Locks, Opens, At, Succeeding
<1> QED
  BY <1>11, <1>15, <1>16 DEF SessionInv

\* Once all is sent.
LEMMA SettlingSession ==
    ASSUME TypeInv, TypeInv', NEW t \in Threads, SessionInv(t), History,
           th[t].pc \in {"send", "settle"}, th'[t].pc \in {"settle", "release"},
           th[t].pc = "send" => th[t].pos >= th[t].len,
           th'[t].op = th[t].op, th'[t].path = th[t].path, th'[t].ver = th[t].ver,
           th'[t].copy = th[t].copy, th'[t].raf = th[t].raf, th'[t].pos = th[t].pos,
           th'[t].len = th[t].len, UNCHANGED <<serverVars, disk, inodes, tables>>,
           DOMAIN cache'.entries = DOMAIN cache.entries
    PROVE  SessionInv(t)'
<1>1. /\ th[t].op = "CLOSE" /\ ~At(t, "dead") /\ Sent(th[t]) = th[t].pos
      /\ th[t].pos \in Nat /\ th[t].len \in Nat
  BY Making DEF LocalOK, Ending, Resting, At, Sent
<1>2. /\ Private(th[t].copy) /\ Cached(SharedKey(t))
      /\ SharedKey(t) \in DOMAIN disk /\ th[t].raf = disk[SharedKey(t)]
      /\ th[t].len = Len(inodes[th[t].copy])
      /\ th[t].pos <= th[t].len /\ (th[t].pc = "settle" => th[t].pos = th[t].len)
      /\ Arrived(th[t]) /\ (th[t].path \notin ambiguous => Counts(th[t]))
  BY <1>1 DEF SessionInv, Closing, Sending
<1>3. th[t].pos = th[t].len
  BY <1>1, <1>2
<1>4. FilesCurrent(t)' /\ NamesApart(t)' /\ Copies'
  <2>1. \A k : UnderWay(t, k) => UnderWay(t, k)'
    BY <1>1, StillUnderWay DEF At
  <2>2. NoNewWriter /\ curr_fd <= curr_fd' /\ Steady /\ ~At(t, "writer")'
    BY ServerSame DEF NoNewWriter, tables, TypeInv, FdsOK, At
  <2> QED
    BY <1>1, <2>1, <2>2, FilesAtRest
<1>5. served' = served /\ max_versions' = max_versions /\ ambiguous \subseteq ambiguous'
  BY HistoryGrows DEF serverVars
<1>6. SharedKey(t)' = SharedKey(t)
  BY SameKey
<1>7. Sent(th[t])' = th[t].pos
  BY DEF Sent
<1>8. Private(th[t].copy)'
  BY <1>2 DEF Private
<1>9. Arrived(th[t])'
  BY <1>1, <1>2, <1>5, <1>7 DEF Arrived, Agree
<1>10. th[t].path \notin ambiguous' => Counts(th[t])'
  <2>1. Vers(th[t].path)' = Vers(th[t].path)
    BY <1>5 DEF Vers, Versioned
  <2> QED
    BY <1>1, <1>2, <1>5, <1>7, <2>1 DEF Counts, Agree
<1>11. Cached(SharedKey(t))'
  BY <1>2, <1>6 DEF Cached
<1>12. Closing(t)'
  BY <1>1, <1>2, <1>3, <1>6, <1>7, <1>8, <1>9, <1>10, <1>11 DEF Closing, Unsent
<1>13. Locks(t)' /\ Opens(t)'
  BY DEF Locks, Opens, At, Succeeding
<1> QED
  BY <1>4, <1>12, <1>13 DEF SessionInv

LEMMA SettleReadSession ==
    ASSUME TypeInv, TypeInv', NEW t \in Threads, SessionInv(t), History, SettleRead(t)
    PROVE  SessionInv(t)'
<1> DEFINE o == cache.size + th[t].len - th[t].old
<1>1. /\ th[t].pc = "send" /\ th[t].pos >= th[t].len
      /\ th' = [th EXCEPT ![t].pc = "settle", ![t].old = o]
      /\ UNCHANGED <<serverVars, cacheVars, opened, tables>>
  BY DEF SettleRead, At
<1> HIDE DEF o
<1>2. th[t] \in Locals /\ th'[t] = [th[t] EXCEPT !.pc = "settle", !.old = o]
  BY <1>1 DEF TypeInv, ThreadsOK
<1>3. /\ th'[t].pc = "settle" /\ th'[t].op = th[t].op /\ th'[t].path = th[t].path
      /\ th'[t].ver = th[t].ver /\ th'[t].copy = th[t].copy /\ th'[t].raf = th[t].raf
      /\ th'[t].pos = th[t].pos /\ th'[t].len = th[t].len
  BY <1>2 DEF Locals
<1>4. DOMAIN cache'.entries = DOMAIN cache.entries /\ UNCHANGED <<serverVars, disk, inodes, tables>>
  BY <1>1 DEF cacheVars
<1> QED
  BY <1>1, <1>3, <1>4, SettlingSession

LEMMA SettleWriteSession ==
    ASSUME TypeInv, TypeInv', NEW t \in Threads, SessionInv(t), History, SettleWrite(t)
    PROVE  SessionInv(t)'
<1>1. /\ th[t].pc = "settle" /\ cache' = [cache EXCEPT !.size = th[t].old]
      /\ Go(t, "release") /\ UNCHANGED <<serverVars, disk, inodes, opened, tables>>
  BY DEF SettleWrite, At
<1>2. /\ th'[t].pc = "release" /\ th'[t].op = th[t].op /\ th'[t].path = th[t].path
      /\ th'[t].ver = th[t].ver /\ th'[t].copy = th[t].copy /\ th'[t].raf = th[t].raf
      /\ th'[t].pos = th[t].pos /\ th'[t].len = th[t].len
  BY <1>1, GoneOn DEF TypeInv, Ending
<1>3. DOMAIN cache'.entries = DOMAIN cache.entries
  BY <1>1 DEF TypeInv, CacheOK
<1>4. UNCHANGED <<serverVars, disk, inodes, tables>>
  BY <1>1
<1> QED
  BY <1>1, <1>2, <1>3, <1>4, SettlingSession

LEMMA OverlayWritten ==
    ASSUME NEW s \in Seq(Chunks), NEW pos \in Nat, NEW chunk \in Chunks
    PROVE  /\ Overlay(s, pos, chunk) \in Seq(Chunks)
           /\ Len(Overlay(s, pos, chunk)) = IF pos < Len(s) THEN Len(s) ELSE pos + 1
           /\ Overlay(s, pos, chunk)[pos + 1] = chunk
           /\ \A i \in 1..Len(s) : i # pos + 1 => Overlay(s, pos, chunk)[i] = s[i]
<1> DEFINE n == IF pos < Len(s) THEN Len(s) ELSE pos + 1
           o == Overlay(s, pos, chunk)
<1>1. n \in Nat /\ pos + 1 \in 1..n /\ 1..Len(s) \subseteq 1..n /\ Len(s) \in Nat
  OBVIOUS
<1>2. o = [i \in 1..n |-> IF i = pos + 1 THEN chunk
                          ELSE IF i <= Len(s) THEN s[i] ELSE Zero]
  BY DEF Overlay
<1>3. o \in Seq(Chunks)
  BY OverlayTyped
<1> HIDE DEF o, n
<1>4. DOMAIN o = 1..n /\ o[pos + 1] = chunk
  BY <1>1, <1>2
<1>5. \A i \in 1..Len(s) : i # pos + 1 => o[i] = s[i]
  BY <1>1, <1>2
<1>6. Len(o) = n
  BY <1>1, <1>3, <1>4
<1> QED
  BY <1>3, <1>4, <1>5, <1>6 DEF o, n

\* What a close that sends knows.
LEMMA SendingKnows ==
    ASSUME TypeInv, NEW t \in Threads, SessionInv(t), th[t].pc \in Sending
    PROVE  /\ th[t] \in Locals /\ th[t].op = "CLOSE" /\ ~At(t, "dead")
           /\ th[t].path \in Paths /\ th[t].ver \in Nat /\ th[t].pos \in Nat
           /\ th[t].len \in Nat /\ th[t].copy \in DOMAIN inodes /\ th[t].raf \in DOMAIN inodes
           /\ inodes[th[t].copy] \in Seq(Chunks) /\ inodes[th[t].raf] \in Seq(Chunks)
           /\ SharedKey(t) \in Keys /\ SharedKey(t).fd = Shared
           /\ SharedKey(t).path = th[t].path /\ SharedKey(t).ver = th[t].ver + 1
           /\ SharedKey(t) \in DOMAIN disk /\ th[t].raf = disk[SharedKey(t)]
           /\ Cached(SharedKey(t)) /\ Private(th[t].copy) /\ th[t].raf # th[t].copy
           /\ th[t].len = Len(inodes[th[t].copy]) /\ Sent(th[t]) <= th[t].len
           /\ th[t].pc \in {"settle", "release"} => Sent(th[t]) = th[t].len
           /\ Arrived(th[t]) /\ (th[t].path \notin ambiguous => Counts(th[t]))
           /\ FilesCurrent(t) /\ NamesApart(t) /\ Copies
<1>1. th[t].pc \notin Resting /\ th[t].op = "CLOSE" /\ ~At(t, "dead")
  BY DEF TypeInv, ThreadsOK, LocalOK, Sending, Ending, Resting, At
<1>2. /\ th[t] \in Locals /\ LocalOK(th[t]) /\ th[t].path \in Paths
      /\ SharedKey(t) \in Keys /\ SharedKey(t).fd = Shared
      /\ SharedKey(t).path = th[t].path /\ SharedKey(t).ver = th[t].ver + 1
      /\ th[t].ver \in Nat /\ th[t].pos \in Nat /\ th[t].len \in Nat
  BY <1>1, Making
<1>3. /\ SharedKey(t) \in DOMAIN disk /\ th[t].raf = disk[SharedKey(t)]
      /\ Cached(SharedKey(t)) /\ Private(th[t].copy)
      /\ th[t].len = Len(inodes[th[t].copy]) /\ Sent(th[t]) <= th[t].len
      /\ th[t].pc \in {"settle", "release"} => Sent(th[t]) = th[t].len
      /\ Arrived(th[t]) /\ (th[t].path \notin ambiguous => Counts(th[t]))
      /\ FilesCurrent(t) /\ NamesApart(t) /\ Copies
  BY <1>1 DEF SessionInv, Closing
<1>4. th[t].copy \in DOMAIN inodes /\ th[t].raf \in DOMAIN inodes
  BY <1>1, <1>2, <1>3 DEF LocalOK, TypeInv, FilesOK
<1>5. inodes[th[t].copy] \in Seq(Chunks) /\ inodes[th[t].raf] \in Seq(Chunks)
  BY <1>4 DEF TypeInv, FilesOK
<1>6. th[t].raf # th[t].copy
  BY <1>2, <1>3 DEF Private
<1> QED
  BY <1>1, <1>2, <1>3, <1>4, <1>5, <1>6

LEMMA StoreChunkSession ==
    ASSUME TypeInv, TypeInv', NEW t \in Threads, SessionInv(t), History, StoreChunk(t)
    PROVE  SessionInv(t)'
<1>1. /\ th[t].pc = "store"
      /\ WriteChunk(th[t].raf, th[t].pos, inodes[th[t].copy][th[t].pos + 1])
      /\ th' = [th EXCEPT ![t].pc = "send", ![t].pos = NextPos(@)]
      /\ UNCHANGED <<serverVars, opened, tables>>
  BY DEF StoreChunk, At
<1>2. th[t].pc \in Sending
  BY <1>1 DEF Sending
<1>3. PICK k, p, v, i, r, n :
        /\ k = SharedKey(t) /\ p = th[t].path /\ v = th[t].ver /\ i = th[t].copy
        /\ r = th[t].raf /\ n = th[t].pos
  OBVIOUS
<1>4. /\ th[t] \in Locals /\ th[t].op = "CLOSE" /\ ~At(t, "dead")
      /\ n \in Nat /\ v \in Nat /\ th[t].len \in Nat /\ i \in DOMAIN inodes /\ r \in DOMAIN inodes
      /\ inodes[i] \in Seq(Chunks) /\ inodes[r] \in Seq(Chunks) /\ k \in Keys /\ k.fd = Shared
      /\ k \in DOMAIN disk /\ r = disk[k] /\ Cached(k) /\ Private(i) /\ r # i
      /\ th[t].len = Len(inodes[i]) /\ n + 1 <= th[t].len
      /\ Arrived(th[t]) /\ (p \notin ambiguous => Counts(th[t])) /\ NamesApart(t)
  BY <1>1, <1>2, <1>3, SendingKnows DEF Sent
<1>5. th'[t] = [th[t] EXCEPT !.pc = "send", !.pos = NextPos(@)]
  BY <1>1 DEF TypeInv, ThreadsOK
<1>6. /\ th'[t].pc = "send" /\ th'[t].op = "CLOSE" /\ th'[t].path = p /\ th'[t].ver = v
      /\ th'[t].copy = i /\ th'[t].raf = r /\ th'[t].pos = n + 1 /\ th'[t].len = th[t].len
  BY <1>3, <1>4, <1>5 DEF Locals, NextPos
<1> DEFINE c == inodes[i][n + 1]
           o == Overlay(inodes[r], n, c)
<1>7. c \in Chunks
  BY <1>4
<1>8. /\ WriteChunk(r, n, c) /\ cache' = cache /\ disk' = disk /\ inodes'[r] = o
      /\ inodes'[i] = inodes[i]
  <2>1. WriteChunk(r, n, c)
    BY <1>1, <1>3
  <2> QED
    BY <1>4, <2>1 DEF WriteChunk
<1>9. /\ o \in Seq(Chunks) /\ Len(o) = (IF n < Len(inodes[r]) THEN Len(inodes[r]) ELSE n + 1)
      /\ o[n + 1] = c /\ \A j \in 1..Len(inodes[r]) : j # n + 1 => o[j] = inodes[r][j]
  <2>1. inodes[r] \in Seq(Chunks)
    BY <1>4
  <2> HIDE DEF c
  <2>2. /\ Overlay(inodes[r], n, c) \in Seq(Chunks)
        /\ Len(Overlay(inodes[r], n, c))
             = (IF n < Len(inodes[r]) THEN Len(inodes[r]) ELSE n + 1)
        /\ Overlay(inodes[r], n, c)[n + 1] = c
        /\ \A j \in 1..Len(inodes[r]) :
             j # n + 1 => Overlay(inodes[r], n, c)[j] = inodes[r][j]
    <3>1. n \in Nat
      BY <1>4
    <3> QED
      BY <1>7, <2>1, <3>1, OverlayWritten
  <2> QED
    BY <2>2
<1>10. served' = served /\ max_versions' = max_versions /\ ambiguous \subseteq ambiguous'
  BY <1>1, HistoryGrows DEF serverVars
<1>11. SharedKey(t)' = k
  BY <1>3, <1>4, <1>6 DEF SharedKey
<1>12. FilesCurrent(t)' /\ NamesApart(t)' /\ Copies'
  <2>1. Steady /\ ~At(t, "writer")' /\ UNCHANGED tables
    BY <1>1, <1>6, ServerSame DEF At
  <2>2. \A j : UnderWay(t, j) => UnderWay(t, j)'
    BY <1>1, <1>3, <1>4, <1>6, StillUnderWay DEF At
  <2>3. \A j \in DOMAIN disk : j.fd = Shared /\ disk[j] = r => UnderWay(t, j)
    BY <1>3, <1>4 DEF NamesApart, UnderWay
  <2> QED
    BY <1>4, <1>7, <1>8, <2>1, <2>2, <2>3, FilesAtWrite
<1> HIDE DEF c, o
<1>13. Sent(th[t]) = n + 1 /\ Sent(th[t])' = n + 1
  BY <1>1, <1>3, <1>6 DEF Sent
<1>14. Private(i)'
  BY <1>4, <1>8 DEF Private
<1>15. Arrived(th[t])'
  BY <1>3, <1>4, <1>6, <1>8, <1>10, <1>13 DEF Arrived, Agree
<1>16. ASSUME p \notin ambiguous' PROVE Counts(th[t])'
  <2>1. Counts(th[t])
    BY <1>4, <1>10, <1>16
  <2>2. Vers(th[t].path)' = Vers(p)
    BY <1>6, <1>10 DEF Vers, Versioned
  <2>3. /\ th[t].len >= 1 /\ v >= 1 /\ v + (n + 1) <= Vers(p)
        /\ v + (n + 1) = Vers(p) =>
             /\ p \in DOMAIN served => Len(served[p]) <= th[t].len
             /\ Len(inodes[r]) = n + 1 /\ Agree(inodes[r], inodes[i], n)
    BY <1>3, <1>13, <2>1 DEF Counts
  <2>4. ASSUME v + (n + 1) = Vers(p)
        PROVE  Len(o) = n + 1 /\ Agree(o, inodes[i], n + 1)
    <3>1. Len(inodes[r]) = n + 1 /\ Agree(inodes[r], inodes[i], n)
      BY <2>3, <2>4
    <3>2. Len(o) = n + 1
      BY <1>4, <1>9, <3>1
    <3>3. ASSUME NEW j \in 1..(n + 1) PROVE o[j] = inodes[i][j]
      <4>1. CASE j = n + 1
        BY <1>9, <4>1 DEF c
      <4>2. CASE j # n + 1
        <5>1. j \in 1..n /\ j \in 1..Len(inodes[r])
          BY <1>4, <3>1, <3>3, <4>2
        <5> QED
          BY <1>9, <3>1, <4>2, <5>1 DEF Agree
      <4> QED
        BY <4>1, <4>2
    <3> QED
      BY <3>2, <3>3 DEF Agree
  <2> QED
    BY <1>6, <1>8, <1>10, <1>13, <2>2, <2>3, <2>4 DEF Counts
<1>17. Closing(t)'
  <2>1. Private(th[t].copy)' /\ Cached(SharedKey(t))'
    BY <1>4, <1>6, <1>8, <1>11, <1>14 DEF Cached
  <2>2. SharedKey(t)' \in DOMAIN disk' /\ th'[t].raf = disk'[SharedKey(t)']
    BY <1>4, <1>6, <1>8, <1>11
  <2>3. th'[t].len = Len(inodes'[th'[t].copy]) /\ Sent(th[t])' <= th'[t].len
    BY <1>4, <1>6, <1>8, <1>13
  <2> QED
    BY <1>6, <1>15, <1>16, <2>1, <2>2, <2>3 DEF Closing, Unsent
<1>18. Locks(t)' /\ Opens(t)'
  BY <1>6 DEF Locks, Opens, At, Succeeding
<1> QED
  BY <1>12, <1>17, <1>18 DEF SessionInv

\* What updateFile does to a file that has a version: the next version, and the
\* chunk in its place.
LEMMA UpdateWritten ==
    ASSUME ServerOK, NEW p \in Paths, NEW n \in Nat, NEW c \in Chunks, Bumps(p),
           updateFile(p, n, c)
    PROVE  /\ Vers(p)' = Vers(p) + 1 /\ Vers(p) \in Nat /\ p \in DOMAIN max_versions'
           /\ \A q : q # p => SteadyAt(q)
           /\ p \in DOMAIN served' /\ served'[p] \in Seq(Chunks)
           /\ Len(served'[p]) >= n + 1 /\ served'[p][n + 1] = c
           /\ p \in DOMAIN served =>
                /\ served[p] \in Seq(Chunks)
                /\ \A j \in 1..Len(served[p]) : j # n + 1 => served'[p][j] = served[p][j]
           /\ \A m \in Nat : m >= n + 1 /\ (p \in DOMAIN served => Len(served[p]) <= m) =>
                Len(served'[p]) <= m
<1> DEFINE s == IF p \in DOMAIN served THEN served[p] ELSE <<>>
<1>1. /\ served' = With(served, p, Overlay(s, n, c))
      /\ max_versions' = [max_versions EXCEPT ![p] = NextVersion(@)]
      /\ p \in DOMAIN max_versions
  BY DEF updateFile, Bumps
<1>2. s \in Seq(Chunks)
  BY DEF ServerOK
<1>3. p \in DOMAIN served => s = served[p]
  OBVIOUS
<1>4. p \notin DOMAIN served => Len(s) = 0
  OBVIOUS
<1> HIDE DEF s
<1>5. /\ Overlay(s, n, c) \in Seq(Chunks)
      /\ Len(Overlay(s, n, c)) = (IF n < Len(s) THEN Len(s) ELSE n + 1)
      /\ Overlay(s, n, c)[n + 1] = c
      /\ \A j \in 1..Len(s) : j # n + 1 => Overlay(s, n, c)[j] = s[j]
  BY <1>2, OverlayWritten
<1>6. served'[p] = Overlay(s, n, c) /\ p \in DOMAIN served'
  BY <1>1 DEF With
<1>7. max_versions[p] \in Nat /\ max_versions'[p] = max_versions[p] + 1
         /\ DOMAIN max_versions' = DOMAIN max_versions
  BY <1>1 DEF ServerOK, NextVersion
<1>8. Vers(p)' = Vers(p) + 1 /\ Vers(p) \in Nat
  BY <1>1, <1>7 DEF Vers, Versioned
<1>9. ASSUME NEW q, q # p PROVE SteadyAt(q)
  <2>1. max_versions'[q] = max_versions[q] \/ q \notin DOMAIN max_versions
    BY <1>1, <1>9
  <2>2. Vers(q)' = Vers(q)
    BY <1>7, <2>1 DEF Vers, Versioned, With
  <2>3. q \in DOMAIN served' => q \in DOMAIN served /\ served'[q] = served[q]
    BY <1>1, <1>9 DEF With
  <2> QED
    BY <1>7, <2>2, <2>3 DEF SteadyAt
<1>10. Len(served'[p]) >= n + 1
  BY <1>2, <1>5, <1>6
<1>11. ASSUME NEW m \in Nat, m >= n + 1, p \in DOMAIN served => Len(served[p]) <= m
       PROVE  Len(served'[p]) <= m
  <2>1. Len(s) \in Nat
    BY <1>2
  <2>2. Len(s) <= m
    BY <1>3, <1>4, <1>11, <2>1
  <2>3. Len(served'[p]) = (IF n < Len(s) THEN Len(s) ELSE n + 1)
    BY <1>5, <1>6
  <2> QED
    BY <1>11, <2>1, <2>2, <2>3
<1> QED
  BY <1>1, <1>2, <1>3, <1>5, <1>6, <1>7, <1>8, <1>9, <1>10, <1>11

\* The server has a new version, and every cached file of that path is older.
LEMMA SendChunkSession ==
    ASSUME TypeInv, TypeInv', NEW t \in Threads, SessionInv(t), History, SendChunk(t),
           Bumps(th[t].path)
    PROVE  SessionInv(t)'
<1>1. /\ th[t].pc = "send" /\ th[t].pos < th[t].len
      /\ WriteChunk(th[t].raf, th[t].pos, Zero)
      /\ updateFile(th[t].path, th[t].pos, inodes[th[t].copy][th[t].pos + 1])
      /\ Go(t, "store") /\ UNCHANGED <<opened, tables>>
  BY DEF SendChunk, At
<1>2. th[t].pc \in Sending
  BY <1>1 DEF Sending
<1>3. PICK k, p, v, i, r, n, c :
        /\ k = SharedKey(t) /\ p = th[t].path /\ v = th[t].ver /\ i = th[t].copy
        /\ r = th[t].raf /\ n = th[t].pos /\ c = inodes[i][n + 1]
  OBVIOUS
<1>4. /\ th[t] \in Locals /\ th[t].op = "CLOSE" /\ ~At(t, "dead") /\ p \in Paths
      /\ n \in Nat /\ v \in Nat /\ th[t].len \in Nat /\ i \in DOMAIN inodes /\ r \in DOMAIN inodes
      /\ inodes[i] \in Seq(Chunks) /\ inodes[r] \in Seq(Chunks) /\ k \in Keys /\ k.fd = Shared
      /\ k.path = p
      /\ k \in DOMAIN disk /\ r = disk[k] /\ Cached(k) /\ Private(i) /\ r # i
      /\ th[t].len = Len(inodes[i])
      /\ Arrived(th[t]) /\ (p \notin ambiguous => Counts(th[t]))
      /\ FilesCurrent(t) /\ NamesApart(t) /\ Copies
  BY <1>2, <1>3, SendingKnows
<1>5. /\ th'[t].pc = "store" /\ th'[t].op = "CLOSE" /\ th'[t].path = p /\ th'[t].ver = v
      /\ th'[t].copy = i /\ th'[t].raf = r /\ th'[t].pos = n /\ th'[t].len = th[t].len
  BY <1>1, <1>3, <1>4, GoneOn DEF TypeInv, Ending
<1>6. c \in Chunks /\ Zero \in Chunks /\ n + 1 <= th[t].len
  BY <1>1, <1>3, <1>4, ChunksAssumption
<1>7. WriteChunk(r, n, Zero) /\ updateFile(p, n, c) /\ Bumps(p)
  BY <1>1, <1>3
<1>8. /\ Vers(p)' = Vers(p) + 1 /\ Vers(p) \in Nat /\ p \in DOMAIN max_versions'
      /\ \A q : q # p => SteadyAt(q)
      /\ p \in DOMAIN served' /\ served'[p] \in Seq(Chunks)
      /\ Len(served'[p]) >= n + 1 /\ served'[p][n + 1] = c
      /\ p \in DOMAIN served =>
           /\ served[p] \in Seq(Chunks)
           /\ \A j \in 1..Len(served[p]) : j # n + 1 => served'[p][j] = served[p][j]
      /\ \A m \in Nat : m >= n + 1 /\ (p \in DOMAIN served => Len(served[p]) <= m) =>
           Len(served'[p]) <= m
  BY <1>4, <1>6, <1>7, UpdateWritten DEF TypeInv
<1>9. /\ cache' = cache /\ disk' = disk /\ InodesGrow
      /\ inodes' = [inodes EXCEPT ![r] = Overlay(inodes[r], n, Zero)]
  BY <1>4, <1>6, <1>7, WriteEffect DEF WriteChunk, TypeInv
<1>10. /\ inodes'[i] = inodes[i] /\ inodes'[r] = Overlay(inodes[r], n, Zero)
       /\ \A m \in DOMAIN inodes : m # r => inodes'[m] = inodes[m]
  BY <1>4, <1>9
<1>11. /\ inodes'[r] \in Seq(Chunks)
       /\ Len(inodes'[r]) = (IF n < Len(inodes[r]) THEN Len(inodes[r]) ELSE n + 1)
       /\ \A j \in 1..Len(inodes[r]) : j # n + 1 => inodes'[r][j] = inodes[r][j]
  <2>1. inodes[r] \in Seq(Chunks) /\ n \in Nat /\ Zero \in Chunks
    BY <1>4, <1>6
  <2>2. /\ Overlay(inodes[r], n, Zero) \in Seq(Chunks)
        /\ Len(Overlay(inodes[r], n, Zero)) =
             (IF n < Len(inodes[r]) THEN Len(inodes[r]) ELSE n + 1)
        /\ \A j \in 1..Len(inodes[r]) :
             j # n + 1 => Overlay(inodes[r], n, Zero)[j] = inodes[r][j]
    BY <2>1, OverlayWritten
  <2> QED
    BY <1>10, <2>2
<1>12. ambiguous \subseteq ambiguous'
  BY HistoryGrows
<1>13. SharedKey(t)' = k
  BY <1>3, <1>4, <1>5 DEF SharedKey
<1>14. \A j : UnderWay(t, j) => UnderWay(t, j)'
  BY <1>1, <1>3, <1>4, <1>5, StillUnderWay DEF At
<1>15. FilesCurrent(t)'
  <2>1. ASSUME NEW j \in Keys, j.fd = Shared, j.path \notin ambiguous', ~UnderWay(t, j)',
               Cached(j)' \/ j \in DOMAIN disk'
        PROVE  UpToDate(j)' \/ (~UnderWay(t, j) /\ Kept(j) /\ SteadyAt(j.path))
    <3>1. ~UnderWay(t, j) /\ j # k
      BY <1>3, <1>4, <1>14, <2>1 DEF UnderWay
    <3>2. Cached(j)' = Cached(j) /\ (j \in DOMAIN disk' <=> j \in DOMAIN disk)
      BY <1>9 DEF Cached
    <3>3. CASE j.path = p
      <4>1. UpToDate(j)
        BY <1>4, <1>12, <2>1, <3>1, <3>2 DEF FilesCurrent
      <4>2. Cached(j) /\ j.ver \in 1..Vers(p)
        BY <3>3, <4>1 DEF UpToDate
      <4>3. j.ver \in 1..Vers(p)' /\ j.ver # Vers(p)'
        BY <1>8, <4>2
      <4>4. UpToDate(j)'
        BY <1>8, <3>2, <3>3, <4>2, <4>3 DEF UpToDate
      <4> QED
        BY <4>4
    <3>4. CASE j.path # p
      <4>1. j \in DOMAIN disk => disk[j] \in DOMAIN inodes /\ disk[j] # r
        BY <1>4, <3>1 DEF NamesApart, TypeInv, FilesOK
      <4>2. Holds(j)' = Holds(j)
        BY <1>9, <1>10, <4>1 DEF Holds
      <4>3. Kept(j)
        BY <3>2, <4>2 DEF Kept
      <4> QED
        BY <1>8, <3>1, <3>4, <4>3
    <3> QED
      BY <3>3, <3>4
  <2> QED
    BY <1>4, <1>12, <2>1, FilesStay
<1>16. NoNewName /\ NoNewShare /\ NoNewWriter /\ curr_fd <= curr_fd' /\ ~At(t, "writer")'
  BY <1>1, <1>5, <1>9 DEF NoNewName, NoNewShare, NoNewWriter, tables, TypeInv, FdsOK, At
<1>17. NamesApart(t)'
  BY <1>4, <1>16, NamesStay
<1>18. Copies'
  <2>1. Telling
    <3>1. Vers(p)' > Vers(p)
      BY <1>8
    <3> QED
      BY <1>8, <3>1 DEF Telling, SteadyAt
  <2> QED
    BY <1>4, <1>9, <1>12, <1>16, <2>1, CopiesStay
<1>19. Private(i)'
  BY <1>4, <1>9 DEF Private
<1>20. Sent(th[t]) = n /\ Sent(th[t])' = n + 1
  BY <1>1, <1>3, <1>5 DEF Sent
<1>21. Arrived(th[t])'
  <2>1. ASSUME NEW j \in 1..(n + 1) PROVE served'[p][j] = inodes[i][j]
    <3>1. CASE j = n + 1
      BY <1>3, <1>8, <3>1
    <3>2. CASE j # n + 1
      <4>1. n >= 1 /\ j \in 1..n
        BY <1>4, <2>1, <3>2
      <4>2. p \in DOMAIN served /\ n <= Len(served[p]) /\ Agree(served[p], inodes[i], n)
        BY <1>3, <1>4, <1>20, <4>1 DEF Arrived
      <4>3. Len(served[p]) \in Nat
        BY <1>8, <4>2
      <4>4. j \in 1..Len(served[p])
        BY <1>4, <4>1, <4>2, <4>3
      <4> QED
        BY <1>8, <3>2, <4>1, <4>2, <4>4 DEF Agree
    <3> QED
      BY <3>1, <3>2
  <2>2. Agree(served'[p], inodes'[i], n + 1)
    BY <1>10, <2>1 DEF Agree
  <2>3. n + 1 <= Len(served'[p])
    BY <1>4, <1>8
  <2> QED
    BY <1>5, <1>8, <1>20, <2>2, <2>3 DEF Arrived
<1>22. ASSUME p \notin ambiguous' PROVE Counts(th[t])'
  <2>1. Counts(th[t])
    BY <1>4, <1>12, <1>22
  <2>2. Vers(th[t].path)' = Vers(p)'
    BY <1>5 DEF Vers, Versioned
  <2>3. /\ th[t].len >= 1 /\ v >= 1 /\ v + n <= Vers(p)
        /\ v + n = Vers(p) =>
             /\ p \in DOMAIN served => Len(served[p]) <= th[t].len
             /\ Len(inodes[r]) = n /\ Agree(inodes[r], inodes[i], n)
    BY <1>3, <1>20, <2>1 DEF Counts
  <2>4. v + (n + 1) <= Vers(p)' /\ (v + (n + 1) = Vers(p)' => v + n = Vers(p))
    <3>1. v \in Nat /\ n \in Nat /\ Vers(p) \in Nat /\ v + n <= Vers(p)
      BY <1>4, <1>8, <2>3
    <3>2. Vers(p)' = Vers(p) + 1
      BY <1>8
    <3> QED
      BY <3>1, <3>2
  <2>5. ASSUME v + n = Vers(p)
        PROVE  /\ Len(served'[p]) <= th[t].len
               /\ Len(inodes'[r]) = n + 1 /\ Agree(inodes'[r], inodes'[i], n)
    <3>1. Len(served'[p]) <= th[t].len
      BY <1>4, <1>6, <1>8, <2>3, <2>5
    <3>2. Len(inodes'[r]) = n + 1
      BY <1>4, <1>11, <2>3, <2>5
    <3>3. Agree(inodes'[r], inodes'[i], n)
      <4>1. Len(inodes[r]) = n /\ Agree(inodes[r], inodes[i], n)
        BY <2>3, <2>5
      <4>2. \A j \in 1..n : j # n + 1
        BY <1>4
      <4> QED
        BY <1>10, <1>11, <4>1, <4>2 DEF Agree
    <3> QED
      BY <3>1, <3>2, <3>3
  <2> QED
    BY <1>5, <1>20, <2>2, <2>3, <2>4, <2>5 DEF Counts
<1>23. Closing(t)'
  <2>1. Private(th[t].copy)' /\ Cached(SharedKey(t))'
    BY <1>4, <1>5, <1>9, <1>13, <1>19 DEF Cached
  <2>2. SharedKey(t)' \in DOMAIN disk' /\ th'[t].raf = disk'[SharedKey(t)']
    BY <1>4, <1>5, <1>9, <1>13
  <2>3. th'[t].len = Len(inodes'[th'[t].copy]) /\ Sent(th[t])' <= th'[t].len
    BY <1>4, <1>5, <1>6, <1>10, <1>20
  <2> QED
    BY <1>5, <1>21, <1>22, <2>1, <2>2, <2>3 DEF Closing, Unsent
<1>24. Locks(t)' /\ Opens(t)'
  BY <1>5 DEF Locks, Opens, At, Succeeding
<1> QED
  BY <1>15, <1>17, <1>18, <1>23, <1>24 DEF SessionInv

\* The file a close has sent, if its version is the server's, is of one chunk.
LEMMA ReleaseSession ==
    ASSUME TypeInv, TypeInv', NEW t \in Threads, SessionInv(t), History, Release(t)
    PROVE  SessionInv(t)'
<1>1. /\ th[t].pc = "release" /\ RemoveWriter(CopyKey(t)) /\ Forget(t, th[t].fd)
      /\ th' = [th EXCEPT ![t] = Idle] /\ UNCHANGED <<serverVars, curr_fd>>
  BY DEF Release, Return, At
<1>2. th[t].pc \in Sending
  BY <1>1 DEF Sending
<1>3. PICK k, p, v, i, r, n :
        /\ k = SharedKey(t) /\ p = th[t].path /\ v = th[t].ver /\ i = th[t].copy
        /\ r = th[t].raf /\ n = th[t].pos
  OBVIOUS
<1>4. /\ th[t].op = "CLOSE" /\ ~At(t, "dead") /\ p \in Paths
      /\ n \in Nat /\ v \in Nat
      /\ inodes[i] \in Seq(Chunks) /\ inodes[r] \in Seq(Chunks) /\ k \in Keys /\ k.fd = Shared
      /\ k.path = p /\ k.ver = v + 1
      /\ k \in DOMAIN disk /\ r = disk[k] /\ Cached(k)
      /\ th[t].len = Len(inodes[i]) /\ Sent(th[t]) = th[t].len
      /\ Arrived(th[t]) /\ (p \notin ambiguous => Counts(th[t]))
  BY <1>1, <1>2, <1>3, SendingKnows
<1>5. Sent(th[t]) = n /\ th[t].len = n
  BY <1>1, <1>3, <1>4 DEF Sent
<1>6. th'[t] = Idle /\ th'[t].pc = "idle" /\ th[t].fd \in Fds
  BY <1>1, <1>2 DEF TypeInv, ThreadsOK, LocalOK, Idle, Ending
<1>7. /\ GivenUp /\ DOMAIN cache'.entries = DOMAIN cache.entries \ {CopyKey(t)}
      /\ DOMAIN disk' = DOMAIN disk \ {CopyKey(t)}
  BY <1>1, WriterGivenUp DEF TypeInv
<1>8. k # CopyKey(t)
  BY <1>4, <1>6 DEF CopyKey, Key, Fds, FirstFd, Shared
<1>9. k \in DOMAIN disk' /\ disk'[k] = disk[k] /\ inodes' = inodes /\ Cached(k)'
  BY <1>4, <1>7, <1>8 DEF GivenUp, Cached
<1>10. Holds(k)' = inodes[r]
  BY <1>4, <1>9 DEF Holds
<1>11. served' = served /\ max_versions' = max_versions /\ ambiguous \subseteq ambiguous'
  BY <1>1, HistoryGrows DEF serverVars
<1>12. ASSUME p \notin ambiguous' PROVE UpToDate(k)'
  <2>1. /\ n >= 1 /\ v >= 1 /\ v + n <= Vers(p)
        /\ v + n = Vers(p) =>
             /\ p \in DOMAIN served => Len(served[p]) <= n
             /\ Len(inodes[r]) = n /\ Agree(inodes[r], inodes[i], n)
    BY <1>3, <1>4, <1>5, <1>11, <1>12 DEF Counts
  <2>2. p \in DOMAIN served /\ n <= Len(served[p]) /\ Agree(served[p], inodes[i], n)
    BY <1>3, <1>4, <1>5, <2>1 DEF Arrived
  <2>3. Vers(p)' = Vers(p) /\ Vers(p) \in Nat
    BY <1>11, VersTyped DEF Vers, Versioned, TypeInv
  <2>4. k.ver \in 1..Vers(p)
    BY <1>4, <2>1, <2>3
  <2>5. p \in DOMAIN max_versions
    <3>1. Vers(p) > 1
      BY <1>4, <2>1, <2>3
    <3>2. p \notin DOMAIN max_versions => Vers(p) = 1
      BY DEF Vers, Versioned, With, FirstVersion
    <3> QED
      BY <3>1, <3>2
  <2>6. ASSUME k.ver = Vers(p) PROVE inodes[r] = served[p]
    <3>1. n = 1 /\ v + n = Vers(p)
      BY <1>4, <2>1, <2>3, <2>6
    <3>2. served[p] \in Seq(Chunks)
      BY <2>2 DEF TypeInv, ServerOK
    <3>3. Len(served[p]) = 1 /\ Len(inodes[r]) = 1
      BY <2>1, <2>2, <3>1, <3>2
    <3>4. served[p][1] = inodes[r][1]
      BY <2>1, <2>2, <3>1 DEF Agree
    <3> QED
      BY <1>4, <3>2, <3>3, <3>4
  <2>7. Vers(k.path)' = Vers(p)
    BY <1>4, <2>3
  <2> QED
    BY <1>4, <1>9, <1>10, <1>11, <2>4, <2>5, <2>6, <2>7 DEF UpToDate
<1>13. FilesCurrent(t)' /\ NamesApart(t)' /\ Copies'
  <2>1. NoNewWriter /\ curr_fd <= curr_fd' /\ Steady /\ ~At(t, "writer")'
    BY <1>1, <1>6, ServerSame, ForgottenWriter DEF TypeInv, FdsOK, At
  <2>2. \A j : UnderWay(t, j) => j = k
    BY <1>3 DEF UnderWay
  <2> QED
    BY <1>4, <1>7, <1>12, <2>1, <2>2, FilesAtGivingUp
<1> QED
  BY <1>6, <1>13, NothingToDo DEF SessionInv

-----------------------------------------------------------------------------
(* The invariant holds                                                     *)

LEMMA StutterSession ==
    ASSUME NEW t, SessionInv(t), UNCHANGED allVars
    PROVE  SessionInv(t)'
<1>1. /\ UNCHANGED <<served, max_versions, cache, disk, inodes, th, opened>>
      /\ UNCHANGED <<fd_paths, fd_files, curr_fd, ambiguous>>
  BY DEF allVars, vars, serverVars, cacheVars, tables
<1>2. /\ \A p : Vers(p)' = Vers(p)
      /\ \A k : Holds(k)' = Holds(k) /\ Cached(k)' = Cached(k)
      /\ SharedKey(t)' = SharedKey(t) /\ CopyKey(t)' = CopyKey(t)
      /\ \A pc : At(t, pc)' = At(t, pc)
  BY <1>1 DEF Vers, Versioned, Holds, Cached, SharedKey, CopyKey, At
<1>3. /\ \A i : Private(i)' = Private(i)
      /\ \A k : UnderWay(t, k)' = UnderWay(t, k)
      /\ \A k : UpToDate(k)' = UpToDate(k)
  BY <1>1, <1>2 DEF Private, UnderWay, UpToDate
<1>4. \A i, p, v : Covers(i, p, v)' = Covers(i, p, v)
  BY <1>1, <1>2 DEF Covers
<1>5. Started(th[t])' = Started(th[t]) /\ Arrived(th[t])' = Arrived(th[t])
  <2>1. Begun(th[t])' = Begun(th[t])
    BY <1>1, <1>2 DEF Begun
  <2>2. \A k : Cached(k)' = Cached(k)
    BY <1>2
  <2> QED
    BY <1>1, <2>1, <2>2 DEF Started, Arrived, Sent
<1>6. Counts(th[t])' = Counts(th[t])
  BY <1>1, <1>2 DEF Counts, Sent
<1>7. /\ FilesCurrent(t)' = FilesCurrent(t)
      /\ NamesApart(t)' = NamesApart(t)
      /\ Copies' = Copies
  BY <1>1, <1>2, <1>3, <1>4 DEF FilesCurrent, NamesApart, Copies
<1>8. Locks(t)' = Locks(t)
  BY <1>1, <1>2 DEF Locks
<1>9. Opens(t)' = Opens(t)
  BY <1>1, <1>2, <1>5 DEF Opens
<1>10. Closing(t)' = Closing(t)
  BY <1>1, <1>2, <1>3, <1>4, <1>5, <1>6 DEF Closing, Sent
<1> QED
  BY <1>2, <1>7, <1>8, <1>9, <1>10 DEF SessionInv

LEMMA CallSession ==
    ASSUME TypeInv, TypeInv', NEW t \in Threads, SessionInv(t), History, Call(t)
    PROVE  SessionInv(t)'
<1>1. ASSUME NEW p \in Paths, NEW o \in Modes[t], Open(t, p, o) PROVE SessionInv(t)'
  BY <1>1, OpenSession
<1>2. ASSUME NEW fd \in Fds, NEW pos \in 0..MaxChunks, Write(t, fd, pos)
      PROVE  SessionInv(t)'
  <2>1. pos \in Nat
    BY ProxyAssumption
  <2> QED
    BY <1>2, <2>1, WriteSession
<1>3. ASSUME NEW fd \in Fds,
             \/ CloseReader(t, fd) \/ CloseWriter(t, fd)
             \/ CloseLost(t, fd) \/ CloseUnknown(t, fd)
      PROVE  SessionInv(t)'
  <2>1. CASE CloseReader(t, fd)
    BY <2>1, CloseReaderSession
  <2>2. CASE CloseWriter(t, fd)
    BY <2>2, CloseWriterSession
  <2>3. CASE CloseLost(t, fd)
    BY <2>3, CloseLostSession
  <2>4. CASE CloseUnknown(t, fd)
    <3>1. Die(t)
      BY <2>4 DEF CloseUnknown
    <3> QED
      BY <3>1, DeadSession
  <2> QED
    BY <1>3, <2>1, <2>2, <2>3, <2>4
<1>4. ASSUME NEW p \in Paths, Unlink(t, p) PROVE SessionInv(t)'
  BY <1>4, UnlinkSession
<1> QED
  BY <1>1, <1>2, <1>3, <1>4 DEF Call

LEMMA OpenStepSession ==
    ASSUME TypeInv, TypeInv', HeldInv, ~raced, NEW t \in Threads, SessionInv(t), History,
           OpenStep(t)
    PROVE  SessionInv(t)'
<1>1. CASE OpenRefused(t) \/ OpenMiss(t)
  BY <1>1, OpenRefusedSession, OpenMissSession
<1>2. CASE OpenHit(t)
  BY <1>2, OpenHitReadSession, OpenHitWriteSession
<1>3. CASE FetchLength(t) \/ FetchChunk(t)
  BY <1>3, FetchLengthSession, FetchChunkSession
<1>4. CASE FetchFails(t)
  <2>1. Die(t)
    BY <1>4 DEF FetchFails
  <2> QED
    BY <2>1, DeadSession
<1>5. CASE CachePut(t) \/ Count(t) \/ Unlock(t)
  BY <1>5, CachePutSession, CountSession, UnlockSession
<1>6. CASE ReadFd(t) \/ BumpFd(t) \/ OpenReader(t)
  BY <1>6, ReadFdSession, BumpFdSession, OpenReaderSession
<1>7. CASE OpenWriter(t) \/ CopyChunk(t)
  BY <1>7, OpenWriterSession, CopyChunkSession
<1>8. CASE PutCopy(t) \/ OwnCopy(t)
  BY <1>8, PutCopySession, OwnCopySession
<1> QED
  BY <1>1, <1>2, <1>3, <1>4, <1>5, <1>6, <1>7, <1>8 DEF OpenStep

LEMMA CloseStepSession ==
    ASSUME TypeInv, TypeInv', NEW t \in Threads, SessionInv(t), History, CloseStep(t)
    PROVE  SessionInv(t)'
<1>1. CASE StaleScan(t) \/ StaleDrop(t)
  BY <1>1, StaleScanSession, StaleDropSession
<1>2. CASE ClosePut(t) \/ CloseLengths(t)
  BY <1>2, ClosePutSession, CloseLengthsSession
<1>3. CASE SendChunk(t)
  <2>1. CASE Bumps(th[t].path)
    BY <1>3, <2>1, SendChunkSession
  <2>2. CASE ~Bumps(th[t].path)
    <3>1. Die(t)
      BY <1>3, <2>2 DEF SendChunk
    <3> QED
      BY <3>1, DeadSession
  <2> QED
    BY <2>1, <2>2
<1>4. CASE StoreChunk(t) \/ SettleRead(t)
  BY <1>4, StoreChunkSession, SettleReadSession
<1>5. CASE SettleWrite(t) \/ Release(t)
  BY <1>5, SettleWriteSession, ReleaseSession
<1> QED
  BY <1>1, <1>2, <1>3, <1>4, <1>5 DEF CloseStep

LEMMA SessionInductive ==
    ASSUME TypeInv, TypeInv', HeldInv, ~raced, NEW t, Threads = {t},
           SessionInv(t), [Next]_allVars
    PROVE  SessionInv(t)'
<1>1. t \in Threads
  OBVIOUS
<1>2. CASE UNCHANGED allVars
  BY <1>2, StutterSession
<1>3. CASE Next
  <2>1. History /\ (Call(t) \/ OpenStep(t) \/ CloseStep(t))
    BY <1>3 DEF Next
  <2> QED
    BY <1>1, <2>1, CallSession, OpenStepSession, CloseStepSession
<1> QED
  BY <1>2, <1>3

LEMMA SessionInitially ==
    ASSUME Init, NEW t \in Threads
    PROVE  SessionInv(t)
<1>1. /\ DOMAIN disk = {} /\ DOMAIN cache.entries = {} /\ DOMAIN fd_paths = {}
      /\ th[t] = Idle
  BY DEF Init
<1>2. th[t].pc = "idle" /\ th[t].op = "none"
  BY <1>1 DEF Idle
<1>3. FilesCurrent(t) /\ NamesApart(t) /\ Copies
  BY <1>1, <1>2 DEF FilesCurrent, NamesApart, Copies, Cached, At
<1>4. Locks(t) /\ Opens(t) /\ Closing(t)
  BY <1>2 DEF Locks, Opens, Closing, At, Succeeding
<1> QED
  BY <1>3, <1>4 DEF SessionInv

-----------------------------------------------------------------------------
(* What the client sees                                                    *)

\* A reader takes the cached file, which is current.
LEMMA ReaderIsFresh ==
    ASSUME TypeInv, NEW t \in Threads, SessionInv(t), OpenReader(t),
           NEW fd \in opened'[t] \ opened[t], fd_paths'[fd].path \notin ambiguous
    PROVE  /\ fd_paths'[fd].path \in DOMAIN served
           /\ inodes[fd_files'[fd]] = served[fd_paths'[fd].path]
<1>1. /\ th[t].pc = "reader" /\ fd_paths' = Named(t, FALSE)
      /\ IF SharedKey(t) \in DOMAIN disk
         THEN /\ fd_files' = With(fd_files, th[t].fd, disk[SharedKey(t)])
              /\ opened' = [opened EXCEPT ![t] = @ \cup {th[t].fd}]
         ELSE opened' = opened
  BY DEF OpenReader, At
<1>2. /\ SharedKey(t) \in DOMAIN disk /\ fd = th[t].fd
      /\ fd_files'[fd] = disk[SharedKey(t)] /\ fd_paths'[fd].path = th[t].path
  BY <1>1 DEF With, Named, TypeInv, TablesOK
<1>3. /\ th[t].pc \notin Resting /\ ~At(t, "dead") /\ ~At(t, "fetch")
      /\ th[t].op = "READ"
  BY <1>1 DEF Resting, At, TypeInv, ThreadsOK, LocalOK
<1>4. /\ SharedKey(t) \in Keys /\ SharedKey(t).fd = Shared
      /\ SharedKey(t).path = th[t].path /\ SharedKey(t).ver = th[t].ver
  BY <1>3, Making
<1>5. UpToDate(SharedKey(t))
  <2>1. ~UnderWay(t, SharedKey(t))
    BY <1>3 DEF UnderWay
  <2> QED
    BY <1>2, <1>3, <1>4, <2>1 DEF SessionInv, FilesCurrent
<1>6. th[t].path \in DOMAIN served /\ th[t].ver = Vers(th[t].path)
  BY <1>1, <1>2, <1>3 DEF SessionInv, Opens, Succeeding, Started, Begun
<1>7. Holds(SharedKey(t)) = served[th[t].path]
  BY <1>4, <1>5, <1>6 DEF UpToDate
<1> QED
  BY <1>2, <1>6, <1>7 DEF Holds

\* A writer takes a private copy of it.
LEMMA WriterIsFresh ==
    ASSUME TypeInv, NEW t \in Threads, SessionInv(t), OwnCopy(t),
           NEW fd \in opened'[t] \ opened[t], fd_paths'[fd].path \notin ambiguous
    PROVE  /\ fd_paths'[fd].path \in DOMAIN served
           /\ inodes[fd_files'[fd]] = served[fd_paths'[fd].path]
<1>1. /\ th[t].pc = "own" /\ fd_paths' = fd_paths /\ fd_files' = fd_files
      /\ opened' = [opened EXCEPT ![t] = @ \cup {th[t].fd}]
  BY DEF OwnCopy, At, tables
<1>2. fd = th[t].fd
  BY <1>1 DEF TypeInv, TablesOK
<1>3. ~At(t, "dead")
  BY <1>1 DEF At
<1>4. /\ fd_files[th[t].fd] = th[t].copy
      /\ fd_paths[th[t].fd].path = th[t].path
  BY <1>1, <1>3 DEF SessionInv, Opens, At
<1>5. Started(th[t])
  BY <1>1, <1>2, <1>3, <1>4 DEF SessionInv, Opens, Succeeding
<1> QED
  BY <1>1, <1>2, <1>4, <1>5 DEF Started, Begun

\* No other step adds to the descriptors of a client.
LEMMA NothingElseOpens ==
    ASSUME TypeInv, NEW t \in Threads, Call(t) \/ OpenStep(t) \/ CloseStep(t),
           ~OpenReader(t), ~OwnCopy(t)
    PROVE  opened'[t] \subseteq opened[t]
<1>1. opened \in [Threads -> SUBSET Fds]
  BY DEF TypeInv, TablesOK
<1>2. CASE Call(t)
  <2>1. \/ opened' = opened
        \/ \E fd : opened' = [opened EXCEPT ![t] = @ \ {fd}]
    BY <1>2 DEF Call, Open, Write, Unlink, CloseReader, CloseWriter, CloseLost, CloseUnknown,
                Forget
  <2> QED
    BY <1>1, <2>1
<1>3. CASE OpenStep(t)
  <2>1. opened' = opened
    BY <1>3 DEF OpenStep, OpenRefused, OpenHit, OpenMiss, FetchLength, FetchChunk, FetchFails,
                CachePut, Count, Unlock, ReadFd, BumpFd, OpenWriter, CopyChunk, PutCopy
  <2> QED
    BY <2>1
<1>4. CASE CloseStep(t)
  <2>1. \/ opened' = opened
        \/ \E fd : opened' = [opened EXCEPT ![t] = @ \ {fd}]
    BY <1>4 DEF CloseStep, StaleScan, StaleDrop, ClosePut, CloseLengths, SendChunk, StoreChunk,
                SettleRead, SettleWrite, Release, Forget
  <2> QED
    BY <1>1, <2>1
<1> QED
  BY <1>2, <1>3, <1>4

\* With one client, whatever it has opened, written, closed and unlinked before
\* and however small the cache, a descriptor starts out with what the server has
\* when open returns (Proxy.java 63-408), but for a file whose versions no longer
\* tell its contents apart.
THEOREM OpensAreFresh ==
    ASSUME NEW c, Threads = {c}
    PROVE  Spec => FreshOnOpen
<1> DEFINE Calm == TypeInv /\ HeldInv /\ ~raced
<1>1. Init => Calm /\ SessionInv(c)
  BY TypesInitially, HeldInitially, SessionInitially DEF Init
<1>2. Calm /\ [Next]_allVars => Calm'
  BY TypesInductive, HeldInductive, NoRaceAlone
<1>3. Calm /\ Calm' /\ SessionInv(c) /\ [Next]_allVars => SessionInv(c)'
  BY SessionInductive
<1>4. Calm /\ SessionInv(c) /\ [Next]_allVars =>
        [~raced =>
           \A t \in Threads \ disturbed : \A fd \in opened'[t] \ opened[t] :
             LET p == fd_paths'[fd].path
             IN  p \notin ambiguous =>
                   p \in DOMAIN served /\ inodes[fd_files'[fd]] = served[p]]_vars
  <2> SUFFICES ASSUME Calm, SessionInv(c), Next,
                      NEW fd \in opened'[c] \ opened[c], fd_paths'[fd].path \notin ambiguous
               PROVE  /\ fd_paths'[fd].path \in DOMAIN served
                      /\ inodes[fd_files'[fd]] = served[fd_paths'[fd].path]
    BY DEF allVars
  <2>1. c \in Threads /\ (Call(c) \/ OpenStep(c) \/ CloseStep(c))
    BY DEF Next
  <2>2. CASE OpenReader(c)
    BY <2>1, <2>2, ReaderIsFresh
  <2>3. CASE OwnCopy(c)
    BY <2>1, <2>3, WriterIsFresh
  <2>4. CASE ~OpenReader(c) /\ ~OwnCopy(c)
    <3>1. opened'[c] \subseteq opened[c]
      BY <2>1, <2>4, NothingElseOpens
    <3> QED
      BY <3>1
  <2> QED
    BY <2>2, <2>3, <2>4
<1> HIDE DEF Calm
<1> QED
  BY <1>1, <1>2, <1>3, <1>4, PTL DEF Spec, FreshOnOpen

\* With one client, when a close returns the server's file begins with the copy
\* that was closed, whatever was removed, sent or evicted before (p2-design.pdf;
\* Proxy.java 416-492, Server.java 74-107).
THEOREM ClosesWin ==
    ASSUME NEW c, Threads = {c}
    PROVE  Spec => LastCloseWins
<1> DEFINE Calm == TypeInv /\ HeldInv /\ ~raced
<1>1. Init => Calm /\ SessionInv(c)
  BY TypesInitially, HeldInitially, SessionInitially DEF Init
<1>2. Calm /\ [Next]_allVars => Calm'
  BY TypesInductive, HeldInductive, NoRaceAlone
<1>3. Calm /\ Calm' /\ SessionInv(c) /\ [Next]_allVars => SessionInv(c)'
  BY SessionInductive
<1>4. Calm /\ SessionInv(c) =>
        [\A t \in Threads :
           At(t, "release") /\ ~At(t, "release")' /\ th[t].path \in DOMAIN served =>
             IsPrefix(inodes[th[t].copy], served[th[t].path])]_vars
  <2> SUFFICES ASSUME Calm, SessionInv(c), At(c, "release"), th[c].path \in DOMAIN served
               PROVE  IsPrefix(inodes[th[c].copy], served[th[c].path])
    OBVIOUS
  <2> DEFINE s == inodes[th[c].copy]
             u == served[th[c].path]
  <2>1. th[c].pc \in Sending /\ c \in Threads /\ th[c].pc = "release"
    BY DEF Sending, At
  <2>2. /\ s \in Seq(Chunks) /\ th[c].len = Len(s) /\ Sent(th[c]) = th[c].len
        /\ Arrived(th[c])
    BY <2>1, SendingKnows
  <2>3. u \in Seq(Chunks)
    BY DEF TypeInv, ServerOK
  <2>4. Len(s) >= 1 => Len(s) <= Len(u) /\ Agree(u, s, Len(s))
    BY <2>2 DEF Arrived
  <2> HIDE DEF s, u
  <2>5. Len(s) \in Nat /\ Len(u) \in Nat
    BY <2>2, <2>3
  <2>6. Len(s) <= Len(u) /\ Agree(u, s, Len(s))
    <3>1. CASE Len(s) = 0
      BY <2>5, <3>1 DEF Agree
    <3>2. CASE Len(s) # 0
      <4>1. Len(s) >= 1
        BY <2>5, <3>2
      <4> QED
        BY <2>4, <4>1
    <3> QED
      BY <3>1, <3>2
  <2>7. SubSeq(s, 1, Len(s)) = SubSeq(u, 1, Len(s))
    <3>1. /\ SubSeq(s, 1, Len(s)) \in Seq(Chunks) /\ SubSeq(u, 1, Len(s)) \in Seq(Chunks)
          /\ Len(SubSeq(s, 1, Len(s))) = Len(s) /\ Len(SubSeq(u, 1, Len(s))) = Len(s)
      BY <2>2, <2>3, <2>5, <2>6
    <3>2. \A i \in 1..Len(s) : SubSeq(s, 1, Len(s))[i] = SubSeq(u, 1, Len(s))[i]
      BY <2>2, <2>3, <2>5, <2>6 DEF Agree
    <3> QED
      BY <3>1, <3>2
  <2> QED
    BY <2>6, <2>7 DEF IsPrefix, s, u
<1> HIDE DEF Calm
<1> QED
  BY <1>1, <1>2, <1>3, <1>4, PTL DEF Spec, LastCloseWins
=============================================================================
