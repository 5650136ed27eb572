----------------------------- MODULE CachingProxy -----------------------------
(***************************************************************************)
(* Project 2, src/15440-p2/handin/Proxy.java: the file-caching proxy.  One *)
(* thread per client runs open, write, close and unlink; the threads share *)
(* the cache, the cache directory and the server.  open fills the cache    *)
(* under cache_lock, close does not take it.  A step is one remote call,   *)
(* one chunk copied, or one access to the shared tables.                   *)
(*                                                                         *)
(* A call that ends in a runtime exception ends its client's connection    *)
(* (the RPC library does not catch it): "dead".                            *)
(***************************************************************************)
EXTENDS ProxyCache

CONSTANTS
    Threads,        \* clients, each with a thread and a FileHandler
    Modes,          \* the calls each makes: options of open, and "UNLINK"
    Original,       \* what the server has under root_dir at first
    MaxFd,          \* bound: descriptors
    MaxChunks       \* bound: length of a file

FirstFd == 3        \* curr_fd in main
Fds == FirstFd..MaxFd

ASSUME ProxyAssumption ==
    /\ DOMAIN Original \subseteq Paths
    /\ Original \in [DOMAIN Original -> Seq(Chunks)]
    /\ Modes \in [Threads -> SUBSET {"READ", "WRITE", "CREATE", "CREATE_NEW",
                                     "UNLINK"}]
    /\ Fds \subseteq Chunks
    /\ max_size \in Nat /\ MaxFd \in Nat /\ MaxChunks \in Nat
    /\ IsFiniteSet(Threads)

VARIABLES
    th,         \* the locals of each thread
    opened,     \* the descriptors each client holds
    fd_paths,   \* fd to the path and version it stands for
    fd_files,   \* fd to the inode it reads or writes
    curr_fd,
    cache_lock, \* who holds it: at most one thread
    disturbed,  \* history: whose open was Overlapped, for FreshOnOpen
    raced,      \* history: whether two getFd ever overlapped
    ambiguous   \* history: files with a version that stands for two contents

tables == <<fd_paths, fd_files, curr_fd>>
vars == <<serverVars, cacheVars, th, opened, tables, cache_lock>>
allVars == <<vars, disturbed, raced, ambiguous>>

Idle == [pc |-> "idle", op |-> "none", path |-> "none", ver |-> 0,
         fd |-> Shared, raf |-> 0, copy |-> 0, pos |-> 0, len |-> 0, old |-> 0,
         victims |-> {}]

Init ==
    /\ served = Original
    /\ max_versions = <<>>
    /\ cache = [entries |-> <<>>, clients |-> <<>>, size |-> 0]
    /\ disk = <<>>
    /\ inodes = <<>>
    /\ th = [t \in Threads |-> Idle]
    /\ opened = [t \in Threads |-> {}]
    /\ fd_paths = <<>>
    /\ fd_files = <<>>
    /\ curr_fd = FirstFd
    /\ cache_lock = {}
    /\ disturbed = {}
    /\ raced = FALSE
    /\ ambiguous = {}

-----------------------------------------------------------------------------
At(t, pc) == th[t].pc = pc
Go(t, pc) == th' = [th EXCEPT ![t].pc = pc]
Return(t) == th' = [th EXCEPT ![t] = Idle]
Die(t) == th' = [th EXCEPT ![t] = [Idle EXCEPT !.pc = "dead"]]

LockFree == cache_lock = {}
\* Bug: whoever has it.
Barged(t) == cache_lock' = {t}
Locked(t) == LockFree /\ cache_lock' = {t}
Unlocked == cache_lock' = {}

NewVersion(ver) == ver + 1

\* curr_pos += buf.length.  Bug: it is forgotten.
SamePos(pos) == pos
NextPos(pos) == pos + 1

\* The cached file a call is about: a writer closes into the next version.
SharedKey(t) == Key(th[t].path, IF th[t].op = "CLOSE" THEN NewVersion(th[t].ver)
                                ELSE th[t].ver, Shared)
CopyKey(t) == Key(th[t].path, th[t].ver, th[t].fd)
FdKey(fd) == Key(fd_paths[fd].path, fd_paths[fd].ver,
                 IF fd_paths[fd].write THEN fd ELSE Shared)

Reading(t) == th[t].op = "READ"
Creating(t) == th[t].op \in {"CREATE", "CREATE_NEW"}

-----------------------------------------------------------------------------
(* open: the version, then the cache under cache_lock                      *)

\* The open calls that still take a descriptor, or may.
Opening(t) == th[t].pc \in {"lock", "length", "fetch", "count", "unlock", "fd",
                           "bump"}

Open(t, p, o) ==
    /\ At(t, "idle")
    /\ curr_fd + Cardinality({u \in Threads : Opening(u)}) \in Fds
    /\ ~raced      \* bound: no open after a race
    /\ o # "UNLINK"
    /\ serverExists(p)
    /\ th' = [th EXCEPT ![t] = [Idle EXCEPT !.pc = "lock", !.op = o,
                                  !.path = p, !.ver = VersionFound(p)]]
    /\ UNCHANGED <<cacheVars, opened, tables, cache_lock>>

\* EEXIST or ENOENT
Refused(t) ==
    IF th[t].op = "CREATE_NEW"
    THEN Cached(SharedKey(t)) \/ th[t].ver # 0
           \/ Key(th[t].path, 1, Shared) \in DOMAIN disk
    ELSE ~Cached(SharedKey(t)) /\ th[t].ver = 0 /\ ~Creating(t)

OpenRefused(t) ==
    /\ At(t, "lock")
    /\ LockFree
    /\ Refused(t)
    /\ Return(t)
    /\ UNCHANGED <<serverVars, cacheVars, opened, tables, cache_lock>>

OpenHit(t) ==
    /\ At(t, "lock")
    /\ Locked(t)
    /\ Cached(SharedKey(t)) /\ ~Refused(t)
    /\ cache' = Touched(cache, SharedKey(t))
    /\ IF Reading(t)
       THEN Go(t, "count") /\ UNCHANGED <<disk, inodes>>
       ELSE /\ OpenFile(SharedKey(t))
            /\ th' = [th EXCEPT ![t].pc = "unlock",
                                ![t].raf = InodeOf(SharedKey(t))]
    /\ UNCHANGED <<serverVars, opened, tables>>

\* The file is on the server, or is created there, as version 1.
OpenMiss(t) ==
    /\ At(t, "lock")
    /\ Locked(t)
    /\ ~Cached(SharedKey(t)) /\ ~Refused(t)
    /\ IF th[t].ver = 0 THEN createFile(th[t].path) ELSE UNCHANGED serverVars
    /\ th' = [th EXCEPT ![t].pc = "length",
                        ![t].ver = IF @ = 0 THEN 1 ELSE @]
    /\ UNCHANGED <<cacheVars, opened, tables>>

FetchLength(t) ==
    /\ At(t, "length")
    /\ OpenFile(SharedKey(t))
    /\ getFileLength(th[t].path)
    /\ th' = [th EXCEPT ![t].pc = "fetch",
                        ![t].raf = InodeOf(SharedKey(t)),
                        ![t].len = LengthOf(th[t].path)]
    /\ UNCHANGED <<cache, opened, tables, cache_lock>>

\* When the file now ends at pos, no bytes come and the loop goes on: there
\* is no step.
FetchChunk(t) ==
    /\ At(t, "fetch")
    /\ th[t].pos < th[t].len
    /\ HasChunk(th[t].path, th[t].pos)
    /\ WriteChunk(th[t].raf, th[t].pos, served[th[t].path][th[t].pos + 1])
    /\ th' = [th EXCEPT ![t].pos = NextPos(@)]
    /\ UNCHANGED <<serverVars, opened, tables, cache_lock>>

FetchFails(t) ==
    /\ At(t, "fetch")
    /\ th[t].pos < th[t].len
    /\ NoAnswer(th[t].path, th[t].pos)
    /\ Die(t)
    /\ Unlocked
    /\ UNCHANGED <<serverVars, cacheVars, opened, tables>>

CachePut(t) ==
    /\ At(t, "fetch")
    /\ th[t].pos >= th[t].len
    /\ Put(SharedKey(t))
    /\ Go(t, IF Reading(t) THEN "count" ELSE "unlock")
    /\ UNCHANGED <<serverVars, opened, tables, cache_lock>>

Count(t) ==
    /\ At(t, "count")
    /\ AddClient(SharedKey(t))
    /\ Go(t, "unlock")
    /\ UNCHANGED <<serverVars, opened, tables, cache_lock>>

Unlock(t) ==
    /\ At(t, "unlock")
    /\ Unlocked
    /\ Go(t, "fd")
    /\ UNCHANGED <<serverVars, cacheVars, opened, tables>>

-----------------------------------------------------------------------------
(* open: the descriptor.  getFd is synchronized on the client's own        *)
(* FileHandler, so the getFd of two clients may overlap.                   *)

ReadFd(t) ==
    /\ At(t, "fd")
    /\ th' = [th EXCEPT ![t].pc = "bump", ![t].fd = curr_fd]
    /\ UNCHANGED <<serverVars, cacheVars, opened, tables, cache_lock>>

BumpFd(t) ==
    /\ At(t, "bump")
    /\ curr_fd' = th[t].fd + 1
    /\ Go(t, IF Reading(t) THEN "reader" ELSE "writer")
    /\ UNCHANGED <<serverVars, cacheVars, opened, fd_paths, fd_files,
                   cache_lock>>

Named(t, write) == With(fd_paths, th[t].fd,
                        [path |-> th[t].path, ver |-> th[t].ver,
                         write |-> write])

\* EIO when the file has left the cache directory; fd_paths keeps its entry.
OpenReader(t) ==
    /\ At(t, "reader")
    /\ fd_paths' = Named(t, FALSE)
    /\ IF SharedKey(t) \in DOMAIN disk
       THEN /\ fd_files' = With(fd_files, th[t].fd, disk[SharedKey(t)])
            /\ opened' = [opened EXCEPT ![t] = @ \cup {th[t].fd}]
       ELSE UNCHANGED <<fd_files, opened>>
    /\ Return(t)
    /\ UNCHANGED <<serverVars, cacheVars, curr_fd, cache_lock>>

OpenWriter(t) ==
    /\ At(t, "writer")
    /\ OpenFile(CopyKey(t))
    /\ th' = [th EXCEPT ![t].pc = "copy", ![t].pos = 0,
                        ![t].copy = InodeOf(CopyKey(t)),
                        ![t].len = Len(inodes[th[t].raf])]
    /\ UNCHANGED <<serverVars, cache, opened, tables, cache_lock>>

CopyChunk(t) ==
    /\ At(t, "copy")
    /\ th[t].pos < th[t].len
    /\ WriteChunk(th[t].copy, th[t].pos, inodes[th[t].raf][th[t].pos + 1])
    /\ th' = [th EXCEPT ![t].pos = NextPos(@)]
    /\ UNCHANGED <<serverVars, opened, tables, cache_lock>>

PutCopy(t) ==
    /\ At(t, "copy")
    /\ th[t].pos >= th[t].len
    /\ fd_paths' = Named(t, TRUE)
    /\ fd_files' = With(fd_files, th[t].fd, th[t].copy)
    /\ Put(CopyKey(t))
    /\ Go(t, "own")
    /\ UNCHANGED <<serverVars, opened, curr_fd, cache_lock>>

OwnCopy(t) ==
    /\ At(t, "own")
    /\ AddClient(CopyKey(t))
    /\ opened' = [opened EXCEPT ![t] = @ \cup {th[t].fd}]
    /\ Return(t)
    /\ UNCHANGED <<serverVars, tables, cache_lock>>

-----------------------------------------------------------------------------
(* write and unlink                                                        *)

\* Which descriptor a chunk was written through is all there is to know
\* about it.
Write(t, fd, pos) ==
    /\ At(t, "idle")
    /\ fd \in opened[t] \cap DOMAIN fd_paths
    /\ fd_paths[fd].write /\ FdKey(fd) \in DOMAIN disk
    /\ pos <= Len(inodes[fd_files[fd]]) /\ pos < MaxChunks
    /\ WriteChunk(fd_files[fd], pos, fd)
    /\ UNCHANGED <<serverVars, th, opened, tables, cache_lock>>

Unlink(t, p) ==
    /\ At(t, "idle")
    /\ "UNLINK" \in Modes[t]
    /\ p \in DOMAIN served
    /\ deleteFile(p)
    /\ UNCHANGED <<cacheVars, th, opened, tables, cache_lock>>

-----------------------------------------------------------------------------
(* close                                                                   *)

Forget(t, fd) ==
    /\ fd_paths' = Without(fd_paths, {fd})
    /\ fd_files' = Without(fd_files, {fd})
    /\ opened' = [opened EXCEPT ![t] = @ \ {fd}]

Closes(t, fd) == At(t, "idle") /\ fd \in opened[t]

\* fd_paths.get is null: another client had the same descriptor.
CloseUnknown(t, fd) ==
    /\ Closes(t, fd)
    /\ fd \notin DOMAIN fd_paths
    /\ Die(t)
    /\ UNCHANGED <<serverVars, cacheVars, opened, tables, cache_lock>>

CloseReader(t, fd) ==
    /\ Closes(t, fd)
    /\ fd \in DOMAIN fd_paths /\ ~fd_paths[fd].write
    /\ RemoveReader(FdKey(fd))
    /\ Forget(t, fd)
    /\ th' = [th EXCEPT ![t] = [Idle EXCEPT !.pc = "scan", !.op = "READ",
                                  !.path = fd_paths[fd].path,
                                  !.ver = fd_paths[fd].ver]]
    /\ UNCHANGED <<serverVars, curr_fd, cache_lock>>

\* ENOENT: the private copy is gone; the client's writes are lost.
CloseLost(t, fd) ==
    /\ Closes(t, fd)
    /\ fd \in DOMAIN fd_paths /\ fd_paths[fd].write
    /\ FdKey(fd) \notin DOMAIN disk
    /\ opened' = [opened EXCEPT ![t] = @ \ {fd}]
    /\ UNCHANGED <<serverVars, cacheVars, th, tables, cache_lock>>

CloseWriter(t, fd) ==
    /\ Closes(t, fd)
    /\ fd \in DOMAIN fd_paths /\ fd_paths[fd].write
    /\ FdKey(fd) \in DOMAIN disk
    /\ OpenFile(Key(fd_paths[fd].path, NewVersion(fd_paths[fd].ver), Shared))
    /\ th' = [th EXCEPT ![t] = [Idle EXCEPT !.pc = "scan", !.op = "CLOSE",
                                  !.path = fd_paths[fd].path,
                                  !.ver = fd_paths[fd].ver,
                                  !.fd = fd, !.copy = fd_files[fd]]]
    /\ UNCHANGED <<serverVars, cache, opened, tables, cache_lock>>

\* checkStaleVersions without the lock: whom it finds, then what it removes.
StaleScan(t) ==
    /\ At(t, "scan")
    /\ th' = [th EXCEPT ![t].pc = "drop",
                        ![t].victims = StaleEntries(cache, SharedKey(t))]
    /\ UNCHANGED <<serverVars, cacheVars, opened, tables, cache_lock>>

StaleDrop(t) ==
    /\ At(t, "drop")
    /\ DropStale(th[t].victims)
    /\ IF Reading(t) THEN Return(t)
       ELSE th' = [th EXCEPT ![t].pc = "put", ![t].victims = {}]
    /\ UNCHANGED <<serverVars, opened, tables, cache_lock>>

ClosePut(t) ==
    /\ At(t, "put")
    /\ Put(SharedKey(t))
    /\ Go(t, "lengths")
    /\ UNCHANGED <<serverVars, opened, tables, cache_lock>>

CloseLengths(t) ==
    /\ At(t, "lengths")
    /\ OpenFile(SharedKey(t))
    /\ th' = [th EXCEPT ![t].pc = "send",
                        ![t].raf = InodeOf(SharedKey(t)),
                        ![t].len = Len(inodes[th[t].copy]),
                        ![t].old = FileLength(SharedKey(t))]
    /\ UNCHANGED <<serverVars, cache, opened, tables, cache_lock>>

\* The cached file is zeroed, then the server updated.
SendChunk(t) ==
    /\ At(t, "send")
    /\ th[t].pos < th[t].len
    /\ WriteChunk(th[t].raf, th[t].pos, Zero)
    /\ updateFile(th[t].path, th[t].pos, inodes[th[t].copy][th[t].pos + 1])
    /\ IF Bumps(th[t].path) THEN Go(t, "store") ELSE Die(t)
    /\ UNCHANGED <<opened, tables, cache_lock>>

StoreChunk(t) ==
    /\ At(t, "store")
    /\ WriteChunk(th[t].raf, th[t].pos, inodes[th[t].copy][th[t].pos + 1])
    /\ th' = [th EXCEPT ![t].pc = "send", ![t].pos = NextPos(@)]
    /\ UNCHANGED <<serverVars, opened, tables, cache_lock>>

\* curr_size is read and written under cache_lock, which a put or a removal by
\* another close does not take.
SettleRead(t) ==
    /\ At(t, "send")
    /\ th[t].pos >= th[t].len
    /\ Locked(t)
    /\ th' = [th EXCEPT ![t].pc = "settle",
                        ![t].old = cache.size + th[t].len - th[t].old]
    /\ UNCHANGED <<serverVars, cacheVars, opened, tables>>

SettleWrite(t) ==
    /\ At(t, "settle")
    /\ cache' = [cache EXCEPT !.size = th[t].old]
    /\ Unlocked
    /\ Go(t, "release")
    /\ UNCHANGED <<serverVars, disk, inodes, opened, tables>>

Release(t) ==
    /\ At(t, "release")
    /\ RemoveWriter(CopyKey(t))
    /\ Forget(t, th[t].fd)
    /\ Return(t)
    /\ UNCHANGED <<serverVars, curr_fd, cache_lock>>

-----------------------------------------------------------------------------
OpenStep(t) ==
    \/ OpenRefused(t) \/ OpenHit(t) \/ OpenMiss(t)
    \/ FetchLength(t) \/ FetchChunk(t) \/ FetchFails(t)
    \/ CachePut(t) \/ Count(t) \/ Unlock(t)
    \/ ReadFd(t) \/ BumpFd(t)
    \/ OpenReader(t)
    \/ OpenWriter(t) \/ CopyChunk(t) \/ PutCopy(t) \/ OwnCopy(t)

CloseStep(t) ==
    \/ StaleScan(t) \/ StaleDrop(t)
    \/ ClosePut(t) \/ CloseLengths(t)
    \/ SendChunk(t) \/ StoreChunk(t)
    \/ SettleRead(t) \/ SettleWrite(t) \/ Release(t)

Call(t) ==
    \/ \E p \in Paths, o \in Modes[t] : Open(t, p, o)
    \/ \E fd \in Fds : \/ \E pos \in 0..MaxChunks : Write(t, fd, pos)
                       \/ CloseReader(t, fd) \/ CloseWriter(t, fd)
                       \/ CloseLost(t, fd) \/ CloseUnknown(t, fd)
    \/ \E p \in Paths : Unlink(t, p)

\* An open may meet a close of its file by another client, an unlink, or, after
\* it put the file into the cache and before it holds it, an eviction.
Overlapped(t) ==
    \/ \E u \in Threads \ {t} : th[u].op = "CLOSE" /\ th[u].path = th[t].path
    \/ th[t].ver # 0 /\ th[t].path \notin DOMAIN served
    \/ /\ th[t].pc \in {"count", "unlock", "fd", "bump", "reader"}
       /\ Reading(t) /\ SharedKey(t) \notin DOMAIN disk

FdsRace == \E t, u \in Threads : t # u /\ At(t, "bump") /\ At(u, "bump")

\* The close of an empty copy makes the next version in the cache and none on
\* the server.
SendsNothing(t) == At(t, "lengths") /\ At(t, "send")' /\ th'[t].len = 0

\* A file is created that has the versions of the one that was there before.
Revived == {p \in DOMAIN max_versions : /\ p \in DOMAIN served' \ DOMAIN served
                                        /\ max_versions' = max_versions}

History ==
    /\ disturbed' = {t \in Threads : /\ th'[t].op \notin {"none", "CLOSE"}
                                     /\ t \in disturbed \/ Overlapped(t)'}
    /\ raced' = (raced \/ FdsRace')
    /\ ambiguous' = ambiguous \cup Revived
                      \cup {th[t].path : t \in {t \in Threads : SendsNothing(t)}}

Next == /\ \E t \in Threads : Call(t) \/ OpenStep(t) \/ CloseStep(t)
        /\ History

Spec == Init /\ [][Next]_allVars

\* A call that was made goes on; clients need not make any.  Whoever waits
\* for cache_lock, which Java does not hand out in order, gets it in the end:
\* there are finitely many descriptors to open, so weak fairness suffices.
FairSpec == Spec /\ \A t \in Threads : WF_vars(OpenStep(t) \/ CloseStep(t))

-----------------------------------------------------------------------------
(* Properties                                                              *)

Keys == [path : Paths, ver : Nat, fd : Fds \cup {Shared}]
Partial(S, T) == UNION {[D -> T] : D \in SUBSET S}

TypeOK ==
    /\ DOMAIN served \subseteq Paths
    /\ \A p \in DOMAIN served : served[p] \in Seq(Chunks)
    /\ DOMAIN max_versions \subseteq Paths
    /\ \A p \in DOMAIN max_versions : max_versions[p] \in Nat \ {0}
    /\ cache.entries \in [DOMAIN cache.entries -> Nat] /\ cache.size \in Int
    /\ DOMAIN cache.entries \subseteq Keys
    /\ \A k \in DOMAIN cache.clients : k \in Keys /\ cache.clients[k] \in Nat
    /\ \A k \in DOMAIN disk : k \in Keys /\ disk[k] \in DOMAIN inodes
    /\ inodes \in Seq(Seq(Chunks))
    /\ \A t \in Threads : /\ opened[t] \subseteq Fds
                          /\ th[t].victims \subseteq Keys
                          /\ th[t].raf \in 0..Len(inodes)
                          /\ th[t].copy \in 0..Len(inodes)
    /\ \A fd \in DOMAIN fd_paths : fd \in Fds /\ FdKey(fd) \in Keys
    /\ \A fd \in DOMAIN fd_files : fd \in Fds /\ fd_files[fd] \in DOMAIN inodes
    /\ curr_fd \in Nat
    /\ cache_lock \subseteq Threads

\* Who has k open: the descriptors in the tables and the calls that have
\* counted themselves and not yet got there.
Holders(k) ==
    {fd \in DOMAIN fd_paths : FdKey(fd) = k}
      \ {th[t].fd : t \in {t \in Threads : At(t, "own")}}
Counting(k) ==
    {t \in Threads : /\ Reading(t) /\ SharedKey(t) = k
                     /\ th[t].pc \in {"unlock", "fd", "bump", "reader"}}

\* The count of clients, on which eviction relies, is the number of
\* descriptors that use the file (Cache.java 42-81), although open counts
\* under cache_lock and close does not; as long as no two getFd overlapped,
\* which gives two clients one descriptor.
CountsAreRight ==
    ~raced => \A k \in DOMAIN cache.clients :
      cache.clients[k] = Cardinality(Holders(k)) + Cardinality(Counting(k))

\* "only evict when the number of active clients was 0" (p2-design.pdf): the
\* file of an open descriptor stays in the cache directory.
HeldFilesStay ==
    \A t \in Threads : \A fd \in opened[t] \cap DOMAIN fd_paths :
      FdKey(fd) \in DOMAIN disk

\* "when the proxy goes to open a file from the cache, it is guaranteed to be
\* the most updated version" (p2-design.pdf): a descriptor starts out with
\* what the server has when open returns, unless meanwhile another client closed
\* or removed the file, or it was evicted before the open had counted itself,
\* and as long as no two getFd overlapped.  It fails after the close of an empty
\* copy, which sends nothing and yet enters the cache as the next version, and
\* for a file created anew, which has the versions of the one that was removed.
FreshOnOpen ==
    [][~raced =>
         \A t \in Threads \ disturbed : \A fd \in opened'[t] \ opened[t] :
           LET p == fd_paths'[fd].path
           IN  p \notin ambiguous =>
                 p \in DOMAIN served /\ inodes[fd_files'[fd]] = served[p]]_vars

\* "the server version will be the version of the client that last closed the
\* file" (p2-design.pdf), as far as that version reaches: nothing truncates the
\* file behind it.  A file that was unlinked stays away when nothing was written.
LastCloseWins ==
    [][\A t \in Threads :
         At(t, "release") /\ ~At(t, "release")' /\ th[t].path \in DOMAIN served =>
           IsPrefix(inodes[th[t].copy], served[th[t].path])]_vars

\* Every call returns, or ends with its client's connection.
EveryCallReturns ==
    \A t \in Threads : ~At(t, "idle") ~> At(t, "idle") \/ At(t, "dead")

\* Proxy.java 46: getFd "uses synchronization to ensure unique file
\* descriptors".
UniqueFds == \A t, u \in Threads : t # u => opened[t] \cap opened[u] = {}

\* Cache.java 27: "max total file size allowed in the cache", whenever no file
\* is open.
CapacityHolds ==
    (\A t \in Threads : At(t, "idle") /\ opened[t] = {}) =>
      Total(DOMAIN cache.entries) <= max_size

\* p2-design.pdf, open-close semantics: what a reader has opened does not
\* change under it.
ReadersSeeOneVersion ==
    [][\A t \in Threads : \A fd \in opened[t] \cap opened'[t] :
         fd \in DOMAIN fd_paths /\ ~fd_paths[fd].write =>
           inodes'[fd_files[fd]] = inodes[fd_files[fd]]]_vars

=============================================================================
