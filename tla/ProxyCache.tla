------------------------------ MODULE ProxyCache ------------------------------
(***************************************************************************)
(* Project 2, src/15440-p2/handin/Cache.java and the proxy's cache         *)
(* directory: an LRU map of files with a count of clients for each.        *)
(*                                                                         *)
(* A file is named by a path, a version and, when it is the private copy   *)
(* of a descriptor that writes, that descriptor ("path-version-wfd").      *)
(* Names lead to inodes, as a descriptor goes on using a file after its    *)
(* name was deleted.  The methods that hold the monitor "lock" are single  *)
(* steps; checkStaleVersions is also called without it.                    *)
(***************************************************************************)
EXTENDS FileServer, SequencesExt

CONSTANT max_size       \* capacity, in chunks

VARIABLES
    cache,      \* entries: a function from keys to their places in the order
                \* of use, 1 for the least recently used; clients: a function
                \* on the keys ever put; size: curr_size
    disk,       \* the cache directory: a function from keys to inodes
    inodes      \* contents, by inode

cacheVars == <<cache, disk, inodes>>

Shared == 0     \* the fd in the key of a file that is no private copy
Key(p, ver, fd) == [path |-> p, ver |-> ver, fd |-> fd]

Cached(k) == k \in DOMAIN cache.entries
FileLength(k) == IF k \in DOMAIN disk THEN Len(inodes[disk[k]]) ELSE 0
Total(keys) == SumFunction([k \in keys |-> FileLength(k)])

\* The others move up when keys leave; the one that is used goes to the end.
Left(entries, keys) ==
    LET rest == DOMAIN entries \ keys
    IN  [k \in rest |-> Cardinality({j \in rest : entries[j] <= entries[k]})]
Used(entries, k) ==
    LET others == Left(entries, {k})
    IN  With(others, k, Cardinality(DOMAIN others) + 1)

\* get: the entry becomes the most recently used one.
Touched(c, k) ==
    IF k \in DOMAIN c.entries THEN [c EXCEPT !.entries = Used(@, k)] ELSE c

\* Entries leave the map, and the size goes with their files.
Dropped(c, keys) ==
    [c EXCEPT !.entries = Left(@, keys),
              !.size = @ - Total(keys)]

IdleEntry(c, k) == c.clients[k] = 0

\* Other versions of k's path that nobody has open, newer ones included.
StaleEntries(c, k) ==
    {e \in DOMAIN c.entries : /\ e.path = k.path /\ e.fd = Shared
                              /\ e.ver # k.ver
                              /\ IdleEntry(c, e)}

\* Bug: eviction does not look at the clients.
AnyEntry(c, k) == TRUE
MayEvict(c, k) == IdleEntry(c, k)

\* checkEvict after the stale entries went: in LRU order, for as long as the
\* size exceeds the capacity.
Evicted(c, stale) ==
    LET idle == {k \in DOMAIN c.entries \ stale : MayEvict(c, k)}
        Before(k) == {j \in idle : c.entries[j] < c.entries[k]}
    IN  {k \in idle : c.size - Total(stale) - Total(Before(k)) > max_size}

\* put counts the file again when it has an entry already.
Put(k) ==
    LET counted == [cache EXCEPT
                      !.clients = IF k \in DOMAIN @ THEN @ ELSE With(@, k, 0),
                      !.size = @ + FileLength(k)]
        stale == IF k.fd = Shared THEN StaleEntries(counted, k) ELSE {}
        gone == stale \cup Evicted(counted, stale)
    IN  /\ cache' = [Dropped(counted, gone) EXCEPT !.entries = Used(@, k)]
        /\ disk' = Without(disk, gone)
        /\ UNCHANGED inodes

AddClient(k) ==
    /\ cache' = [cache EXCEPT !.clients[k] = @ + 1]
    /\ UNCHANGED <<disk, inodes>>

\* Bug: a reader is not taken off.
StillAClient(n) == n
OneClientLess(n) == IF n = 0 THEN 0 ELSE n - 1

\* close of a reader: cache.get, removeClient
RemoveReader(k) ==
    LET left == [Touched(cache, k) EXCEPT !.clients[k] = OneClientLess(@)]
        stale == StaleEntries(left, k)
    IN  /\ cache' = Dropped(left, stale)
        /\ disk' = Without(disk, stale)
        /\ UNCHANGED inodes

\* close of a writer: its private copy goes, and its length now is taken off,
\* whatever it was when it was put.
RemoveWriter(k) ==
    /\ cache' = [cache EXCEPT !.clients[k] = OneClientLess(@),
                              !.entries = Left(@, {k}),
                              !.size = @ - FileLength(k)]
    /\ disk' = Without(disk, {k})
    /\ UNCHANGED inodes

\* The removals of an unlocked checkStaleVersions that found these victims.
DropStale(victims) ==
    LET there == victims \cap DOMAIN cache.entries
    IN  /\ cache' = Dropped(cache, there)
        /\ disk' = Without(disk, there)
        /\ UNCHANGED inodes

\* new RandomAccessFile(k, "rw"), createNewFile: the inode of k, if need be a
\* new and empty one.
InodeOf(k) == IF k \in DOMAIN disk THEN disk[k] ELSE Len(inodes) + 1
OpenFile(k) ==
    /\ disk' = With(disk, k, InodeOf(k))
    /\ inodes' = IF k \in DOMAIN disk THEN inodes ELSE Append(inodes, <<>>)

WriteChunk(inode, pos, chunk) ==
    /\ inodes' = [inodes EXCEPT ![inode] = Overlay(@, pos, chunk)]
    /\ UNCHANGED <<cache, disk>>
=============================================================================
