------------------------------ MODULE FileServer ------------------------------
(***************************************************************************)
(* Project 2, src/15440-p2/handin/Server.java: the remote file server.     *)
(* Every remote call holds the read or the write lock of the path it is    *)
(* about from beginning to end, so a call is one step; nothing holds a     *)
(* lock between two calls.                                                 *)
(*                                                                         *)
(* The content of a file is a sequence of chunks (CHUNK_SIZE bytes each in *)
(* the code), a chunk is the tag of who wrote it.                          *)
(***************************************************************************)
EXTENDS Integers, Sequences, FiniteSets

CONSTANTS
    Paths,      \* normalised path names
    Chunks      \* chunk values, Zero among them

Zero == 0

ASSUME ChunksAssumption == Zero \in Chunks

VARIABLES
    served,     \* the files under root_dir: a function on the existing paths
    max_versions    \* a function on the paths that have an entry

serverVars == <<served, max_versions>>

\* raf.seek(pos); raf.write(chunk): what lies between the end and pos is zero.
\* Bug: the chunk goes to the end, whatever pos is.
Appended(content, pos, chunk) == Append(content, chunk)
Overlay(content, pos, chunk) ==
    [i \in 1..(IF pos < Len(content) THEN Len(content) ELSE pos + 1) |->
        IF i = pos + 1 THEN chunk
        ELSE IF i <= Len(content) THEN content[i] ELSE Zero]

Without(f, S) == [x \in DOMAIN f \ S |-> f[x]]
With(f, x, v) == [y \in DOMAIN f \cup {x} |-> IF y = x THEN v ELSE f[y]]

\* Bug: versions start at what means "no such file".
FromZero == 0
FirstVersion == 1

\* getMaxVersion, from serverExists
Versioned(p) == IF p \in DOMAIN max_versions THEN max_versions
                ELSE With(max_versions, p, FirstVersion)

\* The result of serverExists, and what it leaves in max_versions.
VersionFound(p) == IF p \in DOMAIN served THEN Versioned(p)[p] ELSE 0
serverExists(p) ==
    /\ max_versions' = IF p \in DOMAIN served THEN Versioned(p)
                                              ELSE max_versions
    /\ UNCHANGED served

\* createFile enters nothing in max_versions.
createFile(p) ==
    /\ served' = IF p \in DOMAIN served THEN served ELSE With(served, p, <<>>)
    /\ UNCHANGED max_versions

\* getFileLength opens the file "rw": one that is gone comes back empty.
LengthOf(p) == IF p \in DOMAIN served THEN Len(served[p]) ELSE 0
getFileLength(p) == createFile(p)

\* getFileInfo returns nothing to write (null, or a negative size) when the
\* file is gone or ends before pos, and no bytes when it ends at pos.
HasChunk(p, pos) == p \in DOMAIN served /\ pos < Len(served[p])
NoAnswer(p, pos) == p \in DOMAIN served => pos > Len(served[p])

\* updateFile: one chunk and, if the path has a version, the next version;
\* max_versions.get(path) is null otherwise, after the chunk was written.
\* Nothing truncates the file.
Bumps(p) == p \in DOMAIN max_versions

\* Bug: a file that existed keeps its version.
KeptVersion(ver) == ver
NextVersion(ver) == ver + 1

updateFile(p, pos, chunk) ==
    LET content == IF p \in DOMAIN served THEN served[p] ELSE <<>>
    IN  /\ served' = With(served, p, Overlay(content, pos, chunk))
        /\ max_versions' = IF Bumps(p)
                           THEN [max_versions EXCEPT ![p] = NextVersion(@)]
                           ELSE max_versions

\* deleteFile leaves max_versions alone.
deleteFile(p) ==
    /\ served' = Without(served, {p})
    /\ UNCHANGED max_versions
=============================================================================
