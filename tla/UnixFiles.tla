------------------------------ MODULE UnixFiles ------------------------------
(***************************************************************************)
(* The file operations of the operating system on the machine of the file *)
(* server, as Project 1 uses them: open, close, read, write, lseek, stat,  *)
(* unlink, getdirentries and getdirtree (src/15440-p1/interpose/server.c,  *)
(* lines 90-138).  The system itself is not part of the repository; this  *)
(* module says what the handlers of server.c get from it.                 *)
(*                                                                         *)
(* A call is a record of one shape for all the operations, an unused field *)
(* holds a default.  Directories do not change and hold none of Files.     *)
(***************************************************************************)
EXTENDS Integers, Sequences, FiniteSets, FiniteSetsExt, SequencesExt

CONSTANTS
  Clients,     \* the processes that have a table of descriptors
  Files,       \* the names of files
  Inodes,      \* the files that can exist at a time, named or only open
  Tree,        \* the directory tree under each directory, by name
  Entries,     \* what listing a directory gives, by name
  Fds          \* the numbers a descriptor that open returns can have

Dirs   == DOMAIN Tree
Nobody == "none"            \* no inode, no path, no error
NoTree == [name |-> Nobody, subdirs |-> <<>>]
Zero   == "0"               \* the byte a hole is filled with
Junk   == "junk"            \* a byte of memory that nobody has written

Closed == [of |-> Nobody, pos |-> 0]

NoCall == [op |-> Nobody, path |-> Nobody, fd |-> 0, n |-> 0, data |-> <<>>]

OnPath(op, path, flags) == [NoCall EXCEPT !.op = op, !.path = path, !.n = flags]
OnFd(op, fd, n)         == [NoCall EXCEPT !.op = op, !.fd = fd, !.n = n]
Write(fd, data) ==
  [NoCall EXCEPT !.op = "WRITE", !.fd = fd, !.n = Len(data), !.data = data]

PathOps == {"OPEN", "STAT", "UNLINK", "GETDIRTREE"}
FdOps   == {"CLOSE", "READ", "WRITE", "LSEEK", "GETDIRENTRIES"}

(* What a program can ask for; a seek before the start of a file fails on  *)
(* the machine it is made on and is left out.                              *)
IsCall(a) ==
  \/ /\ a.op \in PathOps /\ a = OnPath(a.op, a.path, a.n)
     /\ a.n \in IF a.op = "OPEN" THEN Nat ELSE {0}
  \/ /\ a.op \in FdOps \ {"WRITE"} /\ a = OnFd(a.op, a.fd, a.n)
     /\ a.fd \in Int /\ a.n \in IF a.op = "CLOSE" THEN {0} ELSE Nat
  \/ a = Write(a.fd, a.data) /\ a.fd \in Int /\ a.data \in Seq(Range(a.data))

(* What a call returns to its caller.                                      *)
Outcome(ret, errno, data, base, tree) ==
  [ret |-> ret, errno |-> errno, data |-> data, base |-> base, tree |-> tree]
NoResult  == Outcome(0, Nobody, <<>>, 0, NoTree)
Returns(n) == [NoResult EXCEPT !.ret = n]
Fails(e)  == [NoResult EXCEPT !.ret = -1, !.errno = e]

(* A call gives the state of the kernel after it and its outcome.          *)
Step(k, r) == [kernel |-> k, result |-> r]

-----------------------------------------------------------------------------

IsOpen(k, c, fd) == fd \in Fds /\ k.fds[c][fd] # Closed
IsDir(k, c, fd)  == k.fds[c][fd].of \in Dirs

FreeFds(k, c)  == {fd \in Fds : k.fds[c][fd] = Closed}
FreeInodes(k)  ==
  {i \in Inodes : /\ \A f \in Files : k.names[f] # i
                  /\ \A c \in Clients, fd \in Fds : k.fds[c][fd].of # i}

Opened(k, c, of) ==
  LET fd == Min(FreeFds(k, c))
  IN  Step([k EXCEPT !.fds[c][fd] = [of |-> of, pos |-> 0]], Returns(fd))

Created(k, path, i) == [k EXCEPT !.names[path] = i, !.inodes[i] = <<>>]

Open(k, c, path, creat) ==
  CASE FreeFds(k, c) = {}                        -> Step(k, Fails("EMFILE"))
    [] path \in Dirs /\ FreeFds(k, c) # {}       -> Opened(k, c, path)
    [] path \in Files /\ FreeFds(k, c) # {} ->
         IF k.names[path] # Nobody THEN Opened(k, c, k.names[path])
         ELSE IF ~creat THEN Step(k, Fails("ENOENT"))
         ELSE IF FreeInodes(k) = {} THEN Step(k, Fails("ENOSPC"))
         ELSE LET i == CHOOSE i \in FreeInodes(k) : TRUE
              IN  Opened(Created(k, path, i), c, i)
    [] OTHER                                     -> Step(k, Fails("ENOENT"))

Close(k, c, fd) == Step([k EXCEPT !.fds[c][fd] = Closed], Returns(0))

(* At most n items of seq after the first pos.                             *)
Window(seq, pos, n) == SubSeq(seq, pos + 1, Min({pos + n, Len(seq)}))

Read(k, c, fd, n) ==
  LET at   == k.fds[c][fd]
      data == Window(k.inodes[at.of], at.pos, n)
  IN  IF IsDir(k, c, fd) THEN Step(k, Fails("EISDIR"))
      ELSE Step([k EXCEPT !.fds[c][fd].pos = @ + Len(data)],
                [Returns(Len(data)) EXCEPT !.data = data])

Overlay(old, pos, data) ==
  [i \in 1..Max({Len(old), pos + Len(data)}) |->
     CASE i > pos /\ i <= pos + Len(data)          -> data[i - pos]
       [] i <= Len(old) /\ (i <= pos \/ i > pos + Len(data)) -> old[i]
       [] OTHER                                    -> Zero]

Written(k, c, fd, data) ==
  LET at == k.fds[c][fd]
  IN  IF IsDir(k, c, fd) THEN Step(k, Fails("EBADF"))
      ELSE IF data = <<>> THEN Step(k, Returns(0))
      ELSE Step([k EXCEPT !.inodes[at.of] = Overlay(@, at.pos, data),
                          !.fds[c][fd].pos = @ + Len(data)],
                Returns(Len(data)))

Seek(k, c, fd, n) == Step([k EXCEPT !.fds[c][fd].pos = n], Returns(n))

List(k, c, fd, n) ==
  LET at    == k.fds[c][fd]
      names == Window(Entries[at.of], at.pos, n)
  IN  IF ~IsDir(k, c, fd) THEN Step(k, Fails("ENOTDIR"))
      ELSE Step([k EXCEPT !.fds[c][fd].pos = @ + Len(names)],
                [Returns(Len(names)) EXCEPT !.data = names, !.base = at.pos])

Exists(k, path) == path \in Dirs \/ (path \in Files /\ k.names[path] # Nobody)

Unlink(k, path) ==
  CASE path \in Dirs                      -> Step(k, Fails("EISDIR"))
    [] path \notin Dirs /\ Exists(k, path) ->
         Step([k EXCEPT !.names[path] = Nobody], Returns(0))
    [] OTHER                              -> Step(k, Fails("ENOENT"))

(* The call as process c makes it in state k.                              *)
Syscall(k, c, call) ==
  IF call.op \in FdOps /\ ~IsOpen(k, c, call.fd) THEN Step(k, Fails("EBADF"))
  ELSE CASE call.op = "OPEN"   -> Open(k, c, call.path, call.n = 1)
         [] call.op = "CLOSE"  -> Close(k, c, call.fd)
         [] call.op = "READ"   -> Read(k, c, call.fd, call.n)
         [] call.op = "WRITE"  -> Written(k, c, call.fd, call.data)
         [] call.op = "LSEEK"  -> Seek(k, c, call.fd, call.n)
         [] call.op = "UNLINK" -> Unlink(k, call.path)
         [] call.op = "STAT"   ->
              Step(k, IF Exists(k, call.path) THEN Returns(0) ELSE Fails("ENOENT"))
         [] call.op = "GETDIRENTRIES" -> List(k, c, call.fd, call.n)
         [] call.op = "GETDIRTREE"    ->
              Step(k, IF call.path \in Dirs
                        THEN [Returns(0) EXCEPT !.tree = Tree[call.path]]
                        ELSE Fails("ENOENT"))

(* A process that ends has its descriptors closed.                         *)
CloseAll(k, c) == [k EXCEPT !.fds[c] = [fd \in Fds |-> Closed]]

(* The forms a write may take when its caller dies: the end of the data    *)
(* never arrived, memory that nobody has written stands in for it.         *)
Torn(call) ==
  {[call EXCEPT !.data = [i \in DOMAIN @ |-> IF i > good THEN Junk ELSE @[i]]] :
     good \in 0..Len(call.data)}

(* No process has a descriptor; held[f] is what file f holds, if it exists.*)
Fresh(held) ==
  LET inode == CHOOSE g \in [DOMAIN held -> Inodes] : IsInjective(g)
      file  == AntiFunction(inode)
  IN  [names  |-> [f \in Files |-> IF f \in DOMAIN held THEN inode[f] ELSE Nobody],
       inodes |-> [i \in Inodes |-> IF i \in DOMAIN file THEN held[file[i]] ELSE <<>>],
       fds    |-> [c \in Clients |-> [fd \in Fds |-> Closed]]]

IsKernel(k) ==
  /\ k.names \in [Files -> Inodes \cup {Nobody}]
  /\ DOMAIN k.inodes = Inodes
  /\ DOMAIN k.fds = Clients
  /\ \A c \in Clients, fd \in Fds :
        /\ k.fds[c][fd].of \in Inodes \cup Dirs \cup {Nobody}
        /\ k.fds[c][fd].pos \in Nat
=============================================================================
