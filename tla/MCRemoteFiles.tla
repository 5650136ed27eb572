---------------------------- MODULE MCRemoteFiles ----------------------------
(* Instances of RemoteFiles for TLC.                                       *)
EXTENDS RemoteFiles

Leaf(name)     == [name |-> name, subdirs |-> <<>>]
TheTree        == [dir |-> [name |-> "dir", subdirs |->
                     <<[name |-> "in", subdirs |-> <<Leaf("low")>>], Leaf("out")>>]]
TheEntries     == [dir |-> <<"in", "out">>]
TheContents    == [f |-> <<"a", "b", "c">>]

(* OFFSET is 3: the first two descriptors the programs get are 3 and 4.    *)
AllCalls == [c \in Clients |->
  IF c = "p"
  THEN {OnPath("OPEN", "f", 0), Write(3, <<"x">>), OnFd("READ", 3, 3),
        OnFd("LSEEK", 3, 1), OnPath("UNLINK", "f", 0)}
  ELSE {OnPath("OPEN", "f", 1), OnPath("OPEN", "dir", 0), Write(3, <<"y", "z">>),
        OnFd("READ", 0, 1), OnFd("CLOSE", 3, 0), OnFd("GETDIRENTRIES", 3, 2),
        OnPath("GETDIRTREE", "dir", 0), OnPath("STAT", "f", 0)}]
(* A call for the tree of a directory that does not exist.                 *)
LostCalls == [c \in Clients |->
  IF c = "p" THEN AllCalls["p"] ELSE {OnPath("GETDIRTREE", d, 0) : d \in {"dir", "nowhere"}}]

(* What the proof that RemoteFiles implements LocalFiles takes.            *)
ASSUME Hypotheses == RoundTrip /\ SeeksStayLow

SomeCalls == [c \in Clients |-> IF c = "p" THEN 3 ELSE 2]
=============================================================================
