------------------------------ MODULE LocalFiles ------------------------------
(***************************************************************************)
(* What the interposed file operations of Project 1 promise a program      *)
(* (src/15440-p1/interpose/mylib.c): each call takes effect once, at one   *)
(* instant between the call and its return, exactly as the same call of a  *)
(* process on the server's machine would, and returns what that returned.  *)
(* No messages, no server, no buffers here.                                *)
(*                                                                         *)
(* Two ways a program can lose its files are part of the promise, since    *)
(* they are visible to others.  A program that is killed may leave one     *)
(* call behind that still takes effect, a write then perhaps with an end   *)
(* nobody wrote; and a call of Unreported that fails may leave the program *)
(* without an answer for ever, its descriptors closed.                     *)
(***************************************************************************)
EXTENDS UnixFiles

CONSTANTS
  Calls,       \* Calls[c] the calls that program c makes
  Contents     \* what the files that exist at the start hold

VARIABLES
  kernel,      \* names, inodes and descriptors
  state,       \* state[c] \in {"idle", "asked", "done", "over"}
  call,        \* the call program c is in
  answer,      \* its outcome, once it has taken effect
  returned,    \* what the last call returned, until the next one is made
  killed       \* the programs that have been killed

vars == <<kernel, state, call, answer, returned, killed>>

Unreported == {"READ", "GETDIRENTRIES", "GETDIRTREE"}

Init ==
  /\ kernel = Fresh(Contents)
  /\ state = [c \in Clients |-> "idle"]
  /\ call = [c \in Clients |-> NoCall]
  /\ answer = [c \in Clients |-> NoResult]
  /\ returned = [c \in Clients |-> NoResult]
  /\ killed = {}

Ask(c) ==
  /\ state[c] = "idle" /\ c \notin killed
  /\ \E a \in Calls[c] : call' = [call EXCEPT ![c] = a]
  /\ state' = [state EXCEPT ![c] = "asked"]
  /\ returned' = [returned EXCEPT ![c] = NoResult]
  /\ UNCHANGED <<kernel, answer, killed>>

Do(c) ==
  /\ state[c] = "asked" /\ c \notin killed
  /\ LET s == Syscall(kernel, c, call[c])
     IN  /\ kernel' = s.kernel
         /\ answer' = [answer EXCEPT ![c] = s.result]
  /\ state' = [state EXCEPT ![c] = "done"]
  /\ UNCHANGED <<call, returned, killed>>

Return(c) ==
  /\ state[c] = "done" /\ c \notin killed
  /\ state' = [state EXCEPT ![c] = "idle"]
  /\ call' = [call EXCEPT ![c] = NoCall]
  /\ answer' = [answer EXCEPT ![c] = NoResult]
  /\ returned' = [returned EXCEPT ![c] = answer[c]]
  /\ UNCHANGED <<kernel, killed>>

(* A call that cannot be answered takes the program's descriptors with it. *)
Lose(c) ==
  /\ state[c] = "asked"
  /\ call[c].op \in Unreported
  /\ Syscall(kernel, c, call[c]).result.ret = -1
  /\ kernel' = CloseAll(kernel, c)
  /\ state' = [state EXCEPT ![c] = "over"]
  /\ UNCHANGED <<call, answer, returned, killed>>

(* The call a program is killed in may go with it.                         *)
Leave(c) ==
  /\ c \notin killed
  /\ state' \in {state, [state EXCEPT ![c] = IF @ = "asked" THEN "done" ELSE @]}
  /\ killed' = killed \cup {c}
  /\ answer' = [answer EXCEPT ![c] = NoResult]
  /\ returned' = [returned EXCEPT ![c] = NoResult]
  /\ UNCHANGED <<kernel, call>>

(* The call that a killed program leaves behind.                           *)
DoForKilled(c) ==
  /\ state[c] = "asked" /\ c \in killed
  /\ \E torn \in Torn(call[c]) : kernel' = Syscall(kernel, c, torn).kernel
  /\ state' = [state EXCEPT ![c] = "done"]
  /\ UNCHANGED <<call, answer, returned, killed>>

CloseForKilled(c) ==
  /\ state[c] \in {"idle", "done"} /\ c \in killed
  /\ kernel' = CloseAll(kernel, c)
  /\ state' = [state EXCEPT ![c] = "over"]
  /\ UNCHANGED <<call, answer, returned, killed>>

Next ==
  \E c \in Clients : \/ Ask(c) \/ Do(c) \/ Return(c) \/ Lose(c)
                     \/ Leave(c) \/ DoForKilled(c) \/ CloseForKilled(c)

Spec == Init /\ [][Next]_vars
=============================================================================
