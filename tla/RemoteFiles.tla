------------------------------ MODULE RemoteFiles ------------------------------
(***************************************************************************)
(* Project 1: the interposition library in every client program            *)
(* (src/15440-p1/interpose/mylib.c) and the file server with one child     *)
(* process for each client (src/15440-p1/interpose/server.c).              *)
(*                                                                         *)
(* The two talk over one TCP connection.  Each direction is a sequence of  *)
(* units <<kind, value>>: a header, a field of a message, or one byte of   *)
(* data.  recv takes a unit that is a header or a field whole, and of data *)
(* as much as has arrived, at most MAXMSGLEN.  errno after a call that did *)
(* not fail, which is unspecified, is Nobody.                              *)
(***************************************************************************)
EXTENDS UnixFiles

CONSTANTS
  Calls,       \* Calls[c] the calls that program c makes, with its descriptors
  Contents,    \* what the files that exist at the start hold
  MaxCalls,    \* MaxCalls[c] how many calls program c makes (bound)
  Mortals,     \* the programs that may be killed (bound)
  OFFSET,      \* what is added to the server's descriptors
  MAXMSGLEN    \* the most data taken at a time

ASSUME RemoteAssumption ==
  /\ \A c \in Clients : MaxCalls[c] \in Nat /\ \A a \in Calls[c] : IsCall(a)
  /\ Fds \subseteq Nat /\ OFFSET \in Nat /\ MAXMSGLEN \in Nat \ {0}
  /\ Nobody \notin Inodes /\ Dirs \cap (Files \cup Inodes \cup {Nobody}) = {}
  /\ DOMAIN Contents \subseteq Files
  /\ \E g \in [DOMAIN Contents -> Inodes] : IsInjective(g)
  /\ \A f \in DOMAIN Contents : Contents[f] \in Seq(Range(Contents[f]))
  /\ \A d \in Dirs : Entries[d] \in Seq(Range(Entries[d]))

VARIABLES
  client,      \* client[c]: pc, the call it is in, got of the reply, calls made
  toServer,    \* units sent by client c and not received
  toClient,    \* units sent to client c and not received
  child,       \* child[c]: the process of handle_client for c
  kernel,      \* files, and the descriptors of every child
  returned     \* what the last call of c returned, until the next one is made

vars == <<client, toServer, toClient, child, kernel, returned>>

NoHead  == [op |-> Nobody, size |-> 0]
NoChild == [pc |-> "none", head |-> NoHead, buf |-> <<>>]

Bytes(data) == [i \in DOMAIN data |-> <<"byte", data[i]>>]
Values(units) == [i \in DOMAIN units |-> units[i][2]]

-----------------------------------------------------------------------------
(* Requests: the message each function of mylib.c sends, and what the      *)
(* handler of server.c makes of it.  server.c allocates count bytes for    *)
(* the data of a write; those that did not come are Junk.                  *)

Body(call) ==
  LET fd == <<"fd", call.fd - OFFSET>>
      n  == <<"n", call.n>>
  IN  CASE call.op = "OPEN"                         -> <<n, <<"path", call.path>>>>
        [] call.op \in {"STAT", "UNLINK", "GETDIRTREE"} -> <<<<"path", call.path>>>>
        [] call.op = "CLOSE"                        -> <<fd>>
        [] call.op \in {"READ", "LSEEK", "GETDIRENTRIES"} -> <<fd, n>>
        [] call.op = "WRITE"                        -> <<fd, n>> \o Bytes(call.data)

Message(call) ==
  <<<<"head", [op |-> call.op, size |-> Len(Body(call))]>>>> \o Body(call)

(* Bug: the data taken from one unit too far.                              *)
DataPast(buf) == Values(SubSeq(buf, 4, Len(buf)))
DataOf(buf) == Values(SubSeq(buf, 3, Len(buf)))

Parsed(op, buf) ==
  LET v(i) == buf[i][2]
      data == DataOf(buf)
  IN  CASE op = "OPEN"                              -> OnPath(op, v(2), v(1))
        [] op \in {"STAT", "UNLINK", "GETDIRTREE"}  -> OnPath(op, v(1), 0)
        [] op = "CLOSE"                             -> OnFd(op, v(1), 0)
        [] op \in {"READ", "LSEEK", "GETDIRENTRIES"} -> OnFd(op, v(1), v(2))
        [] op = "WRITE" ->
             Write(v(1), [i \in 1..v(2) |-> IF i <= Len(data) THEN data[i] ELSE Junk])

-----------------------------------------------------------------------------
(* Directory trees on the wire: every node before its subdirectories.      *)

Trees ==
  LET Under[depth \in 0..3] ==
        IF depth = 0 THEN Range(Tree)
        ELSE Under[depth - 1] \cup UNION {Range(t.subdirs) : t \in Under[depth - 1]}
  IN  Under[3]

serialize_dirtree[t \in Trees] ==
  <<<<"node", [name |-> t.name, subdirs |-> Len(t.subdirs)]>>>>
    \o FlattenSeq([i \in DOMAIN t.subdirs |-> serialize_dirtree[t.subdirs[i]]])

(* Each directory's tree is finite.                                        *)
ASSUME TreesAssumption ==
  \A d \in Dirs : serialize_dirtree[Tree[d]]
                    \in Seq({"node"} \X [name : STRING, subdirs : Nat])

(* at[i] the tree whose node is units[i] and where its units end; below[j] *)
(* the first j of its subdirectories.                                      *)
deserialize_tree(units) ==
  LET at[i \in DOMAIN units] ==
        LET node == units[i][2]
            below[j \in 0..node.subdirs] ==
              IF j = 0 THEN [trees |-> <<>>, next |-> i + 1]
              ELSE LET before == below[j - 1]
                       this   == at[before.next]
                   IN  [trees |-> Append(before.trees, this.tree), next |-> this.next]
        IN  [tree |-> [name |-> node.name, subdirs |-> below[node.subdirs].trees],
             next |-> below[node.subdirs].next]
  IN  at[1].tree

-----------------------------------------------------------------------------
(* Replies: what each handler sends, how much of it the library waits for  *)
(* and what it returns to the program.                                     *)

Reply(op, r) ==
  LET ret == <<"ret", r.ret>>
      err == <<"errno", r.errno>>
      nodes == serialize_dirtree[r.tree]
  IN  CASE op = "GETDIRTREE"    -> <<err, <<"size", Len(nodes)>>>> \o nodes
        [] op = "READ"          -> <<ret, err>> \o Bytes(r.data)
        [] op = "GETDIRENTRIES" -> <<ret, err>> \o Bytes(r.data) \o <<<<"base", r.base>>>>
        [] OTHER                -> <<ret, err>>

DataLength(op, got) ==
  CASE op = "GETDIRTREE"               -> got[2][2]
    [] op \in {"READ", "GETDIRENTRIES"} -> Max({got[1][2], 0})
    [] OTHER                           -> 0

(* Bug: got <= bytes_read as the condition of the loop in read.             *)
OneMoreByte(op, got) ==
  DataLength(op, got) - (Len(got) - 2) + (IF op = "READ" THEN 1 ELSE 0)
DataLeft(op, got) == DataLength(op, got) - (Len(got) - 2)

(* Bug: the last recv of getdirentries left out.                           *)
AllData(op, got) == Len(got) >= 2 /\ DataLeft(op, got) = 0

Complete(op, got) ==
  /\ Len(got) >= 2
  /\ DataLeft(op, got) = IF op = "GETDIRENTRIES" THEN -1 ELSE 0

Decoded(op, got) ==
  LET v(i) == got[i][2]
      data == Values(SubSeq(got, 3, 2 + DataLength(op, got)))
  IN  CASE op = "GETDIRTREE" ->
             [NoResult EXCEPT !.errno = v(1), !.tree = deserialize_tree(SubSeq(got, 3, Len(got)))]
        [] op = "READ"          -> Outcome(v(1), v(2), data, 0, NoTree)
        [] op = "GETDIRENTRIES" -> Outcome(v(1), v(2), data, v(Len(got)), NoTree)
        [] op = "OPEN"          -> Outcome(IF v(1) < 0 THEN v(1) ELSE v(1) + OFFSET,
                                           v(2), <<>>, 0, NoTree)
        [] OTHER                -> Outcome(v(1), v(2), <<>>, 0, NoTree)

-----------------------------------------------------------------------------

(* Every client has been started: _init has connected it.                  *)
Init ==
  /\ client = [c \in Clients |-> [pc |-> "idle", call |-> NoCall, got |-> <<>>, made |-> 0]]
  /\ toServer = [c \in Clients |-> <<>>]
  /\ toClient = [c \in Clients |-> <<>>]
  /\ child = [c \in Clients |-> NoChild]
  /\ kernel = Fresh(Contents)
  /\ returned = [c \in Clients |-> NoResult]

(* mylib.c: calls on descriptors of the process itself are not sent.       *)
IsLocal(a) == \/ a.op \in FdOps \ {"LSEEK"} /\ a.fd < OFFSET
              \/ a.op = "LSEEK" /\ a.fd < a.n

Call(c) ==
  /\ client[c].pc = "idle" /\ client[c].made < MaxCalls[c]
  /\ \E a \in Calls[c] :
       /\ client' = [client EXCEPT
            ![c] = [pc   |-> IF IsLocal(a) THEN "local" ELSE "waiting",
                    call |-> a, got |-> <<>>, made |-> client[c].made + 1]]
       /\ toServer' = [toServer EXCEPT ![c] = IF IsLocal(a) THEN @ ELSE @ \o Message(a)]
  /\ returned' = [returned EXCEPT ![c] = NoResult]
  /\ UNCHANGED <<toClient, child, kernel>>

(* The original function, in a process that has opened nothing itself: its *)
(* outcome stands where a reply would.                                     *)
CallLocal(c) ==
  /\ client[c].pc = "local"
  /\ client' = [client EXCEPT ![c].pc  = "waiting",
                              ![c].got = Reply(client[c].call.op, Fails("EBADF"))]
  /\ UNCHANGED <<toServer, toClient, child, kernel, returned>>

-----------------------------------------------------------------------------
(* server.c                                                                *)

(* main: accept, and fork a child that runs handle_client.                 *)
Accept(c) ==
  /\ child[c].pc = "none"
  /\ child' = [child EXCEPT ![c].pc = "header"]
  /\ UNCHANGED <<client, toServer, toClient, kernel, returned>>

(* handle_client is in its outer recv.                                     *)
RecvHeader(c) ==
  /\ child[c].pc = "header" /\ toServer[c] # <<>>
  /\ child' = [child EXCEPT ![c] = [pc |-> "body", head |-> Head(toServer[c])[2], buf |-> <<>>]]
  /\ toServer' = [toServer EXCEPT ![c] = Tail(@)]
  /\ UNCHANGED <<client, toClient, kernel, returned>>

ToRead(left) == Min({left, MAXMSGLEN})

(* recv in the inner loop: some of what has arrived.                       *)
RecvBody(c) ==
  LET left == child[c].head.size - Len(child[c].buf)
  IN  /\ child[c].pc = "body" /\ left > 0
      /\ \E rv \in 1..Min({ToRead(left), Len(toServer[c])}) :
           /\ child' = [child EXCEPT ![c].buf = @ \o SubSeq(toServer[c], 1, rv)]
           /\ toServer' = [toServer EXCEPT ![c] = SubSeq(@, rv + 1, Len(@))]
      /\ UNCHANGED <<client, toClient, kernel, returned>>

(* recv returns 0.                                                         *)
NoMore(c) == client[c].pc = "gone" /\ toServer[c] = <<>>

(* Bug: the handler runs once the fields are in.                           *)
FieldsIn(c) ==
  child[c].pc = "body" /\ Len(child[c].buf) >= Min({2, child[c].head.size})
(* Bug: no break when recv returns 0.                                      *)
AllIn(c) == child[c].pc = "body" /\ Len(child[c].buf) = child[c].head.size

(* The inner loop is over: all is there, or recv has said that no more     *)
(* comes.  The handler runs either way.                                    *)
BodyOver(c) ==
  /\ child[c].pc = "body"
  /\ Len(child[c].buf) = child[c].head.size \/ NoMore(c)

Called(c) == Syscall(kernel, c, Parsed(child[c].head.op, child[c].buf))

(* -1 as the length of the data to copy, or no tree to serialize.          *)
Unanswerable(op, r) == op \in {"READ", "GETDIRENTRIES", "GETDIRTREE"} /\ r.ret = -1

(* Bug: got and offset keep their values from one request to the next.     *)
NotReset(ch) == [ch EXCEPT !.pc = "header"]
Handled(ch) == [NoChild EXCEPT !.pc = "header"]

Answer(c) ==
  LET op == child[c].head.op
  IN  /\ BodyOver(c)
      /\ ~Unanswerable(op, Called(c).result)
      /\ kernel' = Called(c).kernel
      /\ toClient' = [toClient EXCEPT
           ![c] = IF client[c].pc = "gone" THEN @ ELSE @ \o Reply(op, Called(c).result)]
      /\ child' = [child EXCEPT ![c] = Handled(@)]
      /\ UNCHANGED <<client, toServer, returned>>

(* The child dies in memcpy or in serialize_dirtree.  Its parent still     *)
(* holds the connection open, so the client is told nothing.               *)
Crash(c) ==
  /\ BodyOver(c)
  /\ Unanswerable(child[c].head.op, Called(c).result)
  /\ kernel' = CloseAll(kernel, c)
  /\ child' = [child EXCEPT ![c] = [NoChild EXCEPT !.pc = "dead"]]
  /\ UNCHANGED <<client, toServer, toClient, returned>>

(* The outer recv says that no more comes.                                 *)
EndChild(c) ==
  /\ child[c].pc = "header" /\ NoMore(c)
  /\ kernel' = CloseAll(kernel, c)
  /\ child' = [child EXCEPT ![c].pc = "ended"]
  /\ UNCHANGED <<client, toServer, toClient, returned>>

-----------------------------------------------------------------------------
(* mylib.c: the reply                                                      *)

Take(c, rv) ==
  /\ client' = [client EXCEPT ![c].got = @ \o SubSeq(toClient[c], 1, rv)]
  /\ toClient' = [toClient EXCEPT ![c] = SubSeq(@, rv + 1, Len(@))]
  /\ UNCHANGED <<toServer, child, kernel, returned>>

RecvField(c) ==
  /\ client[c].pc = "waiting" /\ Len(client[c].got) < 2
  /\ toClient[c] # <<>>
  /\ Take(c, 1)

RecvData(c) ==
  /\ client[c].pc = "waiting" /\ Len(client[c].got) >= 2
  /\ LET left == DataLeft(client[c].call.op, client[c].got)
     IN  /\ left > 0
         /\ \E rv \in 1..Min({ToRead(left), Len(toClient[c])}) : Take(c, rv)

RecvBasep(c) ==
  /\ client[c].pc = "waiting" /\ client[c].call.op = "GETDIRENTRIES"
  /\ Len(client[c].got) >= 2
  /\ DataLeft("GETDIRENTRIES", client[c].got) = 0
  /\ toClient[c] # <<>>
  /\ Take(c, 1)

Return(c) ==
  /\ client[c].pc = "waiting"
  /\ Complete(client[c].call.op, client[c].got)
  /\ returned' = [returned EXCEPT ![c] = Decoded(client[c].call.op, client[c].got)]
  /\ client' = [client EXCEPT ![c].pc = "idle", ![c].call = NoCall, ![c].got = <<>>]
  /\ UNCHANGED <<toServer, toClient, child, kernel>>

-----------------------------------------------------------------------------

(* What may still arrive of units when the sender dies in send: of the     *)
(* data of a write an end may be missing, whatever is small is there.      *)
Sent(units) ==
  {SubSeq(units, 1, k) : k \in {k \in 0..Len(units) :
                                  \A i \in k + 1..Len(units) : units[i][1] = "byte"}}

(* The program is killed, or exits; the connection closes with it.         *)
Die(c) ==
  /\ c \in Mortals /\ client[c].pc # "gone"
  /\ client' = [client EXCEPT ![c].pc = "gone", ![c].got = <<>>]
  /\ \E units \in Sent(toServer[c]) : toServer' = [toServer EXCEPT ![c] = units]
  /\ toClient' = [toClient EXCEPT ![c] = <<>>]
  /\ returned' = [returned EXCEPT ![c] = NoResult]
  /\ UNCHANGED <<child, kernel>>

Runs(c) ==
  \/ CallLocal(c) \/ RecvField(c) \/ RecvData(c) \/ RecvBasep(c) \/ Return(c)
Serves(c) ==
  \/ Accept(c) \/ RecvHeader(c) \/ RecvBody(c) \/ Answer(c) \/ Crash(c) \/ EndChild(c)

Next == \E c \in Clients : Call(c) \/ Runs(c) \/ Serves(c) \/ Die(c)

Spec == Init /\ [][Next]_vars

(* Processes that can run do, and TCP delivers what was sent; no program   *)
(* has to make a call.                                                     *)
FairSpec == Spec /\ \A c \in Clients : WF_vars(Runs(c)) /\ WF_vars(Serves(c))

-----------------------------------------------------------------------------
(* Properties                                                              *)

Units == {"head", "fd", "n", "path", "byte", "ret", "errno", "size", "base", "node"}

(* Every process is where its program can be, streams hold whole units.    *)
TypeOK ==
  /\ \A c \in Clients :
       /\ client[c].pc \in {"idle", "local", "waiting", "gone"}
       /\ client[c].call \in Calls[c] \cup {NoCall}
       /\ client[c].made \in 0..MaxCalls[c]
       /\ child[c].pc \in {"none", "header", "body", "ended", "dead"}
       /\ Len(child[c].buf) <= child[c].head.size
       /\ child[c].pc # "body" => child[c].buf = <<>>
       /\ client[c].pc # "waiting" => client[c].got = <<>>
       /\ \A u \in Range(toServer[c] \o toClient[c] \o child[c].buf \o client[c].got) :
            u[1] \in Units
  /\ IsKernel(kernel)

(* No unit of one call is left for the next: whenever a program is in no   *)
(* call the connection is empty both ways and the child awaits a header.   *)
(* A library that receives less than the handler sends (mylib.c:659), or a *)
(* handler that receives less than was sent (server.c:210-218), would take *)
(* the rest for the start of the next message.                             *)
Aligned ==
  \A c \in Clients : client[c].pc = "idle" =>
    /\ toServer[c] = <<>> /\ toClient[c] = <<>>
    /\ child[c].pc \in {"none", "header"}

(* While a call is on its way, it is whole in one place: the request is    *)
(* the units not received and those in the child's buffer, the reply those *)
(* received and those not.  Never are both there.                          *)
OneMessage ==
  \A c \in Clients : client[c].pc = "waiting" =>
    LET request == child[c].buf \o toServer[c]
        reply   == client[c].got \o toClient[c]
        a       == client[c].call
    IN  \/ /\ reply = <<>>
           /\ request \in {Message(a), Body(a)} \/ child[c].pc = "dead"
        \/ request = <<>> /\ Complete(a.op, reply)

-----------------------------------------------------------------------------
(* The calls as LocalFiles promises them, the program's descriptors those  *)
(* of the child with OFFSET added.                                         *)

Pending(c) == toServer[c] # <<>> \/ child[c].pc = "body"

Replied(c) ==
  LET got == client[c].got \o toClient[c]
  IN  client[c].pc = "waiting" /\ Len(got) >= 2

state ==
  [c \in Clients |->
     CASE child[c].pc \in {"ended", "dead"}                         -> "over"
       [] child[c].pc \notin {"ended", "dead"} /\ client[c].pc # "gone" ->
            IF client[c].pc = "idle" THEN "idle" ELSE IF Replied(c) THEN "done" ELSE "asked"
       [] OTHER -> IF Pending(c) THEN "asked"
                   ELSE IF client[c].call = NoCall THEN "idle" ELSE "done"]

answer ==
  [c \in Clients |->
     IF Replied(c) THEN Decoded(client[c].call.op, client[c].got \o toClient[c])
     ELSE NoResult]

asSeen ==
  [kernel EXCEPT !.fds = [c \in Clients |->
     [fd \in {d + OFFSET : d \in Fds} |-> kernel.fds[c][fd - OFFSET]]]]

Local == INSTANCE LocalFiles
  WITH Fds <- {d + OFFSET : d \in Fds}, kernel <- asSeen,
       call <- [c \in Clients |-> client[c].call],
       killed <- {c \in Clients : client[c].pc = "gone"}

(* The tree of each directory can be read back from its nodes              *)
(* (server.c:150-182, mylib.c:130-159).                                     *)
RoundTrip == \A d \in Dirs : deserialize_tree(serialize_dirtree[Tree[d]]) = Tree[d]

(* No descriptor of the server is moved beyond its own number: mylib.c:441 *)
(* compares the two and keeps such a seek from the server.                 *)
SeeksStayLow ==
  \A c \in Clients : \A a \in Calls[c] : a.op = "LSEEK" /\ a.fd < a.n => a.fd < OFFSET

(* Each call of a program takes effect once, at one instant between the    *)
(* call and its return, and returns what the same call on the server's     *)
(* machine would, however the messages are cut up and whatever the other   *)
(* programs do (mylib.c:167-709, server.c:192-465).                        *)
Implements == Local!Spec

(* A program that is in a call gets out of it, unless it is killed or the  *)
(* child that serves it has died (mylib.c:346-360: recv until all is in).  *)
CallsReturn ==
  \A c \in Clients : client[c].pc \in {"local", "waiting"}
                       ~> client[c].pc \in {"idle", "gone"} \/ child[c].pc = "dead"

(* The child of a killed program ends and with it the program's            *)
(* descriptors, whatever message was cut short (server.c:210-218, 461-464).*)
ChildrenEnd ==
  \A c \in Clients : client[c].pc = "gone" ~> child[c].pc \in {"ended", "dead"}

(* dirtree.h:26-27: getdirtree returns "pointer to root node of directory  *)
(* tree structure or NULL if there was en error (will set errno in this    *)
(* case)".                                                                 *)
GetdirtreeReturns ==
  \A c \in Clients : client[c].call.op = "GETDIRTREE" /\ client[c].pc = "waiting"
                       ~> client[c].pc \in {"idle", "gone"}
=============================================================================
