---------------------------- MODULE MCCachingProxy ----------------------------
(***************************************************************************)
(* Small instances of CachingProxy.                                        *)
(***************************************************************************)
EXTENDS CachingProxy

CONSTANTS ann, bob,     \* clients
          doc, pic      \* paths

One == {ann}
Two == {ann, bob}
OnePath == {doc}
TwoPaths == {doc, pic}
\* The calls each client makes.  With two clients both read and one writes, so
\* that three descriptors suffice for a reader that stays and one that comes.
OneCalls == ann :> {"READ", "WRITE", "CREATE", "CREATE_NEW", "UNLINK"}
TwoCalls == ann :> {"READ"} @@ bob :> {"READ", "WRITE", "UNLINK"}
OneOpens == ann :> {"READ", "WRITE"}
OneWrites == ann :> {"WRITE"}
TwoRead == [t \in Two |-> {"READ"}]
MCChunks == 0..8
\* 1 and 2 are what the server had at first.
OneFile == doc :> <<1>>
TwoFiles == doc :> <<1>> @@ pic :> <<2>>
=============================================================================
