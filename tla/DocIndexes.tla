----------------------------- MODULE DocIndexes -----------------------------
(***************************************************************************)
(* The search indexes of the generated API documentation of Projects 2 and *)
(* 4, src/15440-p2/doc/*-search-index.js and src/15440-p4/doc: entries of  *)
(* every kind, with names cut short.                                       *)
(***************************************************************************)
EXTENDS SearchPatterns, TLC

UNNAMED == <<"<", "U", "n", "n", ">">>
Dot == <<".">>

\* p the package, c the class, l the name, m the module, u the link
Item(l) == [p |-> <<>>, c |-> <<>>, l |-> l, m |-> <<>>, u |-> <<>>]
Linked(l, u) == [Item(l) EXCEPT !.u = u]
ClassItem(l) == [Item(l) EXCEPT !.p = UNNAMED]
MemberItem(c, l) == [ClassItem(l) EXCEPT !.c = c]
MemberLinked(c, l, u) == [MemberItem(c, l) EXCEPT !.u = u]

FiHa == <<"F", "i", "H", "a">>      \* FileHandling
FiHaMa == FiHa \o <<"M", "a">>      \* FileHandlingMaking
Errors == FiHa \o <<".", "E", "r">>         \* FileHandling.Errors
OpenOption == FiHa \o <<".", "O", "p", "O", "p">>
RPCr == <<"R", "P", "C", "r">>      \* RPCreceiver
PrLi == <<"P", "r", "L", "i">>      \* ProjectLib
Message == PrLi \o <<".", "M", "e">>        \* ProjectLib.Message
MessageHandling == Message \o <<"H", "a">>
NoLa == <<"N", "o", "L", "a">>      \* NodeLauncher

Init_ == <<"%3Cinit%3E()">>         \* the link of a constructor

moduleSearchIndex == <<>>
packageSearchIndex ==
    <<Linked(<<"A", "l", "l", " ", "P", "a">>, <<"allpackages-index.html">>)>>

typeSearchIndex ==
    <<Linked(<<"A", "l", "l", " ", "C", "l">>, <<"allclasses-index.html">>),
      ClassItem(Errors), ClassItem(FiHa), ClassItem(FiHaMa),
      ClassItem(OpenOption), ClassItem(RPCr)>>

memberSearchIndex ==
    <<MemberItem(FiHa, <<"c", "l", "(", "i", ")">>),
      MemberItem(OpenOption, <<"C", "R">>),
      MemberItem(OpenOption, <<"C", "R", "_", "N">>),
      MemberItem(Errors, <<"E", "B">>),
      MemberLinked(Errors, <<"E", "r", "(", ")">>, Init_),
      MemberLinked(FiHa, <<"o", "p", "(", "S", ",", " ">> \o OpenOption
                           \o <<")">>, <<"open(...)">>),
      MemberLinked(RPCr, RPCr \o <<"(">> \o FiHaMa \o <<")">>, Init_)>>

tagSearchIndex ==
    <<Linked(<<"C", "o", "n", " ", "F", "i">>, <<"constant-values.html">>)>>

typeSearchIndexOfP4 ==
    <<Linked(<<"A", "l", "l", " ", "C", "l">>, <<"allclasses-index.html">>),
      ClassItem(Message), ClassItem(MessageHandling), ClassItem(NoLa),
      ClassItem(PrLi)>>

memberSearchIndexOfP4 ==
    <<MemberItem(Message, <<"a", "d", "d", "r">>),
      MemberItem(MessageHandling, <<"d", "e", "M", "e", "(">> \o Message \o <<")">>),
      MemberItem(PrLi, <<"g", "e", "M", "e", "(", ")">>),
      MemberLinked(Message, <<"M", "e", "(", "S", ")">>, Init_),
      MemberLinked(NoLa, NoLa \o <<"(", ")">>, Init_)>>

tagSearchIndexOfP4 ==
    <<Linked(<<"S", "e", " ", "F", "o">>, <<"serialized-form.html">>)>>

\* What each documentation has.  The package index is the same.
Index ==
    [p2 |-> catModules :> moduleSearchIndex @@ catPackages :> packageSearchIndex
            @@ catTypes :> typeSearchIndex @@ catMembers :> memberSearchIndex
            @@ catSearchTags :> tagSearchIndex,
     p4 |-> catModules :> moduleSearchIndex @@ catPackages :> packageSearchIndex
            @@ catTypes :> typeSearchIndexOfP4
            @@ catMembers :> memberSearchIndexOfP4
            @@ catSearchTags :> tagSearchIndexOfP4]

\* The pages that were generated.
Html(name) == name \o <<".html">>
Pages ==
    [p2 |-> {Html(n) : n \in {FiHa, FiHaMa, Errors, OpenOption, RPCr}}
            \cup {<<"allclasses-index.html">>, <<"allpackages-index.html">>,
                  <<"constant-values.html">>},
     p4 |-> {Html(n) : n \in {PrLi, Message, MessageHandling, NoLa}}
            \cup {<<"allclasses-index.html">>, <<"allpackages-index.html">>,
                  <<"serialized-form.html">>}]
=============================================================================
