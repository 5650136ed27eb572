------------------------------ MODULE MCApiDocs ------------------------------
(***************************************************************************)
(* A small instance of ApiDocs.                                            *)
(***************************************************************************)
EXTENDS ApiDocs

\* A blank and text there is nowhere; a prefix in small letters and a whole
\* name; the capitals of names; qualified names, and two words; parameters;
\* a name that is also the end of others.
MCWishes ==
    {{<<" ">>, <<"q">>, <<"f", "i">>},
     {FiHa, <<"F", "H">>, <<"C", "R">>},
     {FiHa \o <<".", "E">>, <<"l", "l", " ", "p">>, <<"U", "n", ".", "F">>},
     {<<"(", "S", ",", "F">>, <<"M", "e">>, <<"m", "e">>}}

\* All Classes and Interfaces, of Projects 2 and 4.
MCTables ==
    {[tabs |-> <<"tab1", "tab2", "tab3">>, labels |-> "summary-table",
      rows |-> <<{"tab1"}, {"tab2"}, {"tab3"}, {"tab3"}, {"tab1"}, {"tab2"}>>],
     [tabs |-> <<"tab1", "tab2">>, labels |-> "tabpanel",
      rows |-> <<{"tab2"}, {"tab1"}, {"tab1"}, {"tab2"}, {"tab1"}, {"tab2"},
                 {"tab1"}, {"tab1"}>>]}
=============================================================================
