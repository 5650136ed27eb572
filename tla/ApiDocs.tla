------------------------------- MODULE ApiDocs -------------------------------
(***************************************************************************)
(* The pages of the generated API documentation: what their scripts do     *)
(* together.  The search box, the tabs and the history share no variable   *)
(* and call nothing of each other, so a behaviour uses one of them.        *)
(***************************************************************************)
EXTENDS DocSearch, DocPage

VARIABLE using

vars == <<searchVars, pageVars, using>>

Init ==
    /\ using \in {"search", "tabs", "history"}
    /\ SearchInit /\ TabsInit /\ HistoryInit
    /\ using # "search" => /\ docs = CHOOSE d \in Docs : TRUE
                           /\ wish = CHOOSE w \in Wishes : TRUE
    /\ using # "tabs" => table = CHOOSE t \in Tables : TRUE
    /\ using # "history" => entries = <<0>>

Next ==
    /\ UNCHANGED using
    /\ \/ using = "search" /\ SearchNext /\ UNCHANGED pageVars
       \/ using = "tabs" /\ TabsNext /\ UNCHANGED searchVars
       \/ using = "history" /\ HistoryNext /\ UNCHANGED searchVars

Spec == Init /\ [][Next]_vars
FairSpec == Spec /\ SearchFairness

TypeOK == SearchTypeOK /\ PageTypeOK
=============================================================================
