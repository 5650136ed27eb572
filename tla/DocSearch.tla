------------------------------ MODULE DocSearch ------------------------------
(***************************************************************************)
(* The search box of the generated API documentation: search.js, what      *)
(* script.js does to load the indexes, and as much of jQuery UI's          *)
(* autocomplete widget (external) as they rely on.                         *)
(*                                                                         *)
(* search.js and the five indexes arrive in any order, and the user may    *)
(* search before all of them are there: the last search is then done again *)
(* for each index that arrives (updateSearchResults).  Each event handler  *)
(* runs to its end, so it is a step.                                       *)
(***************************************************************************)
EXTENDS DocIndexes, FiniteSets

CONSTANTS
    Docs,           \* documentations
    Wishes,         \* sets of terms: one is what the user types
    MIN_RESULTS,
    MAX_RESULTS

watermark == <<"Search">>
Terms == (UNION Wishes) \cup {<<>>, watermark}

Categories == <<catModules, catPackages, catTypes, catMembers, catSearchTags>>
Library == "search.js"
Scripts == ToSet(Categories) \cup {Library}
Here == <<>>                    \* no other page

ASSUME SearchAssumption ==
    /\ MIN_RESULTS \in Nat /\ MAX_RESULTS \in Nat
    /\ watermark \notin UNION Wishes
    /\ Docs \subseteq DOMAIN Index

VARIABLES
    docs,           \* the documentation the page belongs to
    wish,           \* what the user of this behaviour may type
    loaded,         \* the scripts that have run
    box,            \* the input: its value, its class, whether it has the focus
    searching,      \* the widget's timer runs
    term, cancelSearch, menu,   \* the widget; a menu is hidden when empty
    searchPattern, fallbackPattern,
    updateSearchResults,    \* the search it does again, if any, and whether
                            \* the widget still waits for its response
    location        \* the page a result has led to

widget == <<term, cancelSearch, menu, searchPattern, fallbackPattern,
            updateSearchResults>>
searchVars == <<docs, wish, loaded, box, searching, widget, location>>

-----------------------------------------------------------------------------
(* What is searched and shown                                              *)

Undefined == <<"u", "n", "d">>      \* "undefined", a missing field in a text
noResult == [cat |-> "none", item |-> Item(<<"No results found">>)]
loading == [cat |-> "none", item |-> Item(<<"Loading search index...">>)]

Text(field) == IF field = <<>> THEN Undefined ELSE field
Has(text, ch) == Contains(text, ch)

\* The text that is searched: with "/" or "." in the term, the qualified name.
Name(cat, item, t) ==
    IF cat = catPackages /\ item.m # <<>> /\ Has(t, "/")
    THEN item.m \o <<"/">> \o item.l
    ELSE IF cat = catTypes /\ Has(t, ".")
    THEN Text(item.p) \o <<".">> \o item.l
    ELSE IF cat = catMembers /\ Has(t, ".")
    THEN Text(item.p) \o <<".">> \o item.c \o <<".">> \o item.l
    ELSE item.l

\* The text that is shown, with what is before it that is never highlighted.
renderItem(e) ==
    LET item == e.item
        package == IF item.p \in {<<>>, UNNAMED} THEN <<>>
                   ELSE item.p \o <<".">>
    IN  [before |-> IF item.m = <<>> THEN <<>> ELSE item.m \o <<"/">>,
         label |-> IF e.cat = catTypes THEN package \o item.l
                   ELSE IF e.cat = catMembers
                   THEN package \o item.c \o <<".">> \o item.l
                   ELSE item.l]

\* The rows of the menu: a heading before the first entry of a category.
HasHeading(items, i) ==
    LET above == SelectSeq(SubSeq(items, 1, i - 1), LAMBDA e : e.cat # "none")
    IN  /\ items[i].cat # "none"
        /\ above = <<>> \/ Last(above).cat # items[i].cat

-----------------------------------------------------------------------------
(* doSearch                                                                *)

Ranking(re, cat, item, t) ==
    rankMatch(re, exec(re, Name(cat, item, t)), Name(cat, item, t), cat)

\* Bug: the worst comes first.
Behind(e1, e2) == e1.rank > e2.rank \/ (e1.rank = e2.rank /\ e1.item < e2.item)
Ahead(e1, e2) == e1.rank < e2.rank \/ (e1.rank = e2.rank /\ e1.item < e2.item)

\* The search of an index stops after MAX_RESULTS + 1 matches, whatever their
\* rank, and then sorts them.
searchIndexWithMatcher(items, re, cat, t) ==
    LET matches == {m \in {[item |-> i, rank |-> Ranking(re, cat, items[i], t)] :
                              i \in DOMAIN items} : m.rank < RANKING_THRESHOLD}
        newResults == {m \in matches :
                         Cardinality({o \in matches : o.item < m.item})
                           <= MAX_RESULTS}
        sorted == SetToSortSeq(newResults, Ahead)
    IN  [n \in DOMAIN sorted |-> [cat |-> cat, item |-> items[sorted[n].item]]]

\* Bug: what both matchers find is listed twice.
WithDuplicates(primaryResults, secondaryResults) == secondaryResults
OnlyNew(primaryResults, secondaryResults) ==
    SelectSeq(secondaryResults, LAMBDA e : ~Contains(primaryResults, e))

searchIndex(items, cat, t) ==
    LET matcher == createMatcher(createSearchPattern(t))
        fallback == RegExp(createSearchPattern(toLowerCase(t)), TRUE)
        primary == searchIndexWithMatcher(items, matcher, cat, t)
        secondary == searchIndexWithMatcher(items, fallback, cat, t)
    IN  primary \o (IF Len(primary) <= MIN_RESULTS /\ ~matcher.ignoreCase
                    THEN OnlyNew(primary, secondary) ELSE <<>>)

\* Tables of what the terms give, so that TLC tabulates them.
PatternOf == [t \in Terms |-> createSearchPattern(t)]
FallbackOf == [t \in Terms |-> createSearchPattern(toLowerCase(t))]
Found == [d \in Docs, cat \in ToSet(Categories), t \in Terms |->
            searchIndex(Index[d][cat], cat, t)]

indexFilesLoaded(files) == ToSet(Categories) \subseteq files

result(t, files) ==
    (IF indexFilesLoaded(files) THEN <<>> ELSE <<loading>>)
      \o FlattenSeq([k \in DOMAIN Categories |->
           IF Categories[k] \in files THEN Found[docs, Categories[k], t]
                                      ELSE <<>>])

\* Nothing found is an entry, too.
Shown(content) == IF content = <<>> THEN <<noResult>> ELSE content
\* Bug: the menu opens even when it was closed meanwhile.
OpensAnyway(content, latest, closed) ==
    menu' = IF ~latest THEN menu ELSE Shown(content)
\* The widget takes the response to its latest request only, and then only
\* if it was not closed.
response(content, latest, closed) ==
    menu' = IF ~latest THEN menu ELSE IF closed THEN <<>> ELSE Shown(content)

close == cancelSearch' = TRUE /\ menu' = <<>>

Nothing == [term |-> <<>>, latest |-> FALSE]
\* Bug: the first search is done again, and no other.
AgainOnce(t, files, latest) ==
    IF indexFilesLoaded(files) \/ updateSearchResults # Nothing THEN Nothing
    ELSE [term |-> t, latest |-> latest]
Again(t, files, latest) ==
    IF indexFilesLoaded(files) THEN Nothing ELSE [term |-> t, latest |-> latest]

doSearch(t, files, latest, closed) ==
    /\ searchPattern' = PatternOf[t]
    /\ fallbackPattern' = FallbackOf[t]
    /\ IF PatternOf[t] = <<>>
       THEN /\ close
            /\ updateSearchResults' = [updateSearchResults EXCEPT !.latest = FALSE]
       ELSE /\ updateSearchResults' = Again(t, files, latest)
            /\ response(result(t, files), latest, closed)
            /\ cancelSearch' = closed

-----------------------------------------------------------------------------
(* Scripts arrive                                                          *)

SearchInit ==
    /\ docs \in Docs
    /\ wish \in Wishes
    /\ loaded = {}
    /\ box = [val |-> <<>>, watermark |-> FALSE, focus |-> FALSE]
    /\ searching = FALSE
    /\ term = <<>>
    /\ cancelSearch = FALSE
    /\ menu = <<>>
    /\ searchPattern = <<>>
    /\ fallbackPattern = <<>>
    /\ updateSearchResults = Nothing
    /\ location = Here

\* The box is disabled in the page and opened by search.js.
Ready == Library \in loaded /\ location = Here

LoadLibrary ==
    /\ Library \notin loaded
    /\ loaded' = loaded \cup {Library}
    /\ box' = [val |-> watermark, watermark |-> TRUE, focus |-> TRUE]
    /\ UNCHANGED <<docs, wish, searching, widget, location>>

\* An index file sets its array and calls updateSearchResults.
LoadIndex(cat) ==
    /\ cat \notin loaded /\ location = Here
    /\ loaded' = loaded \cup {cat}
    /\ IF updateSearchResults = Nothing
       THEN UNCHANGED widget
       ELSE /\ doSearch(updateSearchResults.term, loaded',
                        updateSearchResults.latest, cancelSearch)
            /\ UNCHANGED term
    /\ UNCHANGED <<docs, wish, box, searching, location>>

-----------------------------------------------------------------------------
(* The user and the timer                                                  *)

\* click, keydown and paste take the watermark away.
Cleared(b) == IF b.val = watermark
              THEN [b EXCEPT !.val = <<>>, !.watermark = FALSE] ELSE b

\* Any key, paste or deletion: the box then has t, and the timer starts anew.
Type(t) ==
    /\ Ready /\ box.focus
    /\ box' = [Cleared(box) EXCEPT !.val = t]
    /\ searching' = TRUE
    /\ UNCHANGED <<docs, wish, loaded, widget, location>>

\* After 300 ms: nothing if the menu shows the answer already; a search that
\* is too short closes.
Timeout ==
    /\ Ready /\ searching
    /\ searching' = FALSE
    /\ IF term = box.val /\ menu # <<>>
       THEN UNCHANGED widget
       ELSE /\ term' = box.val
            /\ IF box.val = <<>>
               THEN /\ close
                    /\ UNCHANGED <<searchPattern, fallbackPattern,
                                   updateSearchResults>>
               ELSE doSearch(box.val, loaded, TRUE, FALSE)
    /\ UNCHANGED <<docs, wish, loaded, box, location>>

\* Bug: the timer goes on.
StillSearching == searching
StopSearching == FALSE

Left(b) == IF b.val = <<>> THEN [b EXCEPT !.val = watermark, !.watermark = TRUE,
                                          !.focus = FALSE]
           ELSE [b EXCEPT !.focus = FALSE]

Blur ==
    /\ Ready /\ box.focus
    /\ box' = Left(box)
    /\ searching' = StopSearching
    /\ close
    /\ UNCHANGED <<docs, wish, loaded, term, searchPattern, fallbackPattern,
                   updateSearchResults, location>>

\* By a click, or with the keyboard, which leaves the watermark.
Focus ==
    /\ Ready /\ ~box.focus
    /\ \/ box' = [Cleared(box) EXCEPT !.focus = TRUE]
       \/ box' = [box EXCEPT !.focus = TRUE]
    /\ UNCHANGED <<docs, wish, loaded, searching, widget, location>>

\* The button takes the focus before it gives it back.
Reset ==
    /\ Ready
    /\ box' = [(IF box.focus THEN Left(box) ELSE box)
                 EXCEPT !.val = <<>>, !.focus = TRUE]
    /\ searching' = StopSearching
    /\ close
    /\ UNCHANGED <<docs, wish, loaded, term, searchPattern, fallbackPattern,
                   updateSearchResults, location>>

Escape ==
    /\ Ready /\ box.focus /\ menu # <<>>
    /\ box' = [box EXCEPT !.val = term]
    /\ close
    /\ UNCHANGED <<docs, wish, loaded, searching, term, searchPattern,
                   fallbackPattern, updateSearchResults, location>>

Path(text) == [i \in DOMAIN text |-> IF text[i] = "." THEN "/" ELSE text[i]]

getURLPrefix(cat, item) ==
    LET homes == SelectSeq(IF catPackages \in loaded THEN Index[docs][catPackages]
                                                     ELSE <<>>,
                           LAMBDA q : q.m # <<>> /\ q.l = item.p)
    IN  IF cat = catModules THEN item.l \o <<"/">>
        ELSE IF \/ cat = catPackages /\ item.m # <<>>
                \/ cat \in {catTypes, catMembers} /\ item.m # <<>>
             THEN item.m \o <<"/">>
        ELSE IF cat \in {catTypes, catMembers} /\ homes # <<>>
             THEN Last(homes).m \o <<"/">>
        ELSE <<>>

\* Bug: the unnamed package has a directory.
InPackage(item, class) == Path(item.p) \o <<"/">> \o class \o <<".html">>
\* The page of a class, below its package.
ClassPage(item, class) ==
    (IF item.p = UNNAMED THEN <<>> ELSE Path(item.p) \o <<"/">>)
      \o class \o <<".html">>

URL(cat, item) ==
    LET prefix == getURLPrefix(cat, item)
        link == item.u # <<>>
    IN  CASE cat = catModules -> prefix \o <<"module-summary.html">>
          [] cat = catPackages -> IF link THEN item.u
               ELSE prefix \o Path(item.l) \o <<"/package-summary.html">>
          [] cat = catTypes -> IF link THEN item.u
               ELSE prefix \o ClassPage(item, item.l)
          [] cat = catMembers -> prefix \o ClassPage(item, item.c) \o <<"#">>
               \o (IF link THEN item.u ELSE item.l)
          [] cat = catSearchTags -> prefix \o item.u

\* The widget then takes the value of the item, which it has none of.
Select(i) ==
    /\ Ready /\ i \in DOMAIN menu
    /\ location' = IF menu[i].cat = "none" THEN Here
                   ELSE URL(menu[i].cat, menu[i].item)
    /\ box' = [box EXCEPT !.val = <<>>, !.focus = TRUE]
    /\ term' = <<>>
    /\ close
    /\ UNCHANGED <<docs, wish, loaded, searching, searchPattern, fallbackPattern,
                   updateSearchResults>>

SearchNext ==
    \/ LoadLibrary
    \/ \E cat \in ToSet(Categories) : LoadIndex(cat)
    \/ \E t \in wish \cup {<<>>} : Type(t)
    \/ Timeout
    \/ Blur \/ Focus \/ Reset \/ Escape
    \/ \E i \in DOMAIN menu : Select(i)

\* The scripts are files beside the page: they arrive.
SearchFairness ==
    /\ WF_searchVars(LoadLibrary)
    /\ \A cat \in ToSet(Categories) : WF_searchVars(LoadIndex(cat))

-----------------------------------------------------------------------------
(* Properties                                                              *)

SearchTypeOK ==
    /\ docs \in Docs /\ wish \in Wishes /\ loaded \subseteq Scripts
    /\ box.val \in Terms
    /\ box.watermark \in BOOLEAN /\ box.focus \in BOOLEAN
    /\ searching \in BOOLEAN /\ cancelSearch \in BOOLEAN
    /\ term \in Terms
    /\ updateSearchResults.term \in Terms

OneHeading ==
    \A i, j \in DOMAIN menu :
      HasHeading(menu, i) /\ HasHeading(menu, j) /\ menu[i].cat = menu[j].cat
        => i = j

\* search.js 283-291: while it is open, the menu is what a search for the
\* term would give now, however many indexes have arrived since.
ResultsAreCurrent == menu # <<>> => menu = Shown(result(term, loaded))

\* search.js 133, 263: what both matchers find, or a search that is done again, is
\* listed once, and each category stands under one heading.
ListedOnce == Cardinality(ToSet(menu)) = Len(menu) /\ OneHeading

\* search.js 213, "rank full match higher than partial match": in its category
\* no result comes before one that is exactly the term, unless it is the term
\* but for capitals.
NameOf(e) == LET name == Name(e.cat, e.item, term)
             IN  SubSeq(name, 1, endOfName(name))
BestFirst ==
    \A i, j \in DOMAIN menu :
      i < j /\ menu[i].cat = menu[j].cat /\ NameOf(menu[j]) = term =>
        toLowerCase(NameOf(menu[i])) = toLowerCase(term)

\* search.js 44-51: the label of a result shows what was found, though the
\* patterns are globals that every search sets and the label is not the text
\* that was searched.  What was found in the name of the unnamed package is
\* not in the label.
EveryResultHighlighted ==
    \A i \in DOMAIN menu :
      LET e == menu[i]
          fallback == RegExp(fallbackPattern, TRUE)
          found == exec(fallback, Name(e.cat, e.item, term))
      IN  \/ e.cat = "none"
          \/ getHighlightedText(renderItem(e).label,
                createMatcher(escapeHtml(searchPattern)), fallback) # NoMatch
          \/ Has(term, ".") /\ Head(found) <= Len(Text(e.item.p))

\* An index that arrives does not open a menu that is closed: the user has
\* closed it, or asked for something else since.
ClosedStaysClosed ==
    [][loaded' # loaded /\ menu = <<>> => menu' = <<>>]_searchVars

\* search.js 106-116: nobody searches for the text that stands in an empty box.
WatermarkNotSearched == term # watermark

\* search.js 312-349: a result leads to a page there is.
LinksExist ==
    location # Here =>
      LET hash == SelectInSeq(location, LAMBDA ch : ch = "#")
      IN  SubSeq(location, 1, IF hash = 0 THEN Len(location) ELSE hash - 1)
            \in Pages[docs]

\* search.js 287, 289: "Loading search index..." goes away.
LoadingEnds == menu # <<>> /\ Head(menu) = loading
                 ~> ~(menu # <<>> /\ Head(menu) = loading)
=============================================================================
