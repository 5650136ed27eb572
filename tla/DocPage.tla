------------------------------- MODULE DocPage -------------------------------
(***************************************************************************)
(* A page of the generated API documentation, script.js without the        *)
(* loading of scripts: a summary table with tabs, and the position of the  *)
(* page in the browser's history.                                          *)
(***************************************************************************)
EXTENDS Integers, Sequences, FiniteSets, SequencesExt

CONSTANTS
    Tables,         \* tables of pages: the tabs after the first one, which
                    \* shows all rows, the tabs each row is for, in order,
                    \* and the element of the page that the tab labels
    columns,        \* cells of a row
    Positions,      \* scrollTop of the content, 0 the top
    MaxEntries,     \* bound: entries of the history
    MaxPending      \* bound: timers and events to come when the user goes on

tableId == "all"
Elements == {"summary-table", "tabpanel"}

ASSUME PageAssumption ==
    /\ columns \in Nat \ {0} /\ MaxEntries \in Nat /\ MaxPending \in Nat
    /\ 0 \in Positions /\ Positions \subseteq Nat
    /\ \A t \in Tables :
         /\ t.labels \in Elements /\ t.tabs \in Seq(STRING)
         /\ t.rows \in Seq(SUBSET ToSet(t.tabs))

VARIABLES
    table,          \* the table of this page
    hidden,         \* cells that are not displayed
    colors,         \* the color classes of each cell
    active,         \* the tabs that are marked as selected
    labelled,       \* aria-labelledby of the two elements around the table
    entries,        \* session history: the state of each entry
    cur,            \* the entry the page is at
    scrollTop,
    scrolled,       \* a scroll event is to come
    hashchanges,    \* hashchange events to come
    timers,         \* timers of the scroll handler
    left            \* where the user left each entry, for the properties

tabVars == <<table, hidden, colors, active, labelled>>
historyVars == <<entries, cur, scrollTop, scrolled, hashchanges, timers, left>>
pageVars == <<tabVars, historyVars>>

-----------------------------------------------------------------------------
(* Tabs                                                                    *)

Tabs == <<tableId>> \o table.tabs
Cells == 1..(Len(table.rows) * columns)
RowOf(cell) == 1 + (cell - 1) \div columns
InTab(cell, tab) == tab \in table.rows[RowOf(cell)] \cup {tableId}

evenRowColor == "even"
oddRowColor == "odd"

\* The page as it is generated.
TabsInit ==
    /\ table \in Tables
    /\ hidden = {}
    /\ colors = [cell \in Cells |-> {IF RowOf(cell) % 2 = 1 THEN evenRowColor
                                                          ELSE oddRowColor}]
    /\ active = {tableId}
    /\ labelled = [e \in Elements |->
                     IF e = table.labels THEN tableId ELSE "none"]

\* Bug: the color of a row is that of its place among all rows.
AllBefore(cell, selected) == cell - 1
\* The cells of a tab in document order: how many come before one of them.
Before(cell, selected) ==
    Cardinality({other \in 1..(cell - 1) : InTab(other, selected)})

isEvenRow(cell, selected) == Before(cell, selected) % (columns * 2) < columns
Recolored(cell, selected) ==
    IF isEvenRow(cell, selected)
    THEN (colors[cell] \ {oddRowColor}) \cup {evenRowColor}
    ELSE (colors[cell] \ {evenRowColor}) \cup {oddRowColor}

\* Bug: the cells of the tab are not displayed again.
OthersToo(selected) == hidden \cup {cell \in Cells : ~InTab(cell, selected)}
HiddenBy(selected) ==
    (IF selected = tableId THEN hidden
     ELSE hidden \cup {cell \in Cells : ~InTab(cell, selected)})
      \ {cell \in Cells : InTab(cell, selected)}

IsSelected(tab, selected) == tab = selected

\* The scripts differ in the element whose label they set.
updateTabs(selected) ==
    /\ labelled' = [labelled EXCEPT !["summary-table"] = selected]
    /\ active' = {tab \in ToSet(Tabs) : IsSelected(tab, selected)}
updateTabsOfPanel(selected) ==
    /\ labelled' = [labelled EXCEPT !["tabpanel"] = selected]
    /\ active' = {tab \in ToSet(Tabs) : IsSelected(tab, selected)}

show(selected) ==
    /\ hidden' = HiddenBy(selected)
    /\ colors' = [cell \in Cells |->
                    IF InTab(cell, selected) THEN Recolored(cell, selected)
                                             ELSE colors[cell]]
    /\ IF table.labels = "tabpanel" THEN updateTabsOfPanel(selected)
                                    ELSE updateTabs(selected)
    /\ UNCHANGED <<table, historyVars>>

\* An arrow key clicks the tab beside the first that is selected.
switchTab(step) ==
    LET selected == SelectInSeq(Tabs, LAMBDA tab : tab \in active)
    IN  /\ selected + step \in DOMAIN Tabs
        /\ show(Tabs[selected + step])

TabsNext ==
    \/ \E tab \in ToSet(Tabs) : show(tab)
    \/ \E step \in {-1, 1} : switchTab(step)

-----------------------------------------------------------------------------
(* The position in the history.  entries[cur] is history.state.            *)

NoState == -1
Unknown == -1

\* A page opened at a fragment is scrolled by the browser.
HistoryInit ==
    /\ cur = 1
    /\ left = <<Unknown>>
    /\ hashchanges = 0
    /\ timers = 0
    /\ \/ entries = <<0>> /\ scrollTop = 0 /\ scrolled = FALSE
       \/ /\ entries = <<NoState>>
          /\ scrollTop \in Positions
          /\ scrolled = (scrollTop # 0)

\* Bug: only an entry without a state gets one.
FirstState ==
    entries' = IF entries[cur] = NoState THEN [entries EXCEPT ![cur] = scrollTop]
               ELSE entries
replaceState == entries' = [entries EXCEPT ![cur] = scrollTop]

\* Nothing is to come, and the entry has its state.
Settled == /\ ~scrolled /\ hashchanges = 0 /\ timers = 0
           /\ entries[cur] # NoState
Leaving == [left EXCEPT ![cur] = IF Settled THEN scrollTop ELSE Unknown]
Moves(position) ==
    /\ scrollTop' = position
    /\ scrolled' = (scrolled \/ position # scrollTop)

Calm == timers + hashchanges < MaxPending

Scroll(position) ==
    /\ Calm /\ position # scrollTop
    /\ Moves(position)
    /\ UNCHANGED <<tabVars, entries, cur, hashchanges, timers, left>>

\* timeoutID is a variable of the handler: every event starts a timer.
OnScroll ==
    /\ scrolled
    /\ scrolled' = FALSE
    /\ timers' = timers + 1
    /\ UNCHANGED <<tabVars, entries, cur, scrollTop, hashchanges, left>>

OnTimer ==
    /\ timers > 0
    /\ timers' = timers - 1
    /\ replaceState
    /\ UNCHANGED <<tabVars, cur, scrollTop, scrolled, hashchanges, left>>

OnHashchange ==
    /\ hashchanges > 0
    /\ hashchanges' = hashchanges - 1
    /\ replaceState
    /\ UNCHANGED <<tabVars, cur, scrollTop, scrolled, timers, left>>

\* A link to another place of the page: a new entry after this one.
FollowLink(position) ==
    /\ Calm /\ cur < MaxEntries
    /\ entries' = Append(SubSeq(entries, 1, cur), NoState)
    /\ left' = Append(SubSeq(Leaving, 1, cur), Unknown)
    /\ cur' = cur + 1
    /\ Moves(position)
    /\ hashchanges' = hashchanges + 1
    /\ UNCHANGED <<tabVars, timers>>

\* Bug: the page is not scrolled.
StaysAt(entry) == scrollTop
\* popstate; the browser decides where an entry without a state is.
Restored(entry) == entries[entry]

\* Bug: the state is not tested.
AnyState(entry) == TRUE
HasState(entry) == entries[entry] # NoState

Traverse(entry) ==
    /\ Calm
    /\ entry \in DOMAIN entries /\ entry \in {cur - 1, cur + 1}
    /\ cur' = entry
    /\ left' = Leaving
    /\ IF HasState(entry)
       THEN Moves(Restored(entry))
       ELSE \E position \in Positions : Moves(position)
    /\ hashchanges' = hashchanges + 1
    /\ UNCHANGED <<tabVars, entries, timers>>

HistoryNext ==
    \/ \E position \in Positions : Scroll(position) \/ FollowLink(position)
    \/ OnScroll \/ OnTimer \/ OnHashchange
    \/ \E entry \in 1..MaxEntries : Traverse(entry)

-----------------------------------------------------------------------------
(* Properties                                                              *)

PageTypeOK ==
    /\ table \in Tables /\ hidden \subseteq Cells /\ active \subseteq ToSet(Tabs)
    /\ colors \in [Cells -> SUBSET {evenRowColor, oddRowColor}]
    /\ cur \in DOMAIN entries /\ DOMAIN left = DOMAIN entries
    /\ \A e \in DOMAIN entries : entries[e] \in Positions \cup {NoState}
    /\ scrollTop \in Positions /\ timers \in Nat /\ hashchanges \in Nat

Visible == Cells \ hidden

\* script.js 48-80: after any sequence of clicks and keys one tab is selected,
\* it labels the table, and the rows on display are the rows of that tab.
TabsAgree ==
    \E tab \in ToSet(Tabs) :
      /\ active = {tab} /\ labelled[table.labels] = tab
      /\ Visible = {cell \in Cells : InTab(cell, tab)}

\* script.js 58-60: the rows on display are striped, whatever rows were on
\* display before: a row has one color in all of its cells, and the next row
\* on display has the other.
Striped ==
    \A a, b \in Visible :
      /\ Cardinality(colors[a]) = 1
      /\ RowOf(a) = RowOf(b) => colors[a] = colors[b]
      /\ RowOf(a) < RowOf(b)
           /\ (\A m \in Visible : ~(RowOf(a) < RowOf(m) /\ RowOf(m) < RowOf(b)))
         => colors[a] # colors[b]

\* script.js 117-131: when no event and no timer is to come, the entry of the
\* history that the page is at has the page's position, whatever handlers ran
\* and in which order.
SettledIsSaved == Settled => entries[cur] = scrollTop

\* script.js 109, "scroll position not being included in browser history":
\* the user comes back to where an entry was left, if it was left at rest.
\* (One that is left within the 100 ms is not saved.)
BackRestores ==
    [][cur' # cur /\ left'[cur'] # Unknown => scrollTop' = left'[cur']]_pageVars
=============================================================================
