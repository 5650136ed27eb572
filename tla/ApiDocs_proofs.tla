---------------------------- MODULE ApiDocs_proofs ----------------------------
(***************************************************************************)
(* Theorems about ApiDocs, for any terms, tables and scroll positions.     *)
(***************************************************************************)
EXTENDS ApiDocs, FiniteSetTheorems, TLAPS

-----------------------------------------------------------------------------
(* The search box                                                          *)

\* The timer runs only behind a text that the user has typed.
TypedOnly == searching => Library \in loaded /\ box.val # watermark

SearchInv ==
    /\ SearchTypeOK
    /\ box \in [val : Terms, watermark : BOOLEAN, focus : BOOLEAN]
    /\ updateSearchResults \in [term : Terms, latest : BOOLEAN]
    /\ TypedOnly
    /\ WatermarkNotSearched

LEMMA EmptyIsATerm == <<>> \in Terms /\ watermark \in Terms
BY DEF Terms

LEMMA WatermarkIsNotEmpty == watermark # <<>>
BY DEF watermark

\* What may be typed is a term and not the watermark.
LEMMA WishIsATerm ==
  ASSUME wish \in Wishes, NEW t \in wish \cup {<<>>}
  PROVE  t \in Terms /\ t # watermark
BY WatermarkIsNotEmpty, SearchAssumption DEF Terms

LEMMA SearchInitially == SearchInit => SearchInv
<1> SUFFICES ASSUME SearchInit PROVE SearchInv
    OBVIOUS
<1>1. Nothing \in [term : Terms, latest : BOOLEAN]
      BY EmptyIsATerm DEF Nothing
<1>2. QED
      BY <1>1, EmptyIsATerm, WatermarkIsNotEmpty
      DEF SearchInit, SearchInv, SearchTypeOK, TypedOnly, WatermarkNotSearched,
          Scripts

LEMMA SearchStays == SearchInv /\ UNCHANGED searchVars => SearchInv'
BY DEF SearchInv, SearchTypeOK, TypedOnly, WatermarkNotSearched, searchVars,
       widget

\* doSearch keeps the types of what it sets.
LEMMA DoSearchTypes ==
  ASSUME SearchInv, NEW t \in Terms, NEW files, NEW latest \in BOOLEAN,
         NEW closed \in BOOLEAN, doSearch(t, files, latest, closed)
  PROVE  /\ updateSearchResults' \in [term : Terms, latest : BOOLEAN]
         /\ cancelSearch' \in BOOLEAN
<1>1. Again(t, files, latest) \in [term : Terms, latest : BOOLEAN]
      BY EmptyIsATerm DEF Again, Nothing
<1>2. [updateSearchResults EXCEPT !.latest = FALSE]
        \in [term : Terms, latest : BOOLEAN]
      BY DEF SearchInv
<1>3. QED
      BY <1>1, <1>2 DEF doSearch, close

\* Every handler keeps the invariant: only a text that was typed is ever
\* searched, since whatever puts the watermark into the box stops the timer.
LEMMA SearchStep == SearchInv /\ SearchNext => SearchInv'
<1> SUFFICES ASSUME SearchInv, SearchNext PROVE SearchInv'
    OBVIOUS
<1> USE EmptyIsATerm, WatermarkIsNotEmpty
    DEF SearchInv, SearchTypeOK, TypedOnly, WatermarkNotSearched
<1>1. CASE LoadLibrary
      BY <1>1 DEF LoadLibrary, Scripts, widget
<1>2. ASSUME NEW cat \in ToSet(Categories), LoadIndex(cat) PROVE SearchInv'
  <2>1. /\ updateSearchResults' \in [term : Terms, latest : BOOLEAN]
        /\ cancelSearch' \in BOOLEAN
        /\ term' = term
    <3>1. CASE updateSearchResults = Nothing
          BY <1>2, <3>1 DEF LoadIndex, widget
    <3>2. CASE updateSearchResults # Nothing
      <4>1. doSearch(updateSearchResults.term, loaded',
                     updateSearchResults.latest, cancelSearch)
            BY <1>2, <3>2 DEF LoadIndex
      <4>2. updateSearchResults.latest \in BOOLEAN
            OBVIOUS
      <4>3. QED
            BY <1>2, <3>2, <4>1, <4>2, DoSearchTypes DEF LoadIndex
    <3>3. QED
          BY <3>1, <3>2
  <2>2. loaded' = loaded \cup {cat} /\ cat \in Scripts
        BY <1>2 DEF LoadIndex, Scripts
  <2>3. QED
        BY <1>2, <2>1, <2>2 DEF LoadIndex
<1>3. ASSUME NEW t \in wish \cup {<<>>}, Type(t) PROVE SearchInv'
  <2>1. t \in Terms /\ t # watermark
        BY WishIsATerm
  <2>2. /\ box' = [Cleared(box) EXCEPT !.val = t]
        /\ Cleared(box) \in [val : Terms, watermark : BOOLEAN, focus : BOOLEAN]
        BY <1>3 DEF Type, Cleared
  <2>3. QED
        BY <1>3, <2>1, <2>2 DEF Type, widget, Ready
<1>4. CASE Timeout
  <2>1. box.val # watermark /\ box.val \in Terms
        BY <1>4 DEF Timeout
  <2>2. /\ updateSearchResults' \in [term : Terms, latest : BOOLEAN]
        /\ cancelSearch' \in BOOLEAN
        /\ term' \in {term, box.val}
    <3>1. CASE term = box.val /\ menu # <<>>
          BY <1>4, <3>1 DEF Timeout, widget
    <3>2. CASE ~(term = box.val /\ menu # <<>>) /\ box.val = <<>>
          BY <1>4, <3>2 DEF Timeout, close
    <3>3. CASE ~(term = box.val /\ menu # <<>>) /\ box.val # <<>>
      <4>1. doSearch(box.val, loaded, TRUE, FALSE) /\ term' = box.val
            BY <1>4, <3>3 DEF Timeout
      <4>2. QED
            BY <2>1, <4>1, DoSearchTypes
    <3>4. QED
          BY <3>1, <3>2, <3>3
  <2>3. QED
        BY <1>4, <2>1, <2>2 DEF Timeout
<1>5. CASE Blur
      BY <1>5 DEF Blur, Left, StopSearching, close
<1>6. CASE Focus
      BY <1>6 DEF Focus, Cleared, widget
<1>7. CASE Reset
      BY <1>7 DEF Reset, Left, StopSearching, close
<1>8. CASE Escape
      BY <1>8 DEF Escape, close
<1>9. ASSUME NEW i \in DOMAIN menu, Select(i) PROVE SearchInv'
      BY <1>9 DEF Select, close
<1>10. QED
       BY <1>1, <1>2, <1>3, <1>4, <1>5, <1>6, <1>7, <1>8, <1>9 DEF SearchNext

-----------------------------------------------------------------------------
(* The menu                                                                *)

\* An open menu is the answer to the term, from the indexes that are there,
\* with the patterns of the term; the widget is not cancelled and, when indexes
\* are missing, the search that is done again is for the term.
AnswersTheTerm ==
    /\ Library \in loaded /\ ~cancelSearch
    /\ PatternOf[term] # <<>>
    /\ searchPattern = PatternOf[term] /\ fallbackPattern = FallbackOf[term]
    /\ menu = Shown(result(term, loaded))
    /\ indexFilesLoaded(loaded) \/ updateSearchResults = [term |-> term, latest |-> TRUE]

\* While the menu is closed, a search that is done again is not listened to.
MenuInv ==
    /\ menu # <<>> => AnswersTheTerm
    /\ menu = <<>> => (updateSearchResults.latest => cancelSearch)

LEMMA ShownIsOpen == ASSUME NEW content PROVE Shown(content) # <<>>
BY DEF Shown

LEMMA MenuInitially == SearchInit => MenuInv
BY DEF SearchInit, MenuInv, Nothing

LEMMA ClosesMenu ==
  ASSUME close
  PROVE  MenuInv' /\ menu' = <<>>
BY DEF close, MenuInv

LEMMA MenuStays ==
  ASSUME MenuInv, UNCHANGED <<widget, docs>>, Library \in loaded => Library \in loaded',
         menu # <<>> => loaded' = loaded
  PROVE  MenuInv' /\ menu' = menu
<1>1. /\ term' = term /\ cancelSearch' = cancelSearch /\ menu' = menu /\ docs' = docs
      /\ searchPattern' = searchPattern /\ fallbackPattern' = fallbackPattern
      /\ updateSearchResults' = updateSearchResults
      BY DEF widget
<1>2. CASE menu = <<>>
      BY <1>1, <1>2 DEF MenuInv
<1>3. CASE menu # <<>>
  <2>1. loaded' = loaded /\ AnswersTheTerm
        BY <1>3 DEF MenuInv
  <2>2. result(term, loaded)' = result(term, loaded)
        BY <1>1, <2>1 DEF result
  <2>3. AnswersTheTerm'
        BY <1>1, <2>1, <2>2 DEF AnswersTheTerm
  <2>4. QED
        BY <1>1, <1>3, <2>3 DEF MenuInv
<1>4. QED
      BY <1>2, <1>3

\* A search whose response is listened to answers its term.
LEMMA DoSearchAnswers ==
  ASSUME doSearch(term', loaded', TRUE, FALSE), docs' = docs, Library \in loaded'
  PROVE  MenuInv'
<1>1. CASE PatternOf[term'] = <<>>
      BY <1>1, ClosesMenu DEF doSearch
<1>2. CASE PatternOf[term'] # <<>>
  <2>1. /\ searchPattern' = PatternOf[term'] /\ fallbackPattern' = FallbackOf[term']
        /\ cancelSearch' = FALSE
        /\ updateSearchResults' = Again(term', loaded', TRUE)
        /\ menu' = Shown(result(term', loaded'))
        BY <1>2 DEF doSearch, response
  <2>2. result(term', loaded') = result(term, loaded)'
        BY DEF result
  <2>3. indexFilesLoaded(loaded') \/ updateSearchResults' = [term |-> term', latest |-> TRUE]
        BY <2>1 DEF Again
  <2>4. menu' # <<>>
        BY <2>1, ShownIsOpen
  <2>5. AnswersTheTerm'
        BY <1>2, <2>1, <2>2, <2>3 DEF AnswersTheTerm, indexFilesLoaded
  <2>6. QED
        BY <2>4, <2>5 DEF MenuInv
<1>3. QED
      BY <1>1, <1>2

\* One that is not leaves the menu closed.
LEMMA DoSearchStaysClosed ==
  ASSUME NEW t, NEW latest \in BOOLEAN, NEW closed \in BOOLEAN,
         doSearch(t, loaded', latest, closed), menu = <<>>, latest => closed
  PROVE  MenuInv' /\ menu' = <<>>
<1>1. CASE PatternOf[t] = <<>>
      BY <1>1, ClosesMenu DEF doSearch
<1>2. CASE PatternOf[t] # <<>>
  <2>1. /\ cancelSearch' = closed /\ updateSearchResults' = Again(t, loaded', latest)
        /\ menu' = <<>>
        BY <1>2 DEF doSearch, response
  <2>2. updateSearchResults'.latest => closed
        BY <2>1 DEF Again, Nothing
  <2>3. QED
        BY <2>1, <2>2 DEF MenuInv
<1>3. QED
      BY <1>1, <1>2

\* An index that arrives: the search is done again for the term the menu
\* answers, and a closed menu stays closed.
LEMMA LoadIndexMenu ==
  ASSUME SearchInv, MenuInv, NEW cat \in ToSet(Categories), LoadIndex(cat)
  PROVE  MenuInv' /\ (menu = <<>> => menu' = <<>>)
<1> DEFINE u == updateSearchResults
<1>1. loaded' = loaded \cup {cat} /\ cat \notin loaded /\ docs' = docs
      BY DEF LoadIndex
<1>2. ~indexFilesLoaded(loaded)
      BY <1>1 DEF indexFilesLoaded
<1>3. menu # <<>> => AnswersTheTerm /\ u = [term |-> term, latest |-> TRUE]
      BY <1>2 DEF MenuInv, AnswersTheTerm
<1>4. CASE u = Nothing
  <2>1. menu = <<>>
        BY <1>3, <1>4 DEF Nothing
  <2>2. UNCHANGED widget
        BY <1>4 DEF LoadIndex
  <2>3. QED
        BY <1>1, <2>1, <2>2, MenuStays
<1>5. CASE u # Nothing
  <2>1. doSearch(u.term, loaded', u.latest, cancelSearch) /\ term' = term
        BY <1>5 DEF LoadIndex
  <2>2. CASE menu # <<>>
    <3>1. u.term = term' /\ u.latest = TRUE /\ cancelSearch = FALSE /\ Library \in loaded'
          BY <1>1, <1>3, <2>1, <2>2 DEF AnswersTheTerm, SearchInv, SearchTypeOK
    <3> HIDE DEF u
    <3>2. QED
          BY <1>1, <2>1, <2>2, <3>1, DoSearchAnswers
  <2>3. CASE menu = <<>>
    <3>1. u.latest \in BOOLEAN /\ cancelSearch \in BOOLEAN /\ (u.latest => cancelSearch)
          BY <2>3 DEF MenuInv, SearchInv, SearchTypeOK
    <3> HIDE DEF u
    <3>2. QED
          BY <2>1, <2>3, <3>1, DoSearchStaysClosed
  <2>4. QED
        BY <2>2, <2>3
<1>6. QED
      BY <1>4, <1>5

\* What the timer starts is listened to.
LEMMA TimeoutMenu == ASSUME MenuInv, Timeout PROVE MenuInv'
<1>1. CASE term = box.val /\ menu # <<>>
  <2>1. UNCHANGED <<widget, docs>> /\ loaded' = loaded
        BY <1>1 DEF Timeout
  <2>2. QED
        BY <2>1, MenuStays
<1>2. CASE ~(term = box.val /\ menu # <<>>) /\ box.val = <<>>
  <2>1. close
        BY <1>2 DEF Timeout
  <2>2. QED
        BY <2>1, ClosesMenu
<1>3. CASE ~(term = box.val /\ menu # <<>>) /\ box.val # <<>>
  <2>1. doSearch(term', loaded', TRUE, FALSE) /\ docs' = docs /\ Library \in loaded'
        BY <1>3 DEF Timeout, Ready
  <2>2. QED
        BY <2>1, DoSearchAnswers
<1>4. QED
      BY <1>1, <1>2, <1>3

\* Every handler leaves the menu closed or right, and no script opens it.
LEMMA MenuStep ==
  ASSUME SearchInv, MenuInv, SearchNext
  PROVE  MenuInv' /\ (loaded' # loaded /\ menu = <<>> => menu' = <<>>)
<1>1. CASE LoadLibrary
  <2>1. UNCHANGED <<widget, docs>> /\ loaded' = loaded \cup {Library} /\ Library \notin loaded
        BY <1>1 DEF LoadLibrary
  <2>2. menu = <<>>
        BY <2>1 DEF MenuInv, AnswersTheTerm
  <2>3. QED
        BY <2>1, <2>2, MenuStays
<1>2. CASE \E cat \in ToSet(Categories) : LoadIndex(cat)
      BY <1>2, LoadIndexMenu
<1>3. CASE \E t \in wish \cup {<<>>} : Type(t)
  <2>1. UNCHANGED <<widget, docs>> /\ loaded' = loaded
        BY <1>3 DEF Type
  <2>2. QED
        BY <2>1, MenuStays
<1>4. CASE Timeout
  <2>1. loaded' = loaded
        BY <1>4 DEF Timeout
  <2>2. QED
        BY <1>4, <2>1, TimeoutMenu
<1>5. CASE Focus
  <2>1. UNCHANGED <<widget, docs>> /\ loaded' = loaded
        BY <1>5 DEF Focus
  <2>2. QED
        BY <2>1, MenuStays
<1>6. CASE Blur \/ Reset \/ Escape \/ \E i \in DOMAIN menu : Select(i)
  <2>1. close
        BY <1>6 DEF Blur, Reset, Escape, Select
  <2>2. QED
        BY <2>1, ClosesMenu
<1>7. QED
      BY <1>1, <1>2, <1>3, <1>4, <1>5, <1>6 DEF SearchNext

-----------------------------------------------------------------------------
(* The tabs                                                                *)

TabsTypeOK ==
    /\ table \in Tables /\ hidden \subseteq Cells /\ active \subseteq ToSet(Tabs)
    /\ colors \in [Cells -> SUBSET {evenRowColor, oddRowColor}]
    /\ labelled \in [Elements -> ToSet(Tabs) \cup {"none"}]

-----------------------------------------------------------------------------
(* The rows on display: division                                           *)

\* Division with remainder, and that there is one way only to divide.
LEMMA Division ==
  ASSUME NEW c \in Nat \ {0}, NEW x \in Nat
  PROVE  /\ x \div c \in Nat /\ x % c \in 0..(c - 1)
         /\ x = c * (x \div c) + (x % c)
OBVIOUS

LEMMA Remainder ==
  ASSUME NEW c \in Nat \ {0}, NEW q \in Nat, NEW r \in 0..(c - 1)
  PROVE  (c * q + r) \div c = q /\ (c * q + r) % c = r
<1> DEFINE x == c * q + r
           p == x \div c
           s == x % c
<1>1. x \in Nat
  <2>1. c * q \in Nat
        OBVIOUS
  <2>2. QED
        BY <2>1
<1>2. p \in Nat /\ s \in 0..(c - 1) /\ c * q + r = c * p + s
      BY <1>1, Division
<1> HIDE DEF x, p, s
<1>3. ~(p >= q + 1)
  <2> SUFFICES ASSUME p >= q + 1 PROVE FALSE
      OBVIOUS
  <2>1. PICK d \in Nat : p = q + 1 + d
    <3>1. p - q - 1 \in Nat
          BY <1>2
    <3>2. QED
          BY <1>2, <3>1
  <2>2. c * p = c * q + c + c * d /\ c * d \in Nat /\ c * q \in Nat
        BY <2>1
  <2>3. QED
        BY <1>2, <2>2
<1>4. ~(q >= p + 1)
  <2> SUFFICES ASSUME q >= p + 1 PROVE FALSE
      OBVIOUS
  <2>1. PICK d \in Nat : q = p + 1 + d
    <3>1. q - p - 1 \in Nat
          BY <1>2
    <3>2. QED
          BY <1>2, <3>1
  <2>2. c * q = c * p + c + c * d /\ c * d \in Nat /\ c * p \in Nat
        BY <1>2, <2>1
  <2>3. QED
        BY <1>2, <2>2
<1>5. p = q
      BY <1>2, <1>3, <1>4
<1>6. s = r
  <2>1. c * q \in Nat /\ c * p = c * q
        BY <1>5
  <2>2. QED
        BY <1>2, <2>1
<1>7. QED
      BY <1>5, <1>6 DEF x, p, s

\* Of two rows of c cells, the first has the cells 0 to c - 1.
LEMMA Halves ==
  ASSUME NEW c \in Nat \ {0}, NEW k \in Nat, NEW o \in 0..(c - 1)
  PROVE  (c * k + o) % (c * 2) < c <=> k % 2 = 0
<1>1. k \div 2 \in Nat /\ k % 2 \in 0..1 /\ k = 2 * (k \div 2) + (k % 2)
      BY Division
<1> DEFINE h == k \div 2
           e == k % 2
<1>2. c * 2 \in Nat \ {0} /\ c * e + o \in 0..(c * 2 - 1)
  <2>1. e = 0 \/ e = 1
        BY <1>1
  <2>2. QED
        BY <2>1
<1>3. c * k + o = (c * 2) * h + (c * e + o)
      BY <1>1
<1>4. ((c * 2) * h + (c * e + o)) % (c * 2) = c * e + o
      BY <1>1, <1>2, Remainder
<1>5. e = 0 => c * e + o < c
      OBVIOUS
<1>6. e = 1 => ~(c * e + o < c)
      OBVIOUS
<1>7. QED
      BY <1>1, <1>3, <1>4, <1>5, <1>6

\* The rows of a tab that are before a row, and what a cell is in its row.
ForTab(row, tab) == tab \in table.rows[row] \cup {tableId}
RowsBefore(row, tab) == {r \in 1..(row - 1) : ForTab(r, tab)}
Place(cell) == (cell - 1) % columns

LEMMA CellOfRow ==
  ASSUME NEW r \in Nat \ {0}, NEW i \in 0..(columns - 1)
  PROVE  /\ columns * (r - 1) + i + 1 \in Nat \ {0}
         /\ RowOf(columns * (r - 1) + i + 1) = r
         /\ Place(columns * (r - 1) + i + 1) = i
<1> DEFINE q == r - 1
           x == columns * q + i
<1>1. columns \in Nat \ {0} /\ q \in Nat /\ columns * q \in Nat
      BY PageAssumption
<1>2. x \div columns = q /\ x % columns = i
      BY <1>1, Remainder
<1>3. x \in Nat /\ (x + 1) - 1 = x
      BY <1>1
<1> HIDE DEF x
<1>4. RowOf(x + 1) = 1 + q /\ Place(x + 1) = i
      BY <1>2, <1>3 DEF RowOf, Place
<1>5. QED
      BY <1>1, <1>3, <1>4 DEF x

LEMMA RowOfCell ==
  ASSUME NEW cell \in Nat \ {0}
  PROVE  /\ RowOf(cell) \in Nat \ {0} /\ Place(cell) \in 0..(columns - 1)
         /\ cell = columns * (RowOf(cell) - 1) + Place(cell) + 1
<1> DEFINE p == (cell - 1) \div columns
           s == (cell - 1) % columns
<1>1. columns \in Nat \ {0} /\ cell - 1 \in Nat
      BY PageAssumption
<1>2. p \in Nat /\ s \in 0..(columns - 1) /\ cell - 1 = columns * p + s
      BY <1>1, Division
<1> HIDE DEF p, s
<1>3. columns * p \in Nat /\ (1 + p) - 1 = p
      BY <1>1, <1>2
<1>4. QED
      BY <1>1, <1>2, <1>3 DEF RowOf, Place, p, s

\* A cell of an earlier row comes earlier.
LEMMA RowsInOrder ==
  ASSUME NEW a \in Nat \ {0}, NEW b \in Nat \ {0}, RowOf(a) < RowOf(b)
  PROVE  a < columns * (RowOf(b) - 1) + 1
<1> DEFINE p == RowOf(a) - 1
           q == RowOf(b) - 1
           d == q - p - 1
<1>1. /\ p \in Nat /\ q \in Nat /\ p < q /\ columns \in Nat \ {0}
      /\ Place(a) \in 0..(columns - 1) /\ a = columns * p + Place(a) + 1
  <2>1. /\ RowOf(a) \in Nat \ {0} /\ Place(a) \in 0..(columns - 1)
        /\ a = columns * p + Place(a) + 1
        BY RowOfCell
  <2>2. RowOf(b) \in Nat \ {0} /\ columns \in Nat \ {0}
        BY PageAssumption, RowOfCell
  <2>3. QED
        BY <2>1, <2>2
<1>2. d \in Nat /\ q = p + 1 + d
      BY <1>1
<1> HIDE DEF p, q, d
<1>3. columns * q = columns * p + columns + columns * d
      BY <1>1, <1>2
<1>4. columns * p \in Nat /\ columns * d \in Nat
      BY <1>1, <1>2
<1>5. QED
      BY <1>1, <1>3, <1>4 DEF q

\* How many cells of the tab come before one of them: all of the rows of the
\* tab above it, and those before it in its row.
LEMMA CellsBefore ==
  ASSUME NEW cell \in Nat \ {0}, NEW tab, InTab(cell, tab)
  PROVE  /\ IsFiniteSet(RowsBefore(RowOf(cell), tab))
         /\ Cardinality(RowsBefore(RowOf(cell), tab)) \in Nat
         /\ Before(cell, tab)
              = columns * Cardinality(RowsBefore(RowOf(cell), tab)) + Place(cell)
<1> DEFINE row == RowOf(cell)
           R == RowsBefore(row, tab)
           X == {other \in 1..(cell - 1) : InTab(other, tab) /\ RowOf(other) < row}
           first == columns * (row - 1) + 1
           Y == first..(cell - 1)
           P == R \X (0..(columns - 1))
<1>1. /\ row \in Nat \ {0} /\ Place(cell) \in 0..(columns - 1)
      /\ cell = first + Place(cell) /\ columns \in Nat \ {0}
      /\ first \in Nat \ {0}
  <2>1. columns \in Nat \ {0}
        BY PageAssumption
  <2>2. row \in Nat \ {0} /\ Place(cell) \in 0..(columns - 1)
        /\ cell = columns * (row - 1) + Place(cell) + 1
        BY RowOfCell
  <2>3. columns * (row - 1) \in Nat
        BY <2>1, <2>2
  <2> HIDE DEF row
  <2>4. QED
        BY <2>1, <2>2, <2>3
<1>2. IsFiniteSet(R) /\ Cardinality(R) \in Nat
  <2>1. IsFiniteSet(1..(row - 1)) /\ R \subseteq 1..(row - 1)
        BY <1>1, FS_Interval DEF RowsBefore
  <2>2. IsFiniteSet(R)
        BY <2>1, FS_Subset
  <2>3. QED
        BY <2>2, FS_CardinalityType
<1>3. IsFiniteSet(Y) /\ Cardinality(Y) = Place(cell)
  <2> HIDE DEF first
  <2> DEFINE last == cell - 1
  <2>1. first \in Int /\ last \in Int
        BY <1>1
  <2> HIDE DEF last
  <2>2. IsFiniteSet(first..last)
        BY <2>1, FS_Interval
  <2>3. Cardinality(first..last) = IF first > last THEN 0 ELSE last - first + 1
        BY <2>1, FS_Interval
  <2>4. QED
        BY <1>1, <2>2, <2>3 DEF last
<1>4. IsFiniteSet(P) /\ Cardinality(P) = Cardinality(R) * columns
  <2>1. IsFiniteSet(0..(columns - 1)) /\ Cardinality(0..(columns - 1)) = columns
        BY <1>1, FS_Interval
  <2> HIDE DEF R
  <2>2. QED
        BY <1>2, <2>1, FS_Product
<1>5. ExistsBijection(P, X)
  <2> DEFINE f == [p \in P |-> columns * (p[1] - 1) + p[2] + 1]
  <2>1. \A p \in P : /\ p[1] \in 1..(row - 1) /\ ForTab(p[1], tab)
                     /\ p[2] \in 0..(columns - 1) /\ p = <<p[1], p[2]>>
        BY DEF RowsBefore
  <2>2. \A p \in P : f[p] \in Nat \ {0} /\ RowOf(f[p]) = p[1] /\ Place(f[p]) = p[2]
    <3> SUFFICES ASSUME NEW p \in P
                 PROVE  f[p] \in Nat \ {0} /\ RowOf(f[p]) = p[1] /\ Place(f[p]) = p[2]
        OBVIOUS
    <3>1. p[1] \in Nat \ {0} /\ p[2] \in 0..(columns - 1)
          BY <1>1, <2>1
    <3>2. f[p] = columns * (p[1] - 1) + p[2] + 1
          OBVIOUS
    <3> HIDE DEF f, P
    <3>3. QED
          BY <3>1, <3>2, CellOfRow
  <2> HIDE DEF f
  <2>3. \A p \in P : f[p] \in X
    <3> SUFFICES ASSUME NEW p \in P PROVE f[p] \in X
        OBVIOUS
    <3>1. f[p] \in Nat \ {0} /\ RowOf(f[p]) = p[1] /\ p[1] < row
          BY <1>1, <2>1, <2>2
    <3>2. f[p] < first
          BY <3>1, RowsInOrder
    <3>3. f[p] \in 1..(cell - 1)
          BY <1>1, <3>1, <3>2
    <3>4. InTab(f[p], tab)
          BY <2>1, <3>1 DEF InTab, ForTab
    <3>5. QED
          BY <3>1, <3>3, <3>4
  <2>4. f \in [P -> X]
        BY <2>3 DEF f
  <2>5. \A p, o \in P : f[p] = f[o] => p = o
        BY <2>1, <2>2
  <2>6. \A x \in X : \E p \in P : f[p] = x
    <3> SUFFICES ASSUME NEW x \in X PROVE \E p \in P : f[p] = x
        OBVIOUS
    <3>1. /\ x \in Nat \ {0} /\ RowOf(x) < row /\ InTab(x, tab)
          BY <1>1
    <3>2. /\ RowOf(x) \in Nat \ {0} /\ Place(x) \in 0..(columns - 1)
          /\ x = columns * (RowOf(x) - 1) + Place(x) + 1
          BY <3>1, RowOfCell
    <3>3. RowOf(x) \in R
          BY <1>1, <3>1, <3>2 DEF RowsBefore, ForTab, InTab
    <3>4. <<RowOf(x), Place(x)>> \in P
          BY <3>2, <3>3
    <3>5. f[<<RowOf(x), Place(x)>>] = x
          BY <3>2, <3>4 DEF f
    <3>6. QED
          BY <3>4, <3>5
  <2>7. f \in Bijection(P, X)
    <3> HIDE DEF P, X
    <3>1. QED
          BY <2>4, <2>5, <2>6 DEF Bijection, Injection, Surjection, IsInjective
  <2>8. QED
        BY <2>7 DEF ExistsBijection
<1>6. IsFiniteSet(X) /\ Cardinality(X) = Cardinality(R) * columns
  <2> HIDE DEF P, X, R
  <2>1. QED
        BY <1>4, <1>5, FS_Bijection
<1>7. {other \in 1..(cell - 1) : InTab(other, tab)} = X \cup Y
  <2>1. ASSUME NEW other \in 1..(cell - 1), InTab(other, tab) PROVE other \in X \cup Y
    <3>1. CASE RowOf(other) < row
          BY <2>1, <3>1
    <3>2. CASE ~(RowOf(other) < row)
      <4>1. other \in Nat \ {0}
            BY <1>1
      <4>2. RowOf(other) \in Nat \ {0} /\ Place(other) \in 0..(columns - 1)
            /\ other = columns * (RowOf(other) - 1) + Place(other) + 1
            BY <4>1, RowOfCell
      <4>3. RowOf(other) = row
        <5> SUFFICES ASSUME row < RowOf(other) PROVE FALSE
            BY <1>1, <3>2, <4>2
        <5>1. cell < columns * (RowOf(other) - 1) + 1
              BY <4>1, RowsInOrder
        <5>2. columns * (RowOf(other) - 1) \in Nat
              BY <1>1, <4>2
        <5>3. QED
              BY <1>1, <4>2, <5>1, <5>2
      <4>4. other >= first
        <5>1. other = first + Place(other)
          <6>1. columns * (row - 1) \in Nat
                BY <1>1
          <6>2. QED
                BY <4>2, <4>3, <6>1
        <5> HIDE DEF first
        <5>2. QED
              BY <1>1, <4>2, <5>1
      <4> HIDE DEF first
      <4>5. QED
            BY <1>1, <4>4
    <3>3. QED
          BY <3>1, <3>2
  <2>2. ASSUME NEW other \in Y PROVE other \in 1..(cell - 1) /\ InTab(other, tab)
    <3> DEFINE i == other - first
    <3>1. i \in 0..(columns - 1) /\ other = first + i /\ other \in 1..(cell - 1)
      <4> HIDE DEF first
      <4>1. QED
            BY <1>1
    <3> HIDE DEF i
    <3>2. RowOf(other) = row
      <4>1. columns * (row - 1) \in Nat
            BY <1>1
      <4>2. other = columns * (row - 1) + i + 1
            BY <3>1, <4>1
      <4>3. QED
            BY <1>1, <3>1, <4>2, CellOfRow
    <3>3. QED
          BY <3>1, <3>2 DEF InTab
  <2>3. QED
        BY <2>1, <2>2
<1>8. X \cap Y = {}
  <2> SUFFICES ASSUME NEW x \in X PROVE x \notin Y
      OBVIOUS
  <2>1. x \in Nat \ {0} /\ RowOf(x) < row
        BY <1>1
  <2>2. x < first
        BY <2>1, RowsInOrder
  <2> HIDE DEF first
  <2>3. QED
        BY <1>1, <2>1, <2>2
<1> HIDE DEF X, Y, R, first, row
<1>9. Cardinality(X \cup Y) = Cardinality(R) * columns + Place(cell)
  <2>1. Cardinality({}) = 0
        BY FS_EmptySet
  <2>2. Cardinality(X \cup Y) = Cardinality(X) + Cardinality(Y) - 0
        BY <1>3, <1>6, <1>8, <2>1, FS_Union
  <2>3. Cardinality(R) * columns \in Nat
        BY <1>1, <1>2
  <2>4. QED
        BY <1>1, <1>3, <1>6, <2>2, <2>3
<1>10. QED
  <2>1. Before(cell, tab) = Cardinality(R) * columns + Place(cell)
        BY <1>7, <1>9 DEF Before
  <2>2. Cardinality(R) * columns = columns * Cardinality(R)
        BY <1>1, <1>2
  <2>3. QED
        BY <1>2, <2>1, <2>2 DEF R, row

\* The color of a row of the tab goes with the number of its rows above it.
LEMMA EvenRow ==
  ASSUME NEW cell \in Nat \ {0}, NEW tab, InTab(cell, tab)
  PROVE  isEvenRow(cell, tab) <=> Cardinality(RowsBefore(RowOf(cell), tab)) % 2 = 0
<1> DEFINE k == Cardinality(RowsBefore(RowOf(cell), tab))
<1>1. k \in Nat /\ Before(cell, tab) = columns * k + Place(cell)
      BY CellsBefore
<1>2. Place(cell) \in 0..(columns - 1) /\ columns \in Nat \ {0}
      BY RowOfCell, PageAssumption
<1> HIDE DEF k
<1>3. (columns * k + Place(cell)) % (columns * 2) < columns <=> k % 2 = 0
      BY <1>1, <1>2, Halves
<1>4. QED
      BY <1>1, <1>3 DEF isEvenRow, k

\* The cells of the tab have the color that setting them from scratch gives.
Color(cell, tab) == IF isEvenRow(cell, tab) THEN evenRowColor ELSE oddRowColor
Colored(tab) == \A cell \in Cells : InTab(cell, tab) => colors[cell] = {Color(cell, tab)}

\* The rows a page has.
LEMMA CellsOfRows ==
  ASSUME table \in Tables, NEW cell
  PROVE  cell \in Cells <=> cell \in Nat \ {0} /\ RowOf(cell) \in 1..Len(table.rows)
<1> DEFINE n == Len(table.rows)
<1>1. columns \in Nat \ {0} /\ n \in Nat /\ n * columns \in Nat /\ n * columns = columns * n
  <2>1. columns \in Nat \ {0} /\ n \in Nat
        BY PageAssumption
  <2> HIDE DEF n
  <2>2. QED
        BY <2>1
<1>2. Cells = 1..(n * columns)
      BY DEF Cells
<1> HIDE DEF n
<1>3. ASSUME NEW x \in Nat \ {0}
      PROVE  x \in 1..(n * columns) <=> RowOf(x) \in 1..n
  <2> DEFINE p == RowOf(x) - 1
  <2>1. p \in Nat /\ Place(x) \in 0..(columns - 1) /\ x = columns * p + Place(x) + 1
        BY RowOfCell
  <2>2. RowOf(x) = p + 1 /\ columns * p \in Nat
    <3>1. RowOf(x) \in Nat
          BY RowOfCell
    <3>2. QED
          BY <1>1, <2>1, <3>1
  <2> HIDE DEF p
  <2>3. CASE p + 1 <= n
    <3>1. PICK d \in Nat : n = p + 1 + d
      <4>1. n - p - 1 \in Nat
            BY <1>1, <2>1, <2>3
      <4>2. QED
            BY <1>1, <2>1, <4>1
    <3>2. columns * n = columns * p + columns + columns * d /\ columns * d \in Nat
          BY <1>1, <2>1, <3>1
    <3>3. QED
          BY <1>1, <2>1, <2>2, <2>3, <3>2
  <2>4. CASE n <= p
    <3>1. PICK d \in Nat : p = n + d
      <4>1. p - n \in Nat
            BY <1>1, <2>1, <2>4
      <4>2. QED
            BY <1>1, <2>1, <4>1
    <3>2. columns * p = columns * n + columns * d /\ columns * d \in Nat
          BY <1>1, <3>1
    <3>3. QED
          BY <1>1, <2>1, <2>2, <2>4, <3>2
  <2>5. QED
        BY <1>1, <2>1, <2>3, <2>4
<1>4. QED
      BY <1>1, <1>2, <1>3 DEF n

\* Cells of one row are alike, and those of the next row on display differ.
LEMMA ColoredIsStriped ==
  ASSUME TabsTypeOK, NEW tab, Visible = {cell \in Cells : InTab(cell, tab)}, Colored(tab)
  PROVE  Striped
<1> DEFINE K(cell) == Cardinality(RowsBefore(RowOf(cell), tab))
<1>1. ASSUME NEW a \in Visible
      PROVE  /\ a \in Nat \ {0} /\ a \in Cells /\ InTab(a, tab)
             /\ RowOf(a) \in 1..Len(table.rows) /\ Len(table.rows) \in Nat
             /\ colors[a] = {IF K(a) % 2 = 0 THEN evenRowColor ELSE oddRowColor}
             /\ K(a) \in Nat /\ IsFiniteSet(RowsBefore(RowOf(a), tab))
  <2>1. a \in Cells /\ InTab(a, tab)
        BY <1>1
  <2>2. a \in Nat \ {0} /\ RowOf(a) \in 1..Len(table.rows)
        BY <2>1, CellsOfRows DEF TabsTypeOK
  <2>3. Len(table.rows) \in Nat
        BY PageAssumption DEF TabsTypeOK
  <2>4. colors[a] = {Color(a, tab)}
        BY <2>1 DEF Colored
  <2>5. isEvenRow(a, tab) <=> K(a) % 2 = 0
        BY <2>1, <2>2, EvenRow
  <2>6. K(a) \in Nat /\ IsFiniteSet(RowsBefore(RowOf(a), tab))
        BY <2>1, <2>2, CellsBefore
  <2>7. QED
        BY <2>1, <2>2, <2>3, <2>4, <2>5, <2>6 DEF Color
<1>2. evenRowColor # oddRowColor
      BY DEF evenRowColor, oddRowColor
<1>3. ASSUME NEW a \in Visible, NEW b \in Visible, RowOf(a) < RowOf(b),
             \A m \in Visible : ~(RowOf(a) < RowOf(m) /\ RowOf(m) < RowOf(b))
      PROVE  colors[a] # colors[b]
  <2> DEFINE A == RowsBefore(RowOf(a), tab)
             B == RowsBefore(RowOf(b), tab)
  <2>1. RowOf(a) \in Nat \ {0} /\ RowOf(b) \in 1..Len(table.rows) /\ InTab(a, tab)
        BY <1>1
  <2>2. RowOf(a) \in B
        BY <1>3, <2>1 DEF RowsBefore, ForTab, InTab
  <2>3. ASSUME NEW r \in B PROVE r \in A \cup {RowOf(a)}
    <3>1. r \in Nat \ {0} /\ r < RowOf(b) /\ ForTab(r, tab)
          BY <2>1 DEF RowsBefore
    <3>2. CASE RowOf(a) < r
      <4> DEFINE m == columns * (r - 1) + 0 + 1
      <4>1. 0 \in 0..(columns - 1) /\ r \in Nat \ {0}
            BY <3>1, PageAssumption
      <4>2. m \in Nat \ {0} /\ RowOf(m) = r
        <5> DEFINE i == 0
        <5>1. i \in 0..(columns - 1)
              BY <4>1
        <5> HIDE DEF i
        <5>2. /\ columns * (r - 1) + i + 1 \in Nat \ {0}
              /\ RowOf(columns * (r - 1) + i + 1) = r
              BY <4>1, <5>1, CellOfRow
        <5>3. QED
              BY <5>2 DEF i
      <4> HIDE DEF m
      <4>3. m \in Cells
        <5>1. r \in 1..Len(table.rows)
              BY <1>1, <2>1, <3>1
        <5>2. QED
              BY <4>2, <5>1, CellsOfRows DEF TabsTypeOK
      <4>4. m \in Visible
            BY <3>1, <4>2, <4>3 DEF InTab, ForTab
      <4>5. QED
            BY <1>3, <3>1, <3>2, <4>2, <4>4
    <3>3. CASE r < RowOf(a)
          BY <2>1, <3>1, <3>3 DEF RowsBefore
    <3>4. QED
          BY <2>1, <3>1, <3>2, <3>3
  <2>4. A \subseteq B /\ RowOf(a) \notin A
        BY <1>3, <2>1 DEF RowsBefore
  <2>5. B = A \cup {RowOf(a)}
        BY <2>2, <2>3, <2>4
  <2>6. IsFiniteSet(A) /\ K(a) \in Nat /\ K(b) \in Nat
        BY <1>1
  <2>7. Cardinality(B) = Cardinality(A) + 1
    <3> HIDE DEF A, B
    <3>1. QED
          BY <2>4, <2>5, <2>6, FS_AddElement
  <2>8. K(a) % 2 = 0 <=> ~(K(b) % 2 = 0)
    <3> DEFINE k == K(a)
    <3>1. K(b) = k + 1 /\ k \in Nat
          BY <2>6, <2>7
    <3> HIDE DEF k
    <3>2. k % 2 = 0 <=> ~((k + 1) % 2 = 0)
          BY <3>1
    <3>3. QED
          BY <3>1, <3>2 DEF k
  <2>9. QED
        BY <1>1, <1>2, <2>8
<1>4. ASSUME NEW a \in Visible PROVE Cardinality(colors[a]) = 1
      BY <1>1, <1>4, FS_Singleton
<1>5. ASSUME NEW a \in Visible, NEW b \in Visible, RowOf(a) = RowOf(b)
      PROVE  colors[a] = colors[b]
      BY <1>1, <1>5
<1>6. QED
      BY <1>3, <1>4, <1>5 DEF Striped

\* What is on display is what a tab shows, in the colors it gives.
Shows(tab) ==
    /\ active = {tab} /\ labelled[table.labels] = tab
    /\ Visible = {cell \in Cells : InTab(cell, tab)}
    /\ Colored(tab)

TabsInv == TabsTypeOK /\ \E tab \in ToSet(Tabs) : Shows(tab)

\* The first tab is one of the tabs.
LEMMA FirstTab == ASSUME table \in Tables PROVE tableId \in ToSet(Tabs)
<1>1. table.tabs \in Seq(STRING)
      BY PageAssumption
<1>2. table.tabs \in Seq(STRING \cup {tableId})
      BY <1>1
<1>3. 1 \in DOMAIN Tabs /\ Tabs[1] = tableId
      BY <1>2 DEF Tabs
<1>4. QED
      BY <1>3 DEF ToSet

LEMMA TabsInitially == TabsInit => TabsInv
<1> SUFFICES ASSUME TabsInit PROVE TabsInv
    OBVIOUS
<1>1. tableId \in ToSet(Tabs)
      BY FirstTab DEF TabsInit
<1>2. TabsTypeOK
      BY <1>1 DEF TabsInit, TabsTypeOK
<1>3. labelled[table.labels] = tableId
      BY PageAssumption DEF TabsInit
<1>4. Visible = {cell \in Cells : InTab(cell, tableId)}
      BY DEF TabsInit, Visible, InTab
<1>5. Colored(tableId)
  <2> SUFFICES ASSUME NEW cell \in Cells PROVE colors[cell] = {Color(cell, tableId)}
      BY DEF Colored
  <2> DEFINE row == RowOf(cell)
  <2>1. cell \in Nat \ {0} /\ row \in Nat \ {0}
        BY <1>2, CellsOfRows DEF TabsTypeOK
  <2>2. RowsBefore(row, tableId) = 1..(row - 1)
        BY DEF RowsBefore, ForTab
  <2>3. Cardinality(1..(row - 1)) = row - 1
    <3> HIDE DEF row
    <3>1. QED
          BY <2>1, FS_Interval
  <2>4. isEvenRow(cell, tableId) <=> (row - 1) % 2 = 0
        BY <2>1, <2>2, <2>3, EvenRow DEF InTab
  <2>5. (row - 1) % 2 = 0 <=> row % 2 = 1
    <3> HIDE DEF row
    <3>1. QED
          BY <2>1
  <2>6. colors[cell] = {IF row % 2 = 1 THEN evenRowColor ELSE oddRowColor}
        BY DEF TabsInit
  <2>7. QED
        BY <2>4, <2>5, <2>6 DEF Color
<1>6. Shows(tableId)
      BY <1>3, <1>4, <1>5 DEF Shows, TabsInit
<1>7. QED
      BY <1>1, <1>2, <1>6 DEF TabsInv

\* A table that stays is colored and shown alike.
LEMMA ShownStays ==
  ASSUME UNCHANGED tabVars, NEW tab
  PROVE  Shows(tab)' <=> Shows(tab)
<1>1. /\ table' = table /\ hidden' = hidden /\ colors' = colors
      /\ active' = active /\ labelled' = labelled
      BY DEF tabVars
<1>2. Cells' = Cells /\ \A cell : InTab(cell, tab)' <=> InTab(cell, tab)
      BY <1>1 DEF Cells, InTab, RowOf
<1>3. \A cell : Color(cell, tab)' = Color(cell, tab)
      BY <1>2 DEF Color, isEvenRow, Before
<1>4. QED
      BY <1>1, <1>2, <1>3 DEF Shows, Colored, Visible

LEMMA TabsStay == TabsInv /\ UNCHANGED tabVars => TabsInv'
<1> SUFFICES ASSUME TabsInv, UNCHANGED tabVars PROVE TabsInv'
    OBVIOUS
<1>1. TabsTypeOK'
      BY DEF TabsInv, TabsTypeOK, tabVars, Cells, Tabs
<1>2. ToSet(Tabs)' = ToSet(Tabs)
      BY DEF tabVars, Tabs
<1>3. PICK tab \in ToSet(Tabs) : Shows(tab)
      BY DEF TabsInv
<1>4. Shows(tab)'
      BY <1>3, ShownStays
<1>5. QED
      BY <1>1, <1>2, <1>4 DEF TabsInv

\* Whatever was on display, what is then is what the selected tab shows.
LEMMA HiddenByATab ==
  ASSUME TabsTypeOK, NEW tab \in ToSet(Tabs)
  PROVE  Cells \ HiddenBy(tab) = {cell \in Cells : InTab(cell, tab)}
<1>1. CASE tab = tableId
  <2>1. \A cell \in Cells : InTab(cell, tab)
        BY <1>1 DEF InTab
  <2>2. QED
        BY <1>1, <2>1 DEF HiddenBy, TabsTypeOK
<1>2. CASE tab # tableId
      BY <1>2 DEF HiddenBy, TabsTypeOK
<1>3. QED
      BY <1>1, <1>2

LEMMA ShowStep ==
  ASSUME TabsInv, NEW tab \in ToSet(Tabs), show(tab)
  PROVE  TabsInv'
<1>1. table' = table /\ Tabs' = Tabs /\ Cells' = Cells
      BY DEF show, Tabs, Cells
<1>2. /\ active' = {tab}
      /\ labelled' = [labelled EXCEPT ![table.labels] = tab]
  <2>1. table.labels \in Elements
        BY PageAssumption DEF TabsInv, TabsTypeOK
  <2>2. {other \in ToSet(Tabs) : IsSelected(other, tab)} = {tab}
        BY DEF IsSelected
  <2>3. QED
        BY <2>1, <2>2 DEF show, updateTabs, updateTabsOfPanel, Elements
<1>3. labelled' \in [Elements -> ToSet(Tabs) \cup {"none"}]
      BY <1>2 DEF TabsInv, TabsTypeOK
<1>4. labelled'[table.labels] = tab
      BY <1>2, PageAssumption DEF TabsInv, TabsTypeOK
<1>5. colors' \in [Cells -> SUBSET {evenRowColor, oddRowColor}]
      BY DEF show, Recolored, TabsInv, TabsTypeOK
<1>6. hidden' = HiddenBy(tab) /\ hidden' \subseteq Cells
      BY DEF show, HiddenBy, TabsInv, TabsTypeOK
<1>7. Visible' = {cell \in Cells : InTab(cell, tab)}
      BY <1>1, <1>6, HiddenByATab DEF Visible, TabsInv
<1>8. TabsTypeOK'
      BY <1>1, <1>2, <1>3, <1>5, <1>6 DEF TabsInv, TabsTypeOK
<1>9. \A cell : InTab(cell, tab)' <=> InTab(cell, tab)
      BY <1>1 DEF InTab, RowOf
<1>10. Colored(tab)'
  <2>1. \A cell : Color(cell, tab)' = Color(cell, tab)
        BY <1>1, <1>9 DEF Color, isEvenRow, Before
  <2>2. ASSUME NEW cell \in Cells, InTab(cell, tab)
        PROVE  colors'[cell] = {Color(cell, tab)}
    <3>1. colors'[cell] = Recolored(cell, tab)
          BY <2>2 DEF show
    <3>2. colors[cell] \subseteq {evenRowColor, oddRowColor}
          BY DEF TabsInv, TabsTypeOK
    <3>3. QED
          BY <3>1, <3>2 DEF Recolored, Color, evenRowColor, oddRowColor
  <2>3. QED
        BY <1>1, <1>9, <2>1, <2>2 DEF Colored
<1>11. Shows(tab)'
      BY <1>1, <1>2, <1>4, <1>7, <1>9, <1>10 DEF Shows
<1>12. QED
       BY <1>1, <1>8, <1>11 DEF TabsInv

LEMMA TabsStep == TabsInv /\ TabsNext => TabsInv'
<1> SUFFICES ASSUME TabsInv, TabsNext PROVE TabsInv'
    OBVIOUS
<1>1. ASSUME NEW tab \in ToSet(Tabs), show(tab) PROVE TabsInv'
      BY <1>1, ShowStep
<1>2. ASSUME NEW step \in {-1, 1}, switchTab(step) PROVE TabsInv'
  <2>1. PICK place \in DOMAIN Tabs : show(Tabs[place])
        BY <1>2 DEF switchTab
  <2>2. Tabs[place] \in ToSet(Tabs)
        BY DEF ToSet
  <2>3. QED
        BY <2>1, <2>2, ShowStep
<1>3. QED
      BY <1>1, <1>2 DEF TabsNext

-----------------------------------------------------------------------------
(* The position in the history                                             *)

States == Positions \cup {NoState}      \* also what left holds: Unknown is -1

HistoryTypeOK ==
    /\ entries \in Seq(States) /\ left \in Seq(States)
    /\ Len(left) = Len(entries) /\ cur \in 1..Len(entries)
    /\ scrollTop \in Positions /\ scrolled \in BOOLEAN
    /\ timers \in Nat /\ hashchanges \in Nat

\* What BackRestores needs of the entries the page is not at: the state of one
\* that was left at rest is the position it was left at.
Remembered ==
    \A e \in 1..Len(entries) :
      e # cur /\ left[e] # Unknown => entries[e] = left[e]

HistoryInv == HistoryTypeOK /\ SettledIsSaved /\ Remembered

\* No position is taken for a missing state.
LEMMA NoStateIsNoPosition == NoState = -1 /\ Unknown = -1 /\ -1 \notin Positions
BY PageAssumption DEF NoState, Unknown

LEMMA HistoryInitially == HistoryInit => HistoryInv
<1> SUFFICES ASSUME HistoryInit PROVE HistoryInv
    OBVIOUS
<1> USE NoStateIsNoPosition
<1>1. PICK first \in States : entries = <<first>>
      BY PageAssumption DEF HistoryInit, States
<1>2. left = <<-1>> /\ -1 \in States /\ cur = 1
      BY DEF HistoryInit, States
<1>3. HistoryTypeOK
  <2>1. scrollTop \in Positions
        BY PageAssumption DEF HistoryInit
  <2>2. scrolled \in BOOLEAN
    <3>1. (scrollTop # 0) \in BOOLEAN
          OBVIOUS
    <3>2. QED
          BY <3>1 DEF HistoryInit
  <2>3. timers = 0 /\ hashchanges = 0
        BY DEF HistoryInit
  <2>4. QED
        BY <1>1, <1>2, <2>1, <2>2, <2>3 DEF HistoryTypeOK
<1>4. SettledIsSaved
      BY <1>1, <1>2 DEF HistoryInit, SettledIsSaved, Settled
<1>5. Remembered
      BY <1>1, <1>2 DEF Remembered
<1>6. QED
      BY <1>3, <1>4, <1>5 DEF HistoryInv

LEMMA HistoryStays == HistoryInv /\ UNCHANGED historyVars => HistoryInv'
BY DEF HistoryInv, HistoryTypeOK, SettledIsSaved, Settled, Remembered, historyVars

\* Leaving writes down the position of a page at rest, which is its state.
LEMMA LeavingIsRemembered ==
  ASSUME HistoryInv
  PROVE  /\ Leaving \in Seq(States) /\ Len(Leaving) = Len(entries)
         /\ \A e \in 1..Len(entries) : Leaving[e] # Unknown => entries[e] = Leaving[e]
<1>1. Leaving \in Seq(States) /\ Len(Leaving) = Len(entries)
      BY NoStateIsNoPosition DEF Leaving, HistoryInv, HistoryTypeOK, States
<1>2. ASSUME NEW e \in 1..Len(entries), Leaving[e] # Unknown
      PROVE  entries[e] = Leaving[e]
  <2>1. CASE e = cur
        BY <1>2, <2>1 DEF Leaving, HistoryInv, HistoryTypeOK, SettledIsSaved
  <2>2. CASE e # cur
        BY <1>2, <2>2 DEF Leaving, HistoryInv, HistoryTypeOK, Remembered
  <2>3. QED
        BY <2>1, <2>2
<1>3. QED
      BY <1>1, <1>2

\* replaceState gives the entry of the page its position, whatever handler
\* calls it.
LEMMA ReplaceStep ==
  ASSUME HistoryInv, replaceState, UNCHANGED <<cur, scrollTop, scrolled, left>>,
         timers' \in Nat, hashchanges' \in Nat
  PROVE  HistoryInv'
<1>1. /\ entries' \in Seq(States) /\ Len(entries') = Len(entries)
      /\ entries'[cur] = scrollTop
      /\ \A e \in 1..Len(entries) : e # cur => entries'[e] = entries[e]
      BY DEF replaceState, HistoryInv, HistoryTypeOK, States
<1>2. HistoryTypeOK'
      BY <1>1 DEF HistoryInv, HistoryTypeOK
<1>3. SettledIsSaved'
      BY <1>1 DEF SettledIsSaved
<1>4. Remembered'
      BY <1>1 DEF Remembered, HistoryInv
<1>5. QED
      BY <1>2, <1>3, <1>4 DEF HistoryInv

LEMMA MovesTypes ==
  ASSUME HistoryInv, NEW position \in Positions, Moves(position)
  PROVE  scrollTop' \in Positions /\ scrolled' \in BOOLEAN
BY DEF Moves, HistoryInv, HistoryTypeOK

LEMMA FollowLinkStep ==
  ASSUME HistoryInv, NEW position \in Positions, FollowLink(position)
  PROVE  HistoryInv' /\ left'[cur'] = Unknown
<1> USE DEF HistoryInv, HistoryTypeOK
<1>1. /\ Leaving \in Seq(States) /\ Len(Leaving) = Len(entries)
      /\ \A e \in 1..Len(entries) : Leaving[e] # Unknown => entries[e] = Leaving[e]
      BY LeavingIsRemembered
<1>2. /\ SubSeq(entries, 1, cur) \in Seq(States) /\ Len(SubSeq(entries, 1, cur)) = cur
      /\ \A e \in 1..cur : SubSeq(entries, 1, cur)[e] = entries[e]
      OBVIOUS
<1>3. /\ SubSeq(Leaving, 1, cur) \in Seq(States) /\ Len(SubSeq(Leaving, 1, cur)) = cur
      /\ \A e \in 1..cur : SubSeq(Leaving, 1, cur)[e] = Leaving[e]
      BY <1>1
<1>4. NoState \in States /\ Unknown \in States
      BY NoStateIsNoPosition DEF States
<1>5. /\ entries' \in Seq(States) /\ Len(entries') = cur + 1
      /\ \A e \in 1..cur : entries'[e] = entries[e]
      BY <1>2, <1>4 DEF FollowLink
<1>6. /\ left' \in Seq(States) /\ Len(left') = cur + 1
      /\ \A e \in 1..cur : left'[e] = Leaving[e]
      /\ left'[cur + 1] = Unknown
      BY <1>3, <1>4 DEF FollowLink
<1>7. cur' = cur + 1 /\ hashchanges' = hashchanges + 1 /\ timers' = timers
      BY DEF FollowLink
<1>8. HistoryTypeOK'
  <2>1. scrollTop' \in Positions /\ scrolled' \in BOOLEAN
        BY MovesTypes DEF FollowLink
  <2>2. QED
        BY <1>5, <1>6, <1>7, <2>1
<1>9. SettledIsSaved'
      BY <1>7 DEF SettledIsSaved, Settled
<1>10. Remembered'
       BY <1>1, <1>5, <1>6, <1>7 DEF Remembered
<1>11. QED
       BY <1>6, <1>7, <1>8, <1>9, <1>10

\* Going back or forward to an entry that was left at rest restores it.
LEMMA TraverseStep ==
  ASSUME HistoryInv, NEW entry \in 1..MaxEntries, Traverse(entry)
  PROVE  HistoryInv' /\ (left'[cur'] # Unknown => scrollTop' = left'[cur'])
<1> USE DEF HistoryInv, HistoryTypeOK
<1>1. /\ Leaving \in Seq(States) /\ Len(Leaving) = Len(entries)
      /\ \A e \in 1..Len(entries) : Leaving[e] # Unknown => entries[e] = Leaving[e]
      BY LeavingIsRemembered
<1>2. /\ cur' = entry /\ entry \in 1..Len(entries)
      /\ left' = Leaving /\ entries' = entries
      /\ hashchanges' = hashchanges + 1 /\ timers' = timers
      BY DEF Traverse
<1>3. entries[entry] # NoState => entries[entry] \in Positions
      BY <1>2 DEF States
<1>4. scrollTop' \in Positions /\ scrolled' \in BOOLEAN
  <2>1. PICK position \in Positions : Moves(position)
        BY <1>3 DEF Traverse, HasState, Restored
  <2>2. QED
        BY <2>1, MovesTypes
<1>5. HistoryTypeOK'
      BY <1>1, <1>2, <1>4
<1>6. SettledIsSaved'
      BY <1>2 DEF SettledIsSaved, Settled
<1>7. Remembered'
      BY <1>1, <1>2 DEF Remembered
<1>8. ASSUME left'[cur'] # Unknown PROVE scrollTop' = left'[cur']
  <2>1. entries[entry] = left'[cur'] /\ entries[entry] # NoState
        BY <1>1, <1>2, <1>8, NoStateIsNoPosition
  <2>2. QED
        BY <2>1 DEF Traverse, HasState, Restored, Moves
<1>9. QED
      BY <1>5, <1>6, <1>7, <1>8

LEMMA HistoryStep ==
  ASSUME HistoryInv, HistoryNext
  PROVE  /\ HistoryInv'
         /\ cur' # cur /\ left'[cur'] # Unknown => scrollTop' = left'[cur']
<1>1. ASSUME NEW position \in Positions, Scroll(position)
      PROVE  HistoryInv' /\ cur' = cur
  <2>1. scrolled' = TRUE /\ scrollTop' \in Positions
        BY <1>1 DEF Scroll, Moves
  <2>2. UNCHANGED <<entries, cur, hashchanges, timers, left>>
        BY <1>1 DEF Scroll
  <2>3. QED
        BY <2>1, <2>2
        DEF HistoryInv, HistoryTypeOK, SettledIsSaved, Settled, Remembered
<1>2. ASSUME NEW position \in Positions, FollowLink(position)
      PROVE  HistoryInv' /\ left'[cur'] = Unknown
      BY <1>2, FollowLinkStep
<1>3. CASE OnScroll
  <2>1. HistoryInv'
    <3>1. /\ UNCHANGED <<entries, cur, scrollTop, hashchanges, left>>
          /\ scrolled' = FALSE /\ timers' = timers + 1
          BY <1>3 DEF OnScroll
    <3>2. HistoryTypeOK'
      <4>1. timers' \in Nat
            BY <3>1 DEF HistoryInv, HistoryTypeOK
      <4>2. scrolled' \in BOOLEAN
            BY <3>1, Zenon
      <4>3. QED
            BY <3>1, <4>1, <4>2 DEF HistoryInv, HistoryTypeOK
    <3>3. SettledIsSaved'
          BY <3>1 DEF HistoryInv, HistoryTypeOK, SettledIsSaved, Settled
    <3>4. Remembered'
          BY <3>1 DEF HistoryInv, Remembered
    <3>5. QED
          BY <3>2, <3>3, <3>4 DEF HistoryInv
  <2>2. QED
        BY <1>3, <2>1 DEF OnScroll
<1>4. CASE OnTimer
  <2>1. timers' \in Nat /\ hashchanges' \in Nat
        BY <1>4 DEF OnTimer, HistoryInv, HistoryTypeOK
  <2>2. QED
        BY <1>4, <2>1, ReplaceStep DEF OnTimer
<1>5. CASE OnHashchange
  <2>1. timers' \in Nat /\ hashchanges' \in Nat
        BY <1>5 DEF OnHashchange, HistoryInv, HistoryTypeOK
  <2>2. QED
        BY <1>5, <2>1, ReplaceStep DEF OnHashchange
<1>6. ASSUME NEW entry \in 1..MaxEntries, Traverse(entry)
      PROVE  HistoryInv' /\ (left'[cur'] # Unknown => scrollTop' = left'[cur'])
      BY <1>6, TraverseStep
<1>7. QED
      BY <1>1, <1>2, <1>3, <1>4, <1>5, <1>6 DEF HistoryNext

-----------------------------------------------------------------------------
(* The pages                                                               *)

Inv == SearchInv /\ MenuInv /\ TabsInv /\ HistoryInv

LEMMA Initially == Init => Inv
BY SearchInitially, MenuInitially, TabsInitially, HistoryInitially DEF Init, Inv

LEMMA Step ==
  ASSUME Inv, [Next]_vars
  PROVE  /\ Inv'
         /\ loaded' # loaded /\ menu = <<>> => menu' = <<>>
         /\ cur' # cur /\ left'[cur'] # Unknown => scrollTop' = left'[cur']
<1>0. ASSUME UNCHANGED searchVars PROVE SearchInv' /\ MenuInv' /\ loaded' = loaded
  <2>1. UNCHANGED <<widget, docs>> /\ loaded' = loaded
        BY <1>0 DEF searchVars
  <2>2. QED
        BY <1>0, <2>1, SearchStays, MenuStays DEF Inv
<1>1. CASE SearchNext /\ UNCHANGED pageVars
  <2>1. UNCHANGED tabVars /\ UNCHANGED historyVars /\ cur' = cur
        BY <1>1 DEF pageVars, historyVars
  <2>2. QED
        BY <1>1, <2>1, SearchStep, MenuStep, TabsStay, HistoryStays DEF Inv
<1>2. CASE TabsNext /\ UNCHANGED searchVars
  <2>1. UNCHANGED historyVars
        BY <1>2 DEF TabsNext, switchTab, show
  <2>2. cur' = cur
        BY <2>1 DEF historyVars
  <2>3. QED
        BY <1>0, <1>2, <2>1, <2>2, TabsStep, HistoryStays DEF Inv
<1>3. CASE HistoryNext /\ UNCHANGED searchVars
  <2>1. UNCHANGED tabVars
        BY <1>3 DEF HistoryNext, Scroll, FollowLink, OnScroll, OnTimer,
                    OnHashchange, Traverse
  <2>2. QED
        BY <1>0, <1>3, <2>1, TabsStay, HistoryStep DEF Inv
<1>4. CASE UNCHANGED vars
  <2>1. /\ UNCHANGED searchVars /\ UNCHANGED tabVars /\ UNCHANGED historyVars
        /\ cur' = cur
        BY <1>4 DEF vars, pageVars, historyVars
  <2>2. QED
        BY <1>0, <2>1, TabsStay, HistoryStays DEF Inv
<1>5. QED
      BY <1>1, <1>2, <1>3, <1>4 DEF Next

LEMMA Invariance == Spec => []Inv
<1>1. Init => Inv
      BY Initially
<1>2. Inv /\ [Next]_vars => Inv'
      BY Step
<1>3. QED
      BY <1>1, <1>2, PTL DEF Spec

\* The variables of the pages have their types.
THEOREM TypesHold == Spec => []TypeOK
<1>1. Inv => TypeOK
  <2>1. HistoryTypeOK => /\ cur \in DOMAIN entries /\ DOMAIN left = DOMAIN entries
                         /\ \A e \in DOMAIN entries : entries[e] \in States
        BY DEF HistoryTypeOK
  <2>2. QED
        BY <2>1
        DEF Inv, SearchInv, TabsInv, HistoryInv, TabsTypeOK, HistoryTypeOK,
            TypeOK, PageTypeOK, States
<1>2. QED
      BY <1>1, Invariance, PTL

\* search.js 106-116: the prompt in an empty box is never a search, whatever
\* the user types, leaves, resets or selects, and in whatever order.
THEOREM PromptIsNoTerm == Spec => []WatermarkNotSearched
<1>1. Inv => WatermarkNotSearched
      BY DEF Inv, SearchInv
<1>2. QED
      BY <1>1, Invariance, PTL

\* search.js 283-291: for any terms and in whatever order the scripts arrive
\* while the user types, leaves and selects, an open menu is what a search for
\* its term gives now.
THEOREM MenuIsCurrent == Spec => []ResultsAreCurrent
<1>1. Inv => ResultsAreCurrent
      BY DEF Inv, MenuInv, AnswersTheTerm, ResultsAreCurrent
<1>2. QED
      BY <1>1, Invariance, PTL

\* search.js 283-291: an index that arrives opens no menu.
THEOREM ScriptsOpenNoMenu == Spec => ClosedStaysClosed
<1>1. Inv /\ [Next]_vars =>
        [loaded' # loaded /\ menu = <<>> => menu' = <<>>]_searchVars
      BY Step
<1>2. QED
      BY <1>1, Invariance, PTL DEF Spec, ClosedStaysClosed

\* script.js 48-80: whatever the table, after any clicks and keys one tab is
\* selected, labels the table and is what the rows on display are for.
THEOREM OneTabIsShown == Spec => []TabsAgree
<1>1. Inv => TabsAgree
      BY DEF Inv, TabsInv, Shows, TabsAgree
<1>2. QED
      BY <1>1, Invariance, PTL

\* script.js 58-60: for any rows, columns and tabs, and whatever rows had which
\* colors before, each row on display has one color and its neighbours have
\* the other.
THEOREM RowsAreStriped == Spec => []Striped
<1>1. Inv => Striped
      BY ColoredIsStriped DEF Inv, TabsInv, Shows
<1>2. QED
      BY <1>1, Invariance, PTL

\* script.js 117-131: at rest the entry of the history has the position of the
\* page, for any number of entries, events and timers.
THEOREM RestIsSaved == Spec => []SettledIsSaved
<1>1. Inv => SettledIsSaved
      BY DEF Inv, HistoryInv
<1>2. QED
      BY <1>1, Invariance, PTL

\* script.js 109: going back, or forward, to an entry that was left at rest
\* brings the page to where it was left.
THEOREM ReturnsToWhereItWas == Spec => BackRestores
<1>1. Inv /\ [Next]_vars =>
        [cur' # cur /\ left'[cur'] # Unknown => scrollTop' = left'[cur']]_pageVars
      BY Step
<1>2. QED
      BY <1>1, Invariance, PTL DEF Spec, BackRestores
=============================================================================
