---------------------------- MODULE SearchPatterns ----------------------------
(***************************************************************************)
(* The search of the generated API documentation, src/15440-p2/doc/        *)
(* search.js (the copies of the other projects are the same): from a term  *)
(* to a pattern, from a pattern to a match, from a match to its rank, and  *)
(* what is highlighted.                                                    *)
(*                                                                         *)
(* A text is a sequence of characters.  A pattern is a sequence too: a     *)
(* character stands for itself, Gap for "([a-z0-9_$<>\[\]]*?)", Spaces for *)
(* "\s+" and AnySpaces for "\s*".                                          *)
(***************************************************************************)
EXTENDS Integers, FiniteSets, SequencesExt

Uppers == <<"A", "B", "C", "D", "E", "F", "G", "H", "I", "J", "K", "L", "M",
            "N", "O", "P", "Q", "R", "S", "T", "U", "V", "W", "X", "Y", "Z">>
Lowers == <<"a", "b", "c", "d", "e", "f", "g", "h", "i", "j", "k", "l", "m",
            "n", "o", "p", "q", "r", "s", "t", "u", "v", "w", "x", "y", "z">>
Upper == ToSet(Uppers)
Lower == ToSet(Lowers)
Word == Upper \cup Lower \cup {"_"}         \* \w
Splits == Upper \cup {",", ".", "(", ")", "<", ">", "[", "/"}

Gap == "gap"
HtmlGap == "html gap"       \* Gap after escapeHtml: "&", ";" are in the class
Spaces == "spaces"
AnySpaces == "any spaces"

GapChars == Lower \cup {"_", "$", "<", ">", "[", "]"}

LowerCase(ch) ==
    IF ch \in Upper THEN Lowers[CHOOSE i \in DOMAIN Uppers : Uppers[i] = ch] ELSE ch
toLowerCase(text) == [i \in DOMAIN text |-> LowerCase(text[i])]

-----------------------------------------------------------------------------
(* createSearchPattern.  Words are what blanks and the end of a comma      *)
(* separate; a token of a word begins with a capital or a bracket.         *)

Blank(request, i) == request[i] = " "
FirstOfWord(request, i) == i = 1 \/ request[i - 1] \in {" ", ","}
LastOfToken(request, i) == i = Len(request) \/ request[i + 1] \in Splits \cup {" "}

\* The last character of the word before, none for the first word.
WordBefore(request, i) == SelectSeq(SubSeq(request, 1, i - 1), LAMBDA ch : ch # " ")

\* What goes before the i-th character.
Between(request, i) ==
    LET before == WordBefore(request, i)
    IN  IF ~FirstOfWord(request, i) \/ before = <<>> THEN <<>>
        ELSE IF Last(before) \in Word /\ request[i] \in Word THEN <<Spaces>>
        ELSE <<AnySpaces>>

After(request, i) ==
    IF request[i] \in Word /\ LastOfToken(request, i) THEN <<Gap>> ELSE <<>>

createSearchPattern(request) ==
    FlattenSeq([i \in DOMAIN request |->
        IF Blank(request, i) THEN <<>>
        ELSE Between(request, i) \o <<request[i]>> \o After(request, i)])

RegExp(pattern, ignoreCase) == [pattern |-> pattern, ignoreCase |-> ignoreCase]
createMatcher(pattern) == RegExp(pattern, ToSet(pattern) \cap Upper = {})

-----------------------------------------------------------------------------
(* RegExp.exec: the leftmost match, gaps as short and blanks as long as    *)
(* they can be.  A match is the place where it begins and, for each        *)
(* element of the pattern, the place after it.                             *)

NoMatch == <<>>

InClass(re, element, ch) ==
    \/ /\ element \in {Gap, HtmlGap}
       /\ \/ ch \in GapChars
          \/ re.ignoreCase /\ ch \in Upper
          \/ element = HtmlGap /\ ch \in {"&", ";"}
    \/ element \in {Spaces, AnySpaces} /\ ch = " "

\* Where an element may end that begins at i.
Ends(re, element, input, i) ==
    IF element \in {Gap, HtmlGap, Spaces, AnySpaces}
    THEN {j \in i..(Len(input) + 1) :
            /\ element = Spaces => j > i
            /\ \A k \in i..(j - 1) : InClass(re, element, input[k])}
    ELSE {j \in {i + 1} :
            /\ i \in DOMAIN input
            /\ \/ input[i] = element
               \/ re.ignoreCase /\ LowerCase(input[i]) = LowerCase(element)}

\* All the ways to match at a place, an element after the other.
Matches(re, input, at) ==
    LET Of[k \in 0..Len(re.pattern)] ==
            IF k = 0 THEN {<<at>>}
            ELSE UNION {{Append(m, j) :
                           j \in Ends(re, re.pattern[k], input, Last(m))} :
                        m \in Of[k - 1]}
    IN  Of[Len(re.pattern)]

Preferred(re, a, b) ==
    \E k \in DOMAIN re.pattern :
      /\ \A j \in 1..k : a[j] = b[j]
      /\ IF re.pattern[k] \in {Spaces, AnySpaces} THEN a[k + 1] > b[k + 1]
                                                ELSE a[k + 1] < b[k + 1]

exec(re, input) ==
    LET starts == {i \in 1..(Len(input) + 1) : Matches(re, input, i) # {}}
        all == Matches(re, input, Min(starts))
    IN  IF starts = {} THEN NoMatch
        ELSE CHOOSE a \in all : \A b \in all \ {a} : Preferred(re, a, b)

\* How many characters a match takes, and its gaps.
Length(match) == Last(match) - Head(match)
Skipped(re, match) ==
    Cardinality({i \in Head(match)..Last(match) :
                   \E k \in DOMAIN re.pattern :
                     /\ re.pattern[k] = Gap
                     /\ match[k] <= i /\ i < match[k + 1]})

-----------------------------------------------------------------------------
(* rankMatch, in two-hundredths                                            *)

catModules == "Modules"
catPackages == "Packages"
catTypes == "Classes and Interfaces"
catMembers == "Members"
catSearchTags == "Search Tags"

Unit == 200
RANKING_THRESHOLD == 2 * Unit
NO_MATCH == 65535 * Unit

HasUpper(text) == ToSet(text) \cap Upper # {}

\* A match should begin on the left boundary of a word.
leftBoundaryMatch(match, input) ==
    LET i == Head(match)
    IN  IF i = 1 \/ input[i - 1] \notin Word \/ input[i] = "_" THEN 0
        ELSE IF \/ input[i - 1] = "_"
                \/ input[i] \notin Lower /\ ~(ToSet(input) \subseteq Upper \cup {"_", "$"})
             THEN Unit ELSE 2 * Unit

\* Where the parameters, or the text, end the name.
endOfName(input) ==
    Cardinality({n \in DOMAIN input : "(" \notin ToSet(SubSeq(input, 1, n))})

\* Neither in the parameters nor in the part before the last delimiter.
periferalMatch(match, input, category) ==
    LET delim == IF category = catPackages THEN "/" ELSE "."
        name == endOfName(input)
    IN  IF category \in {catModules, catSearchTags} THEN 0
        ELSE IF \/ name + 1 < Head(match)
                \/ \E i \in Last(match)..name : input[i] = delim
             THEN 2 * Unit ELSE 0

delta(re, match, input, category) ==
    LET end == Last(match)
    IN  (IF Length(match) = endOfName(input) THEN 0 ELSE 1)
          + Skipped(re, match)
          + (IF category = catTypes /\ HasUpper(SubSeq(input, end, Len(input)))
             THEN 5 ELSE 0)
          + (IF category = catTypes /\ HasUpper(SubSeq(input, 1, Head(match) - 1))
             THEN 5 ELSE 0)

rankMatch(re, match, input, category) ==
    IF match = NoMatch THEN NO_MATCH
    ELSE leftBoundaryMatch(match, input) + periferalMatch(match, input, category)
           + delta(re, match, input, category)

-----------------------------------------------------------------------------
(* What is highlighted                                                     *)

Entity(ch) == IF ch = "<" THEN <<"&", "l", "t", ";">>
              ELSE IF ch = ">" THEN <<"&", "g", "t", ";">>
              ELSE IF ch = Gap THEN <<HtmlGap>> ELSE <<ch>>
escapeHtml(str) == FlattenSeq([i \in DOMAIN str |-> Entity(str[i])])

\* Bug: what only the fallback finds is not highlighted.
OfMatcher(text, matcher, fallbackMatcher) == exec(matcher, escapeHtml(text))
\* The first part of the text that is highlighted.
getHighlightedText(text, matcher, fallbackMatcher) ==
    LET escaped == escapeHtml(text)
        match == exec(matcher, escaped)
    IN  IF match # NoMatch THEN match ELSE exec(fallbackMatcher, escaped)
=============================================================================
