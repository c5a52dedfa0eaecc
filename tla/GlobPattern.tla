---------------------------- MODULE GlobPattern ----------------------------
(***************************************************************************)
(* The string matcher of search/string_matcher.cpp: how a pattern is       *)
(* reduced when it is compiled, whether a text matches it, and how far the *)
(* matcher has looked into the text (the high water mark a search prunes   *)
(* by).  Texts and patterns are sequences of characters; letters are       *)
(* compared without regard to case, as every caller asks for.              *)
(***************************************************************************)
EXTENDS Integers, Sequences, SequencesExt, FiniteSetsExt

Star == "*"
Question == "?"
Separator == "\\"

\* totlower(): the one letter of the models that has a capital.
Lower(c) == IF c = "C" THEN "c" ELSE c

Occurs(c, text) == c \in Range(text)

\* Length of the run of asterisks a text begins with.
LeadingStars(text) ==
    IF Range(text) \subseteq {Star} THEN Len(text)
    ELSE SelectInSeq(text, LAMBDA c : c # Star) - 1

(***************************************************************************)
(* The asterisks at either end are taken off if they match anything: one   *)
(* is enough in a glob, two in a globstar pattern.  The run at the end     *)
(* goes first and may take with it what belonged to the run at the front.  *)
(***************************************************************************)
Strip(pattern, minwild) ==
    LET prefix == LeadingStars(pattern)
        suffix == LeadingStars(Reverse(pattern))
        kept == IF suffix >= minwild
                THEN SubSeq(pattern, 1, Len(pattern) - suffix) ELSE pattern
        front == Min({prefix, Len(kept)})
    IN [begin |-> prefix >= minwild, end |-> suffix >= minwild,
        body |-> IF front >= minwild THEN SubSeq(kept, front + 1, Len(kept)) ELSE kept]

(***************************************************************************)
(* What one piece of a pattern becomes in the regular expression: a        *)
(* character, any character or any but a separator, once or any number of  *)
(* times, or at least n directories (non-empty names that end in a         *)
(* separator).                                                             *)
(***************************************************************************)
Char(c) == [is |-> "char", char |-> c]
One(crosses) == [is |-> "one", crosses |-> crosses]
Many(crosses) == [is |-> "many", crosses |-> crosses]
Directories(n) == [is |-> "directories", least |-> n]

(***************************************************************************)
(* Translation of a body; wild tells how many asterisks cross directories. *)
(* Between two separators a double asterisk stands for directories, and    *)
(* the groups that follow it raise the least number of them.               *)
(***************************************************************************)
Translated(body, wild) ==
    LET At(i) == IF i \in DOMAIN body THEN body[i] ELSE ""
        Group(i) == At(i) = Star /\ At(i + 1) = Star /\ At(i + 2) = Separator
        More(i) == Max({n \in 0 .. Len(body) : \A k \in 1 .. n : Group(i + 3 * k)})
        from[i \in 1 .. Len(body) + 2] ==
            CASE i > Len(body) -> <<>>
              [] At(i) = Question -> <<One(wild = 1)>> \o from[i + 1]
              [] At(i) \notin {Question, Star} /\ i <= Len(body) ->
                    <<Char(At(i))>> \o from[i + 1]
              [] At(i) = Star /\ wild = 1 -> <<Many(TRUE)>> \o from[i + 1]
              [] At(i) = Star /\ wild = 2 /\ At(i + 1) # Star -> <<Many(FALSE)>> \o from[i + 1]
              [] At(i) = Star /\ wild = 2 /\ Group(i) /\ At(i - 1) = Separator ->
                    <<Directories(More(i))>> \o from[i + 3 + 3 * More(i)]
              [] OTHER -> <<Many(TRUE)>> \o from[i + 2]
    IN from[1]

(***************************************************************************)
(* string_matcher::impl::init().  A glob without question marks becomes a  *)
(* globstar pattern with its asterisks doubled.  A body without wildcards  *)
(* stays verbatim; an open end of an expression becomes one more piece.    *)
(***************************************************************************)
Doubled(body) ==
    FlattenSeq([i \in DOMAIN body |-> IF body[i] = Star THEN <<Star, Star>> ELSE <<body[i]>>])

Compile(pattern, kind) ==
    LET minwild == IF kind = "globstar" THEN 2 ELSE 1
        cut == Strip(pattern, minwild)
        verbatim == ~Occurs(Star, cut.body) /\ ~Occurs(Question, cut.body)
        pieces == IF kind = "glob" /\ Occurs(Question, cut.body)
                  THEN Translated(cut.body, 1)
                  ELSE Translated(IF kind = "glob" THEN Doubled(cut.body) ELSE cut.body, 2)
    IN CASE verbatim /\ cut.begin /\ cut.end /\ cut.body = <<>> ->
               [kind |-> "anything"]
         [] verbatim /\ ~(cut.begin /\ cut.end /\ cut.body = <<>>) ->
               [kind |-> "verbatim", begin |-> cut.begin, end |-> cut.end, body |-> cut.body]
         [] OTHER ->
               [kind |-> "regex", search |-> cut.begin,
                pieces |-> IF cut.end THEN Append(pieces, Many(TRUE)) ELSE pieces]

-----------------------------------------------------------------------------
(***************************************************************************)
(* The library's regular expressions, as far as the translation uses them. *)
(* A text is read between positions 0 .. Len(text).                        *)
(***************************************************************************)
\* Where the separators after a position are.
SeparatorsAfter(text, at) == {i \in at + 1 .. Len(text) : text[i] = Separator}

\* text[at + 1 .. to] is a sequence of at least n directories.
AreDirectories(text, at, to, n) ==
    LET seps == {i \in at + 1 .. to : text[i] = Separator}
    IN /\ Cardinality(seps) >= n
       /\ to > at => to \in seps
       /\ at + 1 \notin seps
       /\ \A i \in seps : i + 1 \notin seps

\* Positions a piece can end at when it begins at a given one.
Ends(piece, text, at) ==
    CASE piece.is = "char" ->
            {to \in {at + 1} : to <= Len(text) /\ Lower(text[to]) = Lower(piece.char)}
      [] piece.is = "one" ->
            {to \in {at + 1} : to <= Len(text) /\ (piece.crosses \/ text[to] # Separator)}
      [] piece.is = "many" /\ piece.crosses -> at .. Len(text)
      [] piece.is = "many" /\ ~piece.crosses ->
            {to \in at .. Len(text) : \A i \in at + 1 .. to : text[i] # Separator}
      [] OTHER -> {to \in at .. Len(text) : AreDirectories(text, at, to, piece.least)}

\* The last character a piece reads when it begins at a given position and
\* every way to go on is tried.
Furthest(piece, text, at) ==
    CASE piece.is \in {"char", "one"} -> Min({at + 1, Len(text)})
      [] piece.is = "many" /\ piece.crosses -> Len(text)
      [] piece.is = "many" /\ ~piece.crosses -> Min(SeparatorsAfter(text, at) \union {Len(text)})
      [] OTHER -> Min({i \in SeparatorsAfter(text, at) :
                          i = at + 1 \/ text[i - 1] = Separator} \union {Len(text)})

\* The positions before each piece and at the end of the expression.
Positions(matcher, text) ==
    LET starts == IF matcher.search THEN 0 .. Len(text) ELSE {0}
        reached[k \in 0 .. Len(matcher.pieces)] ==
            IF k = 0 THEN starts
            ELSE UNION {Ends(matcher.pieces[k], text, at) : at \in reached[k - 1]}
    IN reached

RegexMatches(matcher, text) ==
    Len(text) \in Positions(matcher, text)[Len(matcher.pieces)]

RegexMark(matcher, text) ==
    LET reached == Positions(matcher, text)
        marks == UNION {{Furthest(matcher.pieces[k], text, at) : at \in reached[k - 1]} :
                            k \in DOMAIN matcher.pieces}
    IN Max(marks \union {0})

-----------------------------------------------------------------------------
Folded(text) == [i \in DOMAIN text |-> Lower(text[i])]

(***************************************************************************)
(* is_match_verbatim(): a substring, a prefix, a suffix or the whole.      *)
(***************************************************************************)
VerbatimMatches(matcher, text) ==
    LET body == Folded(matcher.body)
        corpus == Folded(text)
        Here(at) == SubSeq(corpus, at + 1, at + Len(body)) = body
        last == Len(corpus) - Len(body)
    IN /\ last >= 0
       /\ \E at \in 0 .. last :
             /\ ~matcher.begin => at = 0
             /\ ~matcher.end => at = last
             /\ Here(at)

\* Only the comparison with a prefix watches what it reads; the others
\* report the whole text.
VerbatimMark(matcher, text) ==
    IF matcher.end /\ ~matcher.begin /\ Len(matcher.body) <= Len(text)
    THEN LET body == Folded(matcher.body)
             corpus == Folded(text)
             differ == {i \in DOMAIN body : body[i] # corpus[i]}
         IN Min(differ \union {Len(body)})
    ELSE Len(text)

\* is_match() and the high water mark it leaves behind.
IsMatch(matcher, text) ==
    CASE matcher.kind = "anything" -> TRUE
      [] matcher.kind = "verbatim" -> VerbatimMatches(matcher, text)
      [] OTHER -> RegexMatches(matcher, text)

HighWaterMark(matcher, text) ==
    CASE matcher.kind = "anything" -> 0
      [] matcher.kind = "verbatim" -> VerbatimMark(matcher, text)
      [] OTHER -> RegexMark(matcher, text)
=============================================================================
