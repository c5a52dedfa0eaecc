--------------------------- MODULE PatternMeaning ---------------------------
(***************************************************************************)
(* What a pattern means, without any reduction, and that a search of       *)
(* PathSearch lists what the pattern it was given means.                   *)
(***************************************************************************)
EXTENDS PathSearch

SameLetter(a, b) == Lower(a) = Lower(b)

Directory(text) == /\ text # <<>>
                   /\ text[Len(text)] = Separator /\ text[1] # Separator
                   /\ \A i \in 1 .. Len(text) - 1 : text[i] # Separator

\* text is a sequence of directories, at least n of them.
RECURSIVE SomeDirectories(_, _)
SomeDirectories(text, n) ==
    \/ text = <<>> /\ n = 0
    \/ \E k \in DOMAIN text : /\ Directory(SubSeq(text, 1, k))
                              /\ SomeDirectories(SubSeq(text, k + 1, Len(text)), Max({n - 1, 0}))

\* How many groups of a double asterisk and a separator a pattern begins with.
RECURSIVE Groups(_)
Groups(pattern) ==
    IF IsPrefix(<<Star, Star, Separator>>, pattern)
    THEN 1 + Groups(SubSeq(pattern, 4, Len(pattern))) ELSE 0

(***************************************************************************)
(* A path pattern: two asterisks match anything, one asterisk and a        *)
(* question mark anything but a separator, and n double asterisks each     *)
(* between separators any directories, but no fewer than n - 1.            *)
(***************************************************************************)
RECURSIVE PathMeans(_, _)
PathMeans(pattern, text) ==
    LET From(s, k) == SubSeq(s, k, Len(s))
        groups == Groups(From(pattern, 2))
    IN CASE pattern = <<>> -> text = <<>>
         [] pattern # <<>> /\ pattern[1] = Separator /\ groups > 0 ->
               /\ text # <<>> /\ text[1] = Separator
               /\ \E k \in 1 .. Len(text) :
                     /\ SomeDirectories(SubSeq(text, 2, k), groups - 1)
                     /\ PathMeans(From(pattern, 3 * groups + 2), From(text, k + 1))
         [] IsPrefix(<<Star, Star>>, pattern) ->
               \E k \in 0 .. Len(text) : PathMeans(From(pattern, 3), From(text, k + 1))
         [] IsPrefix(<<Star>>, pattern) /\ ~IsPrefix(<<Star, Star>>, pattern) ->
               \E k \in 0 .. Len(text) : /\ ~Occurs(Separator, SubSeq(text, 1, k))
                                         /\ PathMeans(From(pattern, 2), From(text, k + 1))
         [] OTHER ->
               /\ text # <<>>
               /\ \/ SameLetter(pattern[1], text[1])
                  \/ pattern[1] = Question /\ text[1] # Separator
               /\ PathMeans(From(pattern, 2), From(text, 2))

\* A name pattern: asterisks and question marks match any characters.
RECURSIVE NameMeans(_, _)
NameMeans(pattern, text) ==
    LET From(s, k) == SubSeq(s, k, Len(s))
    IN CASE pattern = <<>> -> text = <<>>
         [] IsPrefix(<<Star>>, pattern) ->
               \E k \in 0 .. Len(text) : NameMeans(From(pattern, 2), From(text, k + 1))
         [] OTHER -> /\ text # <<>>
                     /\ SameLetter(pattern[1], text[1]) \/ pattern[1] = Question
                     /\ NameMeans(From(pattern, 2), From(text, 2))

\* A pattern without wildcards is looked for anywhere in a name.
Means(pattern, names, isDirectory) ==
    LET full == SubSeq(Root, 1, Len(Root) - 1) \o Joined(names, isDirectory)
        name == names[Len(names)]
        plain == ~Occurs(Star, pattern) /\ ~Occurs(Question, pattern)
    IN CASE IsPathPattern(pattern) -> PathMeans(pattern, full)
         [] ~IsPathPattern(pattern) /\ names = <<>> -> FALSE
         [] ~IsPathPattern(pattern) /\ names # <<>> /\ plain ->
               \E k \in 1 .. Len(name) - Len(pattern) + 1 :
                  Folded(SubSeq(name, k, k + Len(pattern) - 1)) = Folded(pattern)
         [] OTHER -> NameMeans(pattern, name)

-----------------------------------------------------------------------------
\* The callback is called and finds a match.
IsListed == seen /\ IsMatch(operation.matcher, Given(operation, path, directory))

\* The patterns whose first component is neither a part of the root path, in
\* other capitals than the drive has or cut short, nor holds a wildcard.
ComponentNamesDrive ==
    operation.requires =>
        LET root == operation.root
        IN /\ Range(root) \intersect {Star, Question} = {}
           /\ IsPrefix(Folded(root), Folded(Root)) => root = SubSeq(Root, 1, Len(Root) - 1)

(***************************************************************************)
(* An entry is listed if and only if its path or name is what the typed    *)
(* pattern means: stripping asterisks, the detour over globstar, verbatim  *)
(* and regular expressions, taking the drive off the pattern and off the   *)
(* path and not walking below directories change nothing.                  *)
(***************************************************************************)
FoundIffMeant ==
    ComponentNamesDrive /\ (operation.isPath \/ path # <<>>) =>
        (IsListed <=> Means(typed, path, directory))
=============================================================================
