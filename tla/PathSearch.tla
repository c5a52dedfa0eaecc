----------------------------- MODULE PathSearch -----------------------------
(***************************************************************************)
(* One search with a pattern on one drive: what search/match_operation.hpp *)
(* makes of the pattern, and the walk down a path of names with the        *)
(* callback that matches and prunes (gui/main_dialog.cpp, cli_main.hpp).   *)
(*                                                                         *)
(* The walk of the model goes to every path; seen says whether that of     *)
(* the program, which skips drives and does not go below a directory its   *)
(* callback has turned down, gets there.                                   *)
(***************************************************************************)
EXTENDS GlobPattern

CONSTANTS Characters, \* what texts are made of
          Patterns,   \* what the user may type, but for regular expressions
          Root,       \* the root path of the drive, with its separator
          Names,      \* names of files and directories
          MaxDepth    \* bound on the length of a path

ASSUME TextAssumption ==
    /\ {Star, Question, Separator} \subseteq Characters
    /\ Patterns \subseteq Seq(Characters) /\ Names \subseteq Seq(Characters)
    /\ Root \in Seq(Characters) \ {<<>>} /\ Root[Len(Root)] = Separator

VARIABLES typed,     \* the pattern as the user typed it
          operation, \* the MatchOperation
          path,      \* names from the root to the current entry
          directory, \* the current entry is a directory
          seen       \* the program's walk gets here

patternVars == <<typed, operation, path, directory, seen>>

-----------------------------------------------------------------------------
DoubleStar(pattern) == \E i \in 1 .. Len(pattern) - 1 : pattern[i] = Star /\ pattern[i + 1] = Star

IsPathPattern(pattern) == Occurs(Separator, pattern) \/ DoubleStar(pattern)

RequiresRootPathMatch(pattern) ==
    /\ IsPathPattern(pattern)
    /\ Len(pattern) >= 2
    /\ {pattern[1], pattern[2]} \intersect {Star, Question} = {}

\* The part of a pattern before its first separator.
FirstComponent(pattern) ==
    IF Occurs(Separator, pattern)
    THEN SubSeq(pattern, 1, SelectInSeq(pattern, LAMBDA c : c = Separator) - 1)
    ELSE pattern

\* MatchOperation::init().
Operation(pattern) ==
    LET isPath == IsPathPattern(pattern)
        requires == RequiresRootPathMatch(pattern)
        root == IF requires THEN FirstComponent(pattern) ELSE <<>>
        rest == SubSeq(pattern, Len(root) + 1, Len(pattern))
        plain == ~isPath /\ ~Occurs(Star, rest) /\ ~Occurs(Question, rest)
        text == IF plain THEN <<Star, Star>> \o rest \o <<Star, Star>> ELSE rest
    IN [isPath |-> isPath, requires |-> requires, root |-> root,
        matcher |-> Compile(text, IF isPath THEN "globstar" ELSE "glob")]

\* prematch(): compares character by character, capitals included.
Prematch(op) == op.requires => IsPrefix(op.root, Root)

\* Mutant: the path begins with the root even if the pattern no longer does.
CurrentPathKept(op) == SubSeq(Root, 1, SelectLastInSeq(Root, LAMBDA c : c # Separator))

\* get_current_path(): the root without its separators, or nothing if the
\* pattern's first component stands for it.
CurrentPath(op) ==
    IF op.root # <<>> THEN <<>>
    ELSE SubSeq(Root, 1, SelectLastInSeq(Root, LAMBDA c : c # Separator))

\* The path the walk builds for an entry: a directory ends in a separator.
Joined(names, isDirectory) ==
    FlattenSeq([i \in DOMAIN names |-> <<Separator>> \o names[i]])
        \o IF isDirectory THEN <<Separator>> ELSE <<>>

\* What the callback is given: the path, or the name alone.
Given(op, names, isDirectory) ==
    IF op.isPath THEN CurrentPath(op) \o Joined(names, isDirectory)
    ELSE IF names = <<>> THEN <<Separator, ".">> ELSE names[Len(names)]

\* Mutant: a mark at the end of the text counts as short of it.
GoesOnShort(op, text) ==
    \/ IsMatch(op.matcher, text)
    \/ ~(op.isPath /\ HighWaterMark(op.matcher, text) <= Len(text))

\* The callback's answer, by which the walk goes on below a directory.
GoesOn(op, text) ==
    \/ IsMatch(op.matcher, text)
    \/ ~(op.isPath /\ HighWaterMark(op.matcher, text) < Len(text))

-----------------------------------------------------------------------------
PatternInit ==
    /\ typed \in Patterns
    /\ operation = Operation(typed)
    /\ path = <<>>
    /\ directory = TRUE
    /\ seen = Prematch(operation)

\* The walk visits an entry of the current directory.
Visit(name, isDirectory) ==
    /\ directory
    /\ Len(path) < MaxDepth
    /\ path' = Append(path, name)
    /\ directory' = isDirectory
    /\ seen' = (seen /\ GoesOn(operation, Given(operation, path, TRUE)))
    /\ UNCHANGED <<typed, operation>>

PatternNext == \E name \in Names, isDirectory \in BOOLEAN : Visit(name, isDirectory)

PatternSpec == PatternInit /\ [][PatternNext]_patternVars

-----------------------------------------------------------------------------
(***************************************************************************)
(* The high water mark is a safe criterion for any pattern: nothing that   *)
(* lies below a directory the callback has turned down matches.            *)
(***************************************************************************)
PruningHidesNothing ==
    Prematch(operation) /\ ~seen =>
        ~IsMatch(operation.matcher, Given(operation, path, directory))
=============================================================================
