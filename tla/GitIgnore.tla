------------------------------ MODULE GitIgnore ------------------------------
(***************************************************************************)
(* addOrMergeGitIgnore: the lines of a .gitignore after the recommended    *)
(* ones were merged into it.  A file is the sequence of its lines, <<>>    *)
(* when it is missing or empty; a last line Blank is a final newline.      *)
(***************************************************************************)
EXTENDS Integers, SequencesExt, Subsequences

CONSTANTS
  Lines,        \* lines of .gitignore files
  Blank,        \* the empty line
  Comments,     \* the lines that start with #
  Recommended,  \* recommended-gitignore.txt
  Forms         \* Forms[l]: the lines that make the recommended line l needless

Entries == ToSet(Recommended) \ (Comments \cup {Blank})

\* No recommended line is "/": without the slash nothing would be left of it.
ASSUME LinesAssumption ==
  /\ Recommended \in Seq(Lines)
  /\ Blank \in Lines \ Comments /\ Comments \subseteq Lines
  /\ Forms \in [Lines -> SUBSET Lines] /\ \A l \in Lines : l \in Forms[l]
  /\ \A l \in Entries : Blank \notin Forms[l]

Filled(s) == {i \in DOMAIN s : s[i] # Blank}

\* trimEnd() and trim(): the text "" is one blank line.
TrimEnd(s) ==
  IF Filled(s) = {} THEN <<Blank>> ELSE SubSeq(s, 1, Max(Filled(s)))

Trim(s) ==
  IF Filled(s) = {} THEN <<Blank>>
  ELSE SubSeq(s, Min(Filled(s)), Max(Filled(s)))

\* Mutant: the other forms of an entry are not looked for.
MissingVerbatim(existing) ==
  ElementsAt(Recommended,
    {i \in DOMAIN Recommended :
       Recommended[i] \in Entries => Recommended[i] \notin ToSet(existing)})

\* The recommended lines that are not there yet; comments and blanks stay.
MissingLines(existing) ==
  ElementsAt(Recommended,
    {i \in DOMAIN Recommended :
       Recommended[i] \in Entries =>
         Forms[Recommended[i]] \cap ToSet(existing) = {}})

\* A comment whose section is gone is followed by a blank line.
WithoutEmptySections(s) ==
  ElementsAt(s, {i \in DOMAIN s :
                ~(s[i] \in Comments /\ i < Len(s) /\ s[i + 1] = Blank)})

\* replace(/\n{2,}/g, "\n\n")
SingleBlanks(s) ==
  ElementsAt(s, {i \in DOMAIN s : ~(s[i] = Blank /\ i > 1 /\ s[i - 1] = Blank)})

\* The recommended lines include a blank one: something is always appended.
MergeIgnore(original) ==
  LET kept == WithoutEmptySections(MissingLines(original))
      addition == Trim(SingleBlanks(kept)) \o <<Blank>>
  IN IF original = <<>> THEN addition
     ELSE TrimEnd(original) \o <<Blank>> \o addition

CoversRecommended(s) ==
  \A l \in Entries : Forms[l] \cap ToSet(s) # {}

\* The old lines stay in front, and no recommended line is added of which
\* some form was there.
Extends(new, old) ==
  /\ IsPrefix(TrimEnd(old), new)
  /\ \A i \in Len(TrimEnd(old)) + 1 .. Len(new) :
       new[i] \in Entries => Forms[new[i]] \cap ToSet(old) = {}
==============================================================================
