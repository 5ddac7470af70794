--------------------------- MODULE GitIgnoreProofs ---------------------------
(***************************************************************************)
(* What addOrMergeGitIgnore promises for every recommended file and every  *)
(* .gitignore there is: the result is a file, it covers the recommended    *)
(* entries, it begins with what was there, and it repeats none of it.      *)
(***************************************************************************)
EXTENDS GitIgnore, SubsequencesProofs

(* Trimming and merging. *)

LEMMA FilledFacts ==
  ASSUME NEW s \in Seq(Lines), Filled(s) # {}
  PROVE  /\ Filled(s) \subseteq 1 .. Len(s) /\ Len(s) \in Nat
         /\ Max(Filled(s)) \in Filled(s) /\ Min(Filled(s)) \in Filled(s)
         /\ \A i \in Filled(s) : i \in Min(Filled(s)) .. Max(Filled(s))
<1>1. Filled(s) \in SUBSET (1 .. Len(s)) /\ Len(s) \in Nat
  BY LenProperties DEF Filled
<1>2. \E x \in Filled(s) : \A y \in Filled(s) : x >= y
  <2>1. PICK x \in Filled(s) : \A y \in Filled(s) : y <= x
    BY <1>1, GreatestElement
  <2>. QED BY <1>1, <2>1
<1>3. \E x \in Filled(s) : \A y \in Filled(s) : x <= y
  <2>1. Filled(s) \in SUBSET Nat
    BY <1>1
  <2>. QED BY <2>1, LeastElement
<1>4. /\ Max(Filled(s)) \in Filled(s)
      /\ \A y \in Filled(s) : Max(Filled(s)) >= y
  BY <1>2 DEF Max
<1>5. /\ Min(Filled(s)) \in Filled(s)
      /\ \A y \in Filled(s) : Min(Filled(s)) <= y
  BY <1>3 DEF Min
<1>. QED BY <1>1, <1>4, <1>5

\* Only blank lines are trimmed.
LEMMA TrimFacts ==
  ASSUME NEW s \in Seq(Lines)
  PROVE  /\ TrimEnd(s) \in Seq(Lines) /\ Trim(s) \in Seq(Lines)
         /\ \A l \in ToSet(s) \ {Blank} :
              l \in ToSet(TrimEnd(s)) /\ l \in ToSet(Trim(s))
<1>1. CASE Filled(s) = {}
  <2>1. <<Blank>> \in Seq(Lines)
    BY LinesAssumption
  <2>2. ToSet(s) \ {Blank} = {}
    BY <1>1 DEF ToSet, Filled
  <2>. QED BY <1>1, <2>1, <2>2 DEF TrimEnd, Trim
<1>2. CASE Filled(s) # {}
  <2>. DEFINE lo == Min(Filled(s))
              hi == Max(Filled(s))
  <2>1. lo \in 1 .. Len(s) /\ hi \in 1 .. Len(s) /\ Len(s) \in Nat
    BY <1>2, FilledFacts
  <2>2. \A i \in 1 .. Len(s) : s[i] \in Lines
    BY ElementOfSeq
  <2>3. ASSUME NEW m \in {1, lo}
        PROVE  /\ SubSeq(s, m, hi) \in Seq(Lines)
               /\ \A l \in ToSet(s) \ {Blank} : l \in ToSet(SubSeq(s, m, hi))
    <3>1. m \in 1 .. Len(s) /\ m <= lo
      BY <2>1
    <3>2. /\ SubSeq(s, m, hi) \in Seq(Lines)
          /\ Len(SubSeq(s, m, hi)) = IF m <= hi THEN hi - m + 1 ELSE 0
          /\ \A i \in 1 .. hi - m + 1 : SubSeq(s, m, hi)[i] = s[m + i - 1]
      BY <2>1, <2>2, <3>1, SubSeqProperties
    <3>3. ASSUME NEW l \in ToSet(s) \ {Blank}
          PROVE  l \in ToSet(SubSeq(s, m, hi))
      <4>1. PICK i \in Filled(s) : s[i] = l
        BY <3>3 DEF ToSet, Filled
      <4>2. i \in lo .. hi
        BY <1>2, FilledFacts
      <4>. DEFINE k == i - m + 1
      <4>3. k \in 1 .. hi - m + 1 /\ m + k - 1 = i /\ m <= hi
        BY <2>1, <3>1, <4>2
      <4>4. k \in DOMAIN SubSeq(s, m, hi)
        BY <3>2, <4>3, LenProperties
      <4>. QED BY <3>2, <4>1, <4>3, <4>4 DEF ToSet
    <3>. QED BY <3>2, <3>3
  <2>. QED BY <1>2, <2>3 DEF TrimEnd, Trim
<1>. QED BY <1>1, <1>2

LEMMA ConcatFacts ==
  ASSUME NEW a \in Seq(Lines), NEW b \in Seq(Lines)
  PROVE  /\ a \o b \in Seq(Lines)
         /\ ToSet(a) \subseteq ToSet(a \o b) /\ ToSet(b) \subseteq ToSet(a \o b)
         /\ IsPrefix(a, a \o b)
<1>1. /\ a \o b \in Seq(Lines)
      /\ Len(a) \in Nat /\ Len(b) \in Nat /\ Len(a \o b) = Len(a) + Len(b)
      /\ DOMAIN a = 1 .. Len(a) /\ DOMAIN b = 1 .. Len(b)
      /\ DOMAIN (a \o b) = 1 .. Len(a) + Len(b)
  BY ConcatProperties, LenProperties
<1>2. \A i \in 1 .. Len(a) : (a \o b)[i] = a[i]
  BY <1>1, ConcatProperties
<1>3. \A i \in 1 .. Len(b) : (a \o b)[Len(a) + i] = b[i]
  BY <1>1, ConcatProperties
<1>4. ToSet(a) \subseteq ToSet(a \o b)
  BY <1>1, <1>2 DEF ToSet
<1>5. ToSet(b) \subseteq ToSet(a \o b)
  <2>1. \A i \in 1 .. Len(b) : Len(a) + i \in 1 .. Len(a) + Len(b)
    BY <1>1
  <2>. QED BY <1>1, <1>3, <2>1 DEF ToSet
<1>6. IsPrefix(a, a \o b)
  BY <1>1, <1>2 DEF IsPrefix
<1>. QED BY <1>1, <1>4, <1>5, <1>6

\* What is recommended and not there survives the removal of comments and
\* blank lines.
LEMMA AdditionFacts ==
  ASSUME NEW original \in Seq(Lines)
  PROVE  LET kept == WithoutEmptySections(MissingLines(original))
             addition == Trim(SingleBlanks(kept)) \o <<Blank>>
         IN /\ addition \in Seq(Lines)
            /\ \A l \in Entries :
                 Forms[l] \cap ToSet(original) = {} => l \in ToSet(addition)
<1>. DEFINE missing == MissingLines(original)
            kept == WithoutEmptySections(missing)
            single == SingleBlanks(kept)
            added == {l \in Entries : Forms[l] \cap ToSet(original) = {}}
<1>1. missing \in Seq(Lines) /\ added \subseteq ToSet(missing)
  <2>. DEFINE S == {i \in DOMAIN Recommended :
                      Recommended[i] \in Entries =>
                        Forms[Recommended[i]] \cap ToSet(original) = {}}
  <2>1. S \in SUBSET (DOMAIN Recommended) /\ missing = ElementsAt(Recommended, S)
    BY DEF MissingLines
  <2>2. added \subseteq {Recommended[i] : i \in S}
    BY DEF Entries, ToSet
  <2>. HIDE DEF S, missing, added
  <2>. QED BY <2>1, <2>2, ElementsAtFacts, LinesAssumption
<1>2. kept \in Seq(Lines) /\ added \subseteq ToSet(kept)
  <2>. DEFINE S == {i \in DOMAIN missing :
                      ~(missing[i] \in Comments /\ i < Len(missing)
                          /\ missing[i + 1] = Blank)}
  <2>1. S \in SUBSET (DOMAIN missing) /\ kept = ElementsAt(missing, S)
    BY DEF WithoutEmptySections
  <2>2. added \subseteq {missing[i] : i \in S}
    <3>. SUFFICES ASSUME NEW l \in added PROVE \E i \in S : missing[i] = l
      OBVIOUS
    <3>1. PICK i \in DOMAIN missing : missing[i] = l
      BY <1>1 DEF ToSet
    <3>. QED BY <3>1 DEF Entries
  <2>. HIDE DEF S, missing, kept, added
  <2>. QED BY <1>1, <2>1, <2>2, ElementsAtFacts
<1>3. single \in Seq(Lines) /\ added \subseteq ToSet(single)
  <2>. DEFINE S == {i \in DOMAIN kept :
                      ~(kept[i] = Blank /\ i > 1 /\ kept[i - 1] = Blank)}
  <2>1. S \in SUBSET (DOMAIN kept) /\ single = ElementsAt(kept, S)
    BY DEF SingleBlanks
  <2>2. added \subseteq {kept[i] : i \in S}
    <3>. SUFFICES ASSUME NEW l \in added PROVE \E i \in S : kept[i] = l
      OBVIOUS
    <3>1. PICK i \in DOMAIN kept : kept[i] = l
      BY <1>2 DEF ToSet
    <3>. QED BY <3>1 DEF Entries
  <2>. HIDE DEF S, kept, single, added
  <2>. QED BY <1>2, <2>1, <2>2, ElementsAtFacts
<1>4. Trim(single) \in Seq(Lines) /\ added \subseteq ToSet(Trim(single))
  <2>1. Blank \notin added
    BY DEF Entries
  <2>. HIDE DEF single, added
  <2>. QED BY <1>3, <2>1, TrimFacts
<1>5. <<Blank>> \in Seq(Lines)
  BY LinesAssumption
<1>6. /\ Trim(single) \o <<Blank>> \in Seq(Lines)
      /\ added \subseteq ToSet(Trim(single) \o <<Blank>>)
  <2>. HIDE DEF single, added
  <2>. QED BY <1>4, <1>5, ConcatFacts
<1>. QED BY <1>6

LEMMA TrimAddsNothing ==
  ASSUME NEW s \in Seq(Lines)
  PROVE  /\ ToSet(TrimEnd(s)) \subseteq ToSet(s) \cup {Blank}
         /\ ToSet(Trim(s)) \subseteq ToSet(s) \cup {Blank}
<1>1. CASE Filled(s) = {}
  BY <1>1 DEF TrimEnd, Trim, ToSet
<1>2. CASE Filled(s) # {}
  <2>. DEFINE lo == Min(Filled(s))
              hi == Max(Filled(s))
  <2>1. lo \in 1 .. Len(s) /\ hi \in 1 .. Len(s) /\ Len(s) \in Nat
    BY <1>2, FilledFacts
  <2>2. \A i \in 1 .. Len(s) : s[i] \in Lines
    BY ElementOfSeq
  <2>3. DOMAIN s = 1 .. Len(s)
    BY LenProperties
  <2>4. ASSUME NEW m \in {1, lo}
        PROVE  ToSet(SubSeq(s, m, hi)) \subseteq ToSet(s)
    <3>1. m \in 1 .. Len(s)
      BY <2>1
    <3>2. /\ SubSeq(s, m, hi) \in Seq(Lines)
          /\ Len(SubSeq(s, m, hi)) = IF m <= hi THEN hi - m + 1 ELSE 0
          /\ \A i \in 1 .. hi - m + 1 : SubSeq(s, m, hi)[i] = s[m + i - 1]
      BY <2>1, <2>2, <3>1, SubSeqProperties
    <3>3. DOMAIN SubSeq(s, m, hi) \subseteq 1 .. hi - m + 1
      BY <2>1, <3>1, <3>2, LenProperties
    <3>4. \A i \in 1 .. hi - m + 1 : m + i - 1 \in DOMAIN s
      BY <2>1, <2>3, <3>1
    <3>. QED BY <3>2, <3>3, <3>4 DEF ToSet
  <2>. QED BY <1>2, <2>4 DEF TrimEnd, Trim
<1>. QED BY <1>1, <1>2

LEMMA ConcatAddsNothing ==
  ASSUME NEW a \in Seq(Lines), NEW b \in Seq(Lines)
  PROVE  ToSet(a \o b) \subseteq ToSet(a) \cup ToSet(b)
<1>1. /\ Len(a) \in Nat /\ Len(b) \in Nat
      /\ DOMAIN a = 1 .. Len(a) /\ DOMAIN b = 1 .. Len(b)
      /\ DOMAIN (a \o b) = 1 .. Len(a) + Len(b)
  BY ConcatProperties, LenProperties
<1>2. \A i \in 1 .. Len(a) + Len(b) :
        (a \o b)[i] = IF i <= Len(a) THEN a[i] ELSE b[i - Len(a)]
  BY <1>1, ConcatProperties
<1>3. ASSUME NEW i \in DOMAIN (a \o b)
      PROVE  (a \o b)[i] \in ToSet(a) \cup ToSet(b)
  <2>1. CASE i <= Len(a)
    <3>1. i \in DOMAIN a
      BY <1>1, <2>1
    <3>. QED BY <1>1, <1>2, <2>1, <3>1 DEF ToSet
  <2>2. CASE ~(i <= Len(a))
    <3>1. i - Len(a) \in DOMAIN b
      BY <1>1, <2>2
    <3>. QED BY <1>1, <1>2, <2>2, <3>1 DEF ToSet
  <2>. QED BY <2>1, <2>2
<1>. QED BY <1>3 DEF ToSet

\* No recommended entry is added of which some form is there.
LEMMA NeededAddition ==
  ASSUME NEW s \in Seq(Lines)
  PROVE  LET kept == WithoutEmptySections(MissingLines(s))
         IN \A l \in ToSet(Trim(SingleBlanks(kept)) \o <<Blank>>) :
              /\ l \in Comments \cup {Blank} \cup Entries
              /\ l \in Entries => Forms[l] \cap ToSet(s) = {}
<1>. DEFINE missing == MissingLines(s)
            kept == WithoutEmptySections(missing)
            single == SingleBlanks(kept)
            idle == {l \in Comments \cup {Blank} \cup Entries :
                       l \in Entries => Forms[l] \cap ToSet(s) = {}}
<1>1. missing \in Seq(Lines) /\ ToSet(missing) \subseteq idle
  <2>. DEFINE S == {i \in DOMAIN Recommended :
                      Recommended[i] \in Entries =>
                        Forms[Recommended[i]] \cap ToSet(s) = {}}
  <2>1. S \in SUBSET (DOMAIN Recommended) /\ missing = ElementsAt(Recommended, S)
    BY DEF MissingLines
  <2>2. \A i \in S : Recommended[i] \in idle
    BY DEF Entries, ToSet
  <2>. HIDE DEF S, missing, idle
  <2>. QED BY <2>1, <2>2, ElementsAtFacts, LinesAssumption
<1>2. kept \in Seq(Lines) /\ ToSet(kept) \subseteq idle
  <2>. DEFINE S == {i \in DOMAIN missing :
                      ~(missing[i] \in Comments /\ i < Len(missing)
                          /\ missing[i + 1] = Blank)}
  <2>1. S \in SUBSET (DOMAIN missing) /\ kept = ElementsAt(missing, S)
    BY DEF WithoutEmptySections
  <2>2. \A i \in S : missing[i] \in idle
    BY <1>1 DEF ToSet
  <2>. HIDE DEF S, missing, kept, idle
  <2>. QED BY <1>1, <2>1, <2>2, ElementsAtFacts
<1>3. single \in Seq(Lines) /\ ToSet(single) \subseteq idle
  <2>. DEFINE S == {i \in DOMAIN kept :
                      ~(kept[i] = Blank /\ i > 1 /\ kept[i - 1] = Blank)}
  <2>1. S \in SUBSET (DOMAIN kept) /\ single = ElementsAt(kept, S)
    BY DEF SingleBlanks
  <2>2. \A i \in S : kept[i] \in idle
    BY <1>2 DEF ToSet
  <2>. HIDE DEF S, kept, single, idle
  <2>. QED BY <1>2, <2>1, <2>2, ElementsAtFacts
<1>4. Trim(single) \in Seq(Lines) /\ ToSet(Trim(single)) \subseteq idle
  <2>1. Blank \in idle
    BY DEF Entries
  <2>. HIDE DEF single, idle
  <2>. QED BY <1>3, <2>1, TrimFacts, TrimAddsNothing
<1>5. <<Blank>> \in Seq(Lines) /\ ToSet(<<Blank>>) = {Blank}
  BY LinesAssumption DEF ToSet
<1>6. ToSet(Trim(single) \o <<Blank>>) \subseteq ToSet(Trim(single)) \cup {Blank}
  <2>. HIDE DEF single
  <2>. QED BY <1>4, <1>5, ConcatAddsNothing
<1>7. Blank \in idle
  BY DEF Entries
<1>8. ToSet(Trim(single) \o <<Blank>>) \subseteq idle
  <2>. HIDE DEF single, idle
  <2>. QED BY <1>4, <1>6, <1>7
<1>. QED BY <1>8

LEMMA ConcatTail ==
  ASSUME NEW a \in Seq(Lines), NEW b \in Seq(Lines),
         NEW i \in Len(a) + 1 .. Len(a \o b)
  PROVE  (a \o b)[i] \in ToSet(b)
<1>1. /\ Len(a) \in Nat /\ Len(b) \in Nat /\ Len(a \o b) = Len(a) + Len(b)
      /\ DOMAIN b = 1 .. Len(b)
  BY ConcatProperties, LenProperties
<1>2. i \in 1 .. Len(a) + Len(b) /\ ~(i <= Len(a)) /\ i - Len(a) \in 1 .. Len(b)
  BY <1>1
<1>3. (a \o b)[i] = b[i - Len(a)]
  BY <1>1, <1>2, ConcatProperties
<1>. QED BY <1>1, <1>2, <1>3 DEF ToSet

\* addOrMergeGitIgnore, for every .gitignore and every recommended file.
THEOREM MergeFacts ==
  ASSUME NEW original \in Seq(Lines)
  PROVE  /\ MergeIgnore(original) \in Seq(Lines)
         /\ CoversRecommended(MergeIgnore(original))
         /\ original # <<>> => Extends(MergeIgnore(original), original)
<1>. DEFINE addition ==
       Trim(SingleBlanks(WithoutEmptySections(MissingLines(original)))) \o <<Blank>>
            front == TrimEnd(original) \o <<Blank>>
<1>1. addition \in Seq(Lines)
  BY AdditionFacts
<1>2. \A l \in Entries : Forms[l] \cap ToSet(original) = {} => l \in ToSet(addition)
  BY AdditionFacts
<1>3. \A l \in Entries : l \in Forms[l] /\ Blank \notin Forms[l]
  <2>1. Entries \subseteq Lines
    BY LinesAssumption, LenProperties, ElementOfSeq DEF Entries, ToSet
  <2>. QED BY <2>1, LinesAssumption
<1>4. CASE original = <<>>
  <2>1. MergeIgnore(original) = addition
    BY <1>4 DEF MergeIgnore
  <2>2. ToSet(original) = {}
    BY <1>4 DEF ToSet
  <2>. HIDE DEF addition
  <2>. QED BY <1>1, <1>2, <1>3, <1>4, <2>1, <2>2 DEF CoversRecommended
<1>5. CASE original # <<>>
  <2>1. MergeIgnore(original) = front \o addition
    BY <1>5 DEF MergeIgnore
  <2>2. <<Blank>> \in Seq(Lines) /\ TrimEnd(original) \in Seq(Lines)
    BY LinesAssumption, TrimFacts
  <2>3. /\ front \in Seq(Lines)
        /\ ToSet(TrimEnd(original)) \subseteq ToSet(front)
        /\ <<Blank>> \o addition \in Seq(Lines)
    BY <1>1, <2>2, ConcatFacts
  <2>4. front \o addition = TrimEnd(original) \o (<<Blank>> \o addition)
    BY <1>1, <2>2, ConcatAssociative
  <2>5. Extends(front \o addition, original)
    <3>. DEFINE whole == TrimEnd(original) \o (<<Blank>> \o addition)
    <3>1. IsPrefix(TrimEnd(original), whole)
      BY <2>2, <2>3, ConcatFacts
    <3>2. ToSet(<<Blank>> \o addition) \subseteq {Blank} \cup ToSet(addition)
      <4>1. ToSet(<<Blank>>) = {Blank}
        BY DEF ToSet
      <4>. HIDE DEF addition
      <4>. QED BY <1>1, <2>2, <4>1, ConcatAddsNothing
    <3>3. \A l \in ToSet(addition) :
            l \in Entries => Forms[l] \cap ToSet(original) = {}
      BY NeededAddition
    <3>4. \A i \in Len(TrimEnd(original)) + 1 .. Len(whole) :
            whole[i] \in ToSet(<<Blank>> \o addition)
      <4>. HIDE DEF addition
      <4>. QED BY <2>2, <2>3, ConcatTail
    <3>5. Blank \notin Entries
      BY DEF Entries
    <3>. HIDE DEF addition, whole, front
    <3>6. Extends(whole, original)
      BY <3>1, <3>2, <3>3, <3>4, <3>5 DEF Extends
    <3>. QED BY <2>4, <3>6 DEF whole
  <2>6. /\ front \o addition \in Seq(Lines)
        /\ ToSet(front) \subseteq ToSet(front \o addition)
        /\ ToSet(addition) \subseteq ToSet(front \o addition)
    BY <1>1, <2>3, ConcatFacts
  <2>7. CoversRecommended(front \o addition)
    <3>. SUFFICES ASSUME NEW l \in Entries
                  PROVE  Forms[l] \cap ToSet(front \o addition) # {}
      BY DEF CoversRecommended
    <3>1. CASE Forms[l] \cap ToSet(original) = {}
      BY <1>2, <1>3, <2>6, <3>1
    <3>2. CASE Forms[l] \cap ToSet(original) # {}
      <4>1. PICK x \in Forms[l] : x \in ToSet(original) \ {Blank}
        BY <1>3, <3>2
      <4>2. x \in ToSet(TrimEnd(original))
        BY <4>1, TrimFacts
      <4>. QED BY <2>3, <2>6, <4>2
    <3>. QED BY <3>1, <3>2
  <2>. QED BY <2>1, <2>5, <2>6, <2>7
<1>. QED BY <1>4, <1>5

\* addOrMergeGitIgnore run on its own result, as a second init does: no line
\* is added but comments and blank lines.
THEOREM RepeatAddsNoEntry ==
  ASSUME NEW original \in Seq(Lines)
  PROVE  LET merged == MergeIgnore(original)
         IN ToSet(MergeIgnore(merged)) \subseteq ToSet(merged) \cup Comments \cup {Blank}
<1>. DEFINE merged == MergeIgnore(original)
            addition ==
              Trim(SingleBlanks(WithoutEmptySections(MissingLines(merged)))) \o <<Blank>>
            front == TrimEnd(merged) \o <<Blank>>
<1>1. merged \in Seq(Lines) /\ CoversRecommended(merged)
  BY MergeFacts
<1>. HIDE DEF merged
<1>2. addition \in Seq(Lines) /\ ToSet(addition) \subseteq Comments \cup {Blank}
  <2>1. \A l \in ToSet(addition) :
          /\ l \in Comments \cup {Blank} \cup Entries
          /\ l \in Entries => Forms[l] \cap ToSet(merged) = {}
    BY <1>1, NeededAddition
  <2>2. addition \in Seq(Lines)
    BY <1>1, AdditionFacts
  <2>. HIDE DEF addition
  <2>. QED BY <1>1, <2>1, <2>2 DEF CoversRecommended
<1>3. /\ TrimEnd(merged) \in Seq(Lines)
      /\ ToSet(TrimEnd(merged)) \subseteq ToSet(merged) \cup {Blank}
  BY <1>1, TrimFacts, TrimAddsNothing
<1>4. <<Blank>> \in Seq(Lines) /\ ToSet(<<Blank>>) = {Blank}
  BY LinesAssumption DEF ToSet
<1>5. front \in Seq(Lines) /\ ToSet(front) \subseteq ToSet(merged) \cup {Blank}
  BY <1>3, <1>4, ConcatFacts, ConcatAddsNothing
<1>6. ToSet(front \o addition) \subseteq ToSet(merged) \cup Comments \cup {Blank}
  <2>. HIDE DEF front, addition
  <2>. QED BY <1>2, <1>5, ConcatAddsNothing
<1>7. MergeIgnore(merged) = IF merged = <<>> THEN addition ELSE front \o addition
  BY DEF MergeIgnore
<1>. QED BY <1>2, <1>6, <1>7 DEF merged
==============================================================================
