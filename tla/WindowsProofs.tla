--------------------------- MODULE WindowsProofs ---------------------------
(***************************************************************************)
(* Proof that windows lose no short entity, for texts of any length, any   *)
(* tokens, any profile of the configuration and any place of the entity,   *)
(* and that every step of an analysis brings it closer to its end.         *)
(***************************************************************************)
EXTENDS Windows, FiniteSetTheorems, TLAPS

-----------------------------------------------------------------------------
(***************************************************************************)
(* Arithmetic.                                                             *)
(***************************************************************************)

LEMMA SmallerFacts ==
    \A i, j \in Int : /\ Smaller(i, j) \in Int
                      /\ Smaller(i, j) <= i /\ Smaller(i, j) <= j
                      /\ Smaller(i, j) = i \/ Smaller(i, j) = j
BY DEF Smaller

LEMMA LargerFacts ==
    \A i, j \in Int : /\ Larger(i, j) \in Int
                      /\ i <= Larger(i, j) /\ j <= Larger(i, j)
                      /\ Larger(i, j) = i \/ Larger(i, j) = j
BY DEF Larger

LEMMA Halved ==
    \A n \in Nat : /\ n \div 2 \in Nat
                   /\ 2 * (n \div 2) <= n
                   /\ n <= 2 * (n \div 2) + 1
OBVIOUS

LEMMA MidpointFacts ==
    ASSUME NEW s \in Spans
    PROVE  /\ Midpoint(s) \in Nat
           /\ 2 * Midpoint(s) <= s.start + s.end
           /\ s.start + s.end <= 2 * Midpoint(s) + 1
<1>1. s.start + s.end \in Nat
    BY DEF Spans
<1> QED
    BY <1>1, Halved DEF Midpoint

\* A span a .. b whose midpoint m is owned (n <= m < q), and which is no longer
\* than twice the overlap o, reaches at most o beyond what is owned.
LEMMA OwnedReach ==
    ASSUME NEW a \in Int, NEW b \in Int, NEW m \in Int, NEW o \in Int,
           NEW n \in Int, NEW q \in Int,
           b - a <= 2 * o, 2 * m <= a + b, a + b <= 2 * m + 1,
           n <= m, m < q
    PROVE  n - o <= a /\ b <= q + o
OBVIOUS

\* A part c .. d of such a span, cut off at the edges n - o and q + o of the
\* window, has its midpoint p in what is owned only if the span has.
LEMMA CutReach ==
    ASSUME NEW a \in Int, NEW b \in Int, NEW m \in Int, NEW o \in Int,
           NEW n \in Int, NEW q \in Int,
           NEW c \in Int, NEW d \in Int, NEW p \in Int,
           b - a <= 2 * o, 2 * m <= a + b, a + b <= 2 * m + 1,
           2 * p <= c + d, c + d <= 2 * p + 1,
           a <= c, d <= b,
           c = a \/ c = n - o, d = b \/ d = q + o,
           n <= p, p < q
    PROVE  n <= m /\ m < q
<1>1. n <= m
  <2> SUFFICES ASSUME m < n PROVE FALSE
      OBVIOUS
  <2>1. CASE c = a
      BY <2>1
  <2>2. CASE c = n - o
      BY <2>2
  <2> QED
      BY <2>1, <2>2
<1>2. m < q
  <2> SUFFICES ASSUME q <= m PROVE FALSE
      OBVIOUS
  <2>1. CASE d = b
      BY <2>1
  <2>2. CASE d = q + o
      BY <2>2
  <2> QED
      BY <2>1, <2>2
<1> QED
    BY <1>1, <1>2

-----------------------------------------------------------------------------
(***************************************************************************)
(* Types.                                                                  *)
(***************************************************************************)

\* The numbers of the text, with what the arithmetic below needs of them.
LEMMA TextFacts ==
    ASSUME TypeOK
    PROVE  /\ entity = [start |-> entity.start, end |-> entity.end]
           /\ entity \in Spans
           /\ entity.start \in Nat /\ entity.end \in Nat
           /\ entity.start < entity.end /\ entity.end <= length
           /\ length \in Nat /\ count \in Nat /\ next \in Int
           /\ width \in Int /\ overlap \in Int
           /\ kind # "transformer" \/ width > 0 =>
                overlap \in Nat /\ overlap < width /\ width > 0
BY DEF TypeOK, Spans

\* What is found in a window is a span of the text.
LEMMA FindsSpans ==
    ASSUME TypeOK, NEW w, w.start \in Nat, w.end \in Int, NEW found \in Finds(w)
    PROVE  found \subseteq Spans
<1>1. entity \in Spans /\ entity.start \in Nat /\ entity.end \in Nat
    BY TextFacts
<1>2. CASE found = {entity} \/ found = {}
    BY <1>1, <1>2
<1>3. CASE Seen(w).start < Seen(w).end /\ found = {Seen(w)}
  <2>1. /\ Seen(w).start = Larger(w.start, entity.start)
        /\ Seen(w).end = Smaller(w.end, entity.end)
      BY DEF Seen
  <2>2. Seen(w).start \in Nat /\ Seen(w).end \in Int
      BY <1>1, <2>1 DEF Smaller, Larger
  <2>3. Seen(w).end \in Nat
      BY <1>3, <2>2
  <2>4. Seen(w) \in Spans
      BY <2>2, <2>3 DEF Seen, Spans
  <2> QED
      BY <1>3, <2>4
<1> QED
    BY <1>2, <1>3 DEF Finds

\* An offset is a place in the text.
LEMMA OffsetFacts ==
    ASSUME TypeOK
    PROVE  /\ \A i \in 0 .. count - 1 : offset[i] \in Nat /\ offset[i] < length
           /\ \A i, j \in 0 .. count - 1 : i <= j => offset[i] <= offset[j]
BY DEF TypeOK, Offsets

\* The local windows have room for their overlap.
LEMMA LocalWindows ==
    ASSUME NEW n \in ModelLengths
    PROVE  /\ LocalWidth(n) \in Int /\ LocalOverlap(n) \in Int
           /\ LocalWidth(n) > 0 => LocalOverlap(n) \in 0 .. LocalWidth(n) - 1
<1>1. n \in Nat /\ Reserve \in Nat /\ WindowCap \in Nat /\ OverlapCap \in Nat
    BY LimitsAreNumbers
<1>2. LocalWidth(n) \in Int
    BY <1>1, SmallerFacts DEF LocalWidth
<1>3. \A k \in Int : k \div 4 \in Int /\ (k > 0 => k \div 4 \in 0 .. k - 1)
    OBVIOUS
<1>4. LocalOverlap(n) \in Int
    BY <1>1, <1>2, <1>3, SmallerFacts DEF LocalOverlap
<1>5. ASSUME LocalWidth(n) > 0 PROVE LocalOverlap(n) \in 0 .. LocalWidth(n) - 1
  <2>1. LocalWidth(n) \div 4 \in 0 .. LocalWidth(n) - 1
      BY <1>2, <1>3, <1>5
  <2> QED
      BY <1>1, <1>2, <2>1 DEF LocalOverlap, Smaller
<1> QED
    BY <1>2, <1>4, <1>5

LEMMA InitInductive == Init => Inductive
<1> SUFFICES ASSUME Init PROVE Inductive
    OBVIOUS
<1>1. TypeOK
  <2>1. /\ length \in Nat /\ count \in Nat /\ offset \in Offsets(count, length)
        /\ entity \in Spans /\ entity.start < entity.end /\ entity.end <= length
      BY LimitsAreNumbers DEF Init, Texts, Spans
  <2>2. CASE /\ kind = "transformer"
             /\ \E n \in ModelLengths : width = LocalWidth(n) /\ overlap = LocalOverlap(n)
      BY <2>1, <2>2, LocalWindows DEF Init, TypeOK
  <2>3. CASE /\ kind \in {"spacy", "kserve"}
             /\ \E p \in SpacyProfiles \union KServeProfiles :
                  width = p.width /\ overlap = p.overlap
    <3>1. width \in Int /\ overlap \in Int /\ overlap \in 0 .. width - 1
        BY <2>3, ProfilesAreValid DEF Profiles
    <3> QED
        BY <2>1, <2>3, <3>1 DEF Init, TypeOK
  <2> QED
      BY <2>2, <2>3 DEF Init
<1>2. Midpoint(entity) \in Nat
    BY <1>1, TextFacts, MidpointFacts
<1>3. CharactersOK
    BY <1>1, <1>2, TextFacts DEF Init, CharactersOK
<1>4. TokensOK
    BY <1>1, TextFacts DEF Init, TokensOK, TokenWindowStart
<1> QED
    BY <1>1, <1>3, <1>4 DEF Init, Inductive, ShortEntitiesReported

-----------------------------------------------------------------------------
(***************************************************************************)
(* Windows of characters.                                                  *)
(***************************************************************************)

\* Of a short entity, a window reports all or nothing, and all of it if and
\* only if it owns the midpoint (PresidioSpacyAnalyzer.analyze).
LEMMA OwnedWindow ==
    ASSUME TypeOK, kind = "spacy", next >= 0, Short,
           NEW found \in Finds(CharacterWindow)
    PROVE  Owned(found) = IF next <= Midpoint(entity) /\ Midpoint(entity) < next + width
                          THEN {entity} ELSE {}
<1> DEFINE w == CharacterWindow
           m == Midpoint(entity)
<1>1. /\ entity.start \in Nat /\ entity.end \in Nat /\ entity \in Spans
      /\ entity.start < entity.end /\ entity.end <= length
      /\ length \in Nat /\ next \in Int /\ width \in Int
      /\ overlap \in Nat /\ overlap < width /\ width > 0
    BY TextFacts
<1>2. entity.end - entity.start <= 2 * overlap
    BY DEF Short
<1>3. m \in Nat /\ 2 * m <= entity.start + entity.end
      /\ entity.start + entity.end <= 2 * m + 1
    BY <1>1, MidpointFacts
<1>4. m < length
    BY <1>1, <1>3
<1>5. OwnedEnd \in Int /\ (m < OwnedEnd <=> m < next + width)
    BY <1>1, <1>3, <1>4 DEF OwnedEnd, Smaller
<1>6. /\ w.start = Larger(0, next - overlap)
      /\ w.end = Smaller(length, OwnedEnd + overlap)
    BY DEF CharacterWindow
<1>7. w.start \in Nat /\ w.end \in Int
    BY <1>1, <1>5, <1>6, SmallerFacts, LargerFacts
<1>8. next <= m /\ m < OwnedEnd => Whole(w)
  <2> SUFFICES ASSUME next <= m, m < OwnedEnd PROVE Whole(w)
      OBVIOUS
  <2>1. next - overlap <= entity.start /\ entity.end <= OwnedEnd + overlap
    <3> HIDE DEF m
    <3> QED
      BY <1>1, <1>2, <1>3, <1>5, OwnedReach
  <2> QED
      BY <1>1, <1>5, <1>6, <2>1 DEF Whole, Larger, Smaller
<1>9. CASE Whole(w)
  <2>1. found = {entity}
      BY <1>9 DEF Finds
  <2> QED
      BY <1>5, <2>1 DEF Owned
<1>10. CASE ~Whole(w)
  <2>1. ~(next <= m /\ m < next + width)
      BY <1>5, <1>8, <1>10
  <2>2. ASSUME NEW s \in found PROVE ~(next <= Midpoint(s) /\ Midpoint(s) < OwnedEnd)
    <3> DEFINE p == Midpoint(s)
    <3>1. s = Seen(w) /\ Seen(w).start < Seen(w).end
        BY <1>10, <2>2 DEF Finds
    <3>2. s \in Spans
        BY <1>7, <2>2, FindsSpans
    <3>3. /\ s.start \in Int /\ s.end \in Int
          /\ p \in Nat /\ 2 * p <= s.start + s.end /\ s.start + s.end <= 2 * p + 1
        BY <3>2, MidpointFacts DEF Spans
    <3>4. /\ s.start = Larger(w.start, entity.start)
          /\ s.end = Smaller(w.end, entity.end)
        BY <3>1 DEF Seen
    <3>5. /\ entity.start <= s.start
          /\ s.start = entity.start \/ s.start = next - overlap
        BY <1>1, <1>6, <3>4 DEF Larger
    <3>6. /\ s.end <= entity.end
          /\ s.end = entity.end \/ s.end = OwnedEnd + overlap
        BY <1>1, <1>5, <1>6, <3>4 DEF Smaller
    <3>7. ASSUME next <= p, p < OwnedEnd PROVE next <= m /\ m < OwnedEnd
      <4> HIDE DEF m, p
      <4>1. overlap \in Int /\ entity.start \in Int /\ entity.end \in Int
            /\ m \in Int /\ p \in Int
          BY <1>1, <1>3, <3>3
      <4> QED
          BY <1>1, <1>2, <1>3, <1>5, <3>3, <3>5, <3>6, <3>7, <4>1, CutReach
    <3> QED
        BY <1>5, <2>1, <3>7
  <2> QED
      BY <2>1, <2>2 DEF Owned
<1> QED
    BY <1>9, <1>10

\* An analysis in windows of characters that is over reported a short entity.
LEMMA CharactersDone ==
    TypeOK /\ CharactersOK /\ kind = "spacy" => ShortEntitiesReported
<1> SUFFICES ASSUME TypeOK, CharactersOK, kind = "spacy", outcome = "done", Short
             PROVE  results = {entity}
    BY DEF ShortEntitiesReported
<1>1. next >= length /\ results = IF Midpoint(entity) < next THEN {entity} ELSE {}
    BY DEF CharactersOK
<1>2. Midpoint(entity) \in Nat /\ 2 * Midpoint(entity) <= entity.start + entity.end
    BY TextFacts, MidpointFacts
<1>3. Midpoint(entity) < length
    BY <1>2, TextFacts
<1>4. Midpoint(entity) < next
    BY <1>1, <1>2, <1>3, TextFacts
<1> QED
    BY <1>1, <1>4

LEMMA SpacyInductive ==
    ASSUME Inductive, SpacyWindow
    PROVE  Inductive'
<1>0. TypeOK /\ CharactersOK
    BY DEF Inductive
<1>1. PICK found \in Finds(CharacterWindow) : results' = results \union Owned(found)
    BY DEF SpacyWindow
<1>2. /\ kind = "spacy" /\ UNCHANGED <<text, pending>>
      /\ next' = next + width
      /\ outcome' = IF next' < length THEN "running" ELSE "done"
    BY DEF SpacyWindow
<1>3. /\ next \in Int /\ width \in Int /\ width > 0 /\ length \in Nat /\ next >= 0
      /\ overlap \in Nat
    BY <1>0, <1>2, TextFacts DEF CharactersOK
<1>4. found \subseteq Spans
  <2>1. OwnedEnd \in Int
      BY <1>3 DEF OwnedEnd, Smaller
  <2>2. CharacterWindow.start \in Nat /\ CharacterWindow.end \in Int
      BY <1>3, <2>1 DEF CharacterWindow, Larger, Smaller
  <2> QED
      BY <1>0, <2>2, FindsSpans
<1>5. TypeOK'
    BY <1>0, <1>1, <1>2, <1>3, <1>4 DEF TypeOK, text, Owned
<1>6. CharactersOK'
  <2>1. next' >= 0 /\ (outcome' = "done" => next' >= length')
      BY <1>2, <1>3 DEF text
  <2>2. (Short' <=> Short) /\ Midpoint(entity)' = Midpoint(entity) /\ entity' = entity
      BY <1>2 DEF text, Short, Midpoint, TokensInside
  <2>3. ASSUME Short
        PROVE  results' = IF Midpoint(entity) < next' THEN {entity} ELSE {}
    <3>1. results = IF Midpoint(entity) < next THEN {entity} ELSE {}
        BY <1>0, <1>2, <2>3 DEF CharactersOK
    <3>2. Owned(found) = IF next <= Midpoint(entity) /\ Midpoint(entity) < next + width
                         THEN {entity} ELSE {}
        BY <1>0, <1>2, <1>3, <2>3, OwnedWindow
    <3>3. Midpoint(entity) \in Nat
        BY <1>0, TextFacts, MidpointFacts
    <3> QED
        BY <1>1, <1>2, <1>3, <3>1, <3>2, <3>3
  <2> QED
      BY <2>1, <2>2, <2>3 DEF CharactersOK
<1>7. (kind = "spacy")'
    BY <1>2 DEF text
<1>8. TokensOK'
    BY <1>7 DEF TokensOK
<1>9. ShortEntitiesReported'
    BY <1>5, <1>6, <1>7, CharactersDone, PTL
<1> QED
    BY <1>5, <1>6, <1>8, <1>9 DEF Inductive

-----------------------------------------------------------------------------
(***************************************************************************)
(* Windows of tokens.                                                      *)
(***************************************************************************)

\* An entity that begins in the window of tokens at next, and does not end in
\* it, begins no earlier than the window that follows: otherwise more tokens
\* than the overlap would start inside it (_chunks, token_chunks).
LEMMA NextTokenWindow ==
    ASSUME TypeOK, kind # "spacy", Short, width > 0,
           next \in Nat, ~LastTokenWindow,
           entity.end > offset[next + width]
    PROVE  offset[next + width - overlap] <= entity.start
<1>1. /\ count \in Nat /\ width \in Int /\ overlap \in Nat /\ overlap < width
      /\ entity.start \in Nat /\ entity.end \in Nat
    BY TextFacts
<1>2. Cardinality(TokensInside) <= overlap
    BY DEF Short
<1> DEFINE a == next + width - overlap
           b == next + width
<1>3. /\ a \in Nat /\ b \in Nat /\ a <= b /\ b < count
      /\ a \in 0 .. count - 1 /\ b \in 0 .. count - 1
      /\ a \in Int /\ b \in Int /\ b - a + 1 = overlap + 1
    BY <1>1 DEF LastTokenWindow
<1> SUFFICES ASSUME ~(offset[a] <= entity.start) PROVE FALSE
    OBVIOUS
<1>e. offset[b] < entity.end
    BY <1>1, <1>3, OffsetFacts
<1> HIDE DEF a, b
<1>4. ASSUME NEW i \in a .. b PROVE i \in TokensInside
  <2>1. i \in 0 .. count - 1 /\ a <= i /\ i <= b
      BY <1>1, <1>3
  <2>2. /\ offset[a] \in Nat /\ offset[i] \in Nat /\ offset[b] \in Nat
        /\ offset[a] <= offset[i] /\ offset[i] <= offset[b]
      BY <1>3, <2>1, OffsetFacts
  <2> QED
      BY <1>1, <1>e, <2>1, <2>2 DEF TokensInside
<1>5. IsFiniteSet(TokensInside)
  <2>1. TokensInside \in SUBSET (0 .. count - 1)
      BY DEF TokensInside
  <2>2. IsFiniteSet(0 .. count - 1)
      BY <1>1, FS_Interval
  <2> QED
      BY <2>1, <2>2, FS_Subset
<1>6. Cardinality(a .. b) <= Cardinality(TokensInside)
  <2>1. (a .. b) \in SUBSET TokensInside
      BY <1>4
  <2> QED
      BY <1>5, <2>1, FS_Subset
<1>7. Cardinality(a .. b) = overlap + 1
  <2>1. Cardinality(a .. b) = IF a > b THEN 0 ELSE b - a + 1
      BY <1>3, FS_Interval
  <2> QED
      BY <1>3, <2>1
<1>8. Cardinality(TokensInside) \in Nat
    BY <1>5, FS_CardinalityType
<1> QED
    BY <1>1, <1>2, <1>6, <1>7, <1>8

\* A window of tokens is a span of the text.
LEMMA TokenWindowSpan ==
    ASSUME TypeOK, kind # "spacy", width > 0, next = 0 \/ next \in 0 .. count - 1
    PROVE  /\ TokenWindow \in Spans
           /\ TokenWindow.start = TokenWindowStart
           /\ TokenWindow.end = IF LastTokenWindow THEN length
                                ELSE offset[next + width]
<1>1. count \in Nat /\ length \in Nat /\ width \in Int /\ next \in Nat
    BY TextFacts
<1>2. TokenWindowStart \in Nat
    BY <1>1, OffsetFacts DEF TokenWindowStart
<1>3. ~LastTokenWindow => next + width \in 0 .. count - 1
    BY <1>1 DEF LastTokenWindow
<1>4. (IF LastTokenWindow THEN length ELSE offset[next + width]) \in Nat
    BY <1>1, <1>3, OffsetFacts
<1> QED
    BY <1>2, <1>4 DEF TokenWindow, Spans

\* A short entity that begins in or after a window of tokens is in it, or
\* begins in or after the one that follows.
LEMMA TokenWindowStep ==
    ASSUME TypeOK, kind # "spacy", width > 0, next = 0 \/ next \in 0 .. count - 1,
           Short, TokenWindowStart <= entity.start
    PROVE  \/ Whole(TokenWindow)
           \/ ~LastTokenWindow /\ offset[next + width - overlap] <= entity.start
<1>1. /\ entity.start \in Nat /\ entity.end \in Nat /\ entity.end <= length
      /\ length \in Nat /\ width \in Int /\ count \in Nat /\ next \in Nat
    BY TextFacts
<1>2. /\ TokenWindow.start = TokenWindowStart
      /\ TokenWindow.end = IF LastTokenWindow THEN length ELSE offset[next + width]
    BY TokenWindowSpan
<1>3. CASE LastTokenWindow
    BY <1>1, <1>2, <1>3 DEF Whole
<1>4. CASE ~LastTokenWindow /\ entity.end <= offset[next + width]
    BY <1>1, <1>2, <1>4 DEF Whole
<1>5. CASE ~LastTokenWindow /\ ~(entity.end <= offset[next + width])
  <2>1. next + width \in 0 .. count - 1
      BY <1>1, <1>5 DEF LastTokenWindow
  <2>2. entity.end > offset[next + width]
      BY <1>1, <1>5, <2>1, OffsetFacts
  <2> QED
      BY <1>1, <1>5, <2>2, NextTokenWindow
<1> QED
    BY <1>3, <1>4, <1>5

\* The window that follows is one of the text.
LEMMA FollowingWindow ==
    ASSUME TypeOK, kind # "spacy", width > 0, next = 0 \/ next \in 0 .. count - 1,
           ~LastTokenWindow
    PROVE  /\ next + width - overlap \in 0 .. count - 1
           /\ next + width - overlap > 0
<1>1. /\ width \in Int /\ count \in Nat /\ next \in Nat
      /\ overlap \in Nat /\ overlap < width
    BY TextFacts
<1> QED
    BY <1>1 DEF LastTokenWindow

\* What does not depend on the progress of the analysis.
LEMMA TextKept ==
    ASSUME UNCHANGED text
    PROVE  /\ Short' <=> Short
           /\ \A w : Whole(w)' <=> Whole(w)
           /\ kind' = kind /\ width' = width /\ overlap' = overlap
           /\ length' = length /\ offset' = offset /\ count' = count
           /\ entity' = entity
BY DEF text, Short, TokensInside, Whole

LEMMA TypeKept ==
    ASSUME TypeOK, UNCHANGED text, next' \in Int, pending' \subseteq Spans,
           results' \subseteq Spans, outcome' \in {"running", "done", "error"}
    PROVE  TypeOK'
BY DEF TypeOK, text

LEMMA TransformerInductive ==
    ASSUME Inductive, TransformerWindow
    PROVE  Inductive'
<1>0. TypeOK /\ TokensOK
    BY DEF Inductive
<1>1. /\ kind = "transformer" /\ outcome = "running" /\ width > 0
      /\ UNCHANGED <<text, pending>>
      /\ next' = next + width - overlap
      /\ outcome' = IF LastTokenWindow THEN "done" ELSE "running"
    BY DEF TransformerWindow
<1>2. PICK found \in Finds(TokenWindow) : results' = results \union found
    BY DEF TransformerWindow
<1>3. /\ next = 0 \/ next \in 0 .. count - 1
      /\ pending = {}
      /\ Short => entity \in results \/ TokenWindowStart <= entity.start
    BY <1>0, <1>1 DEF TokensOK
<1>4. kind # "spacy"
    BY <1>1
<1>5. TokenWindow \in Spans
    BY <1>0, <1>1, <1>3, <1>4, TokenWindowSpan
<1>6. found \subseteq Spans
    BY <1>0, <1>5, FindsSpans DEF Spans
<1>7. TypeOK'
  <2>1. next' \in Int
      BY <1>0, <1>1, TextFacts
  <2>2. results' \subseteq Spans /\ pending' \subseteq Spans
      BY <1>0, <1>1, <1>2, <1>6 DEF TypeOK
  <2> QED
      BY <1>0, <1>1, <2>1, <2>2, TypeKept
<1>8. /\ Short' <=> Short
      /\ kind' = kind /\ width' = width /\ offset' = offset /\ count' = count
      /\ entity' = entity
    BY <1>1, TextKept
<1>9. ASSUME Short
      PROVE  \/ entity \in results'
             \/ ~LastTokenWindow /\ offset[next + width - overlap] <= entity.start
  <2>1. CASE entity \in results
      BY <1>2, <2>1
  <2>2. CASE TokenWindowStart <= entity.start
    <3>1. \/ Whole(TokenWindow)
          \/ ~LastTokenWindow /\ offset[next + width - overlap] <= entity.start
        BY <1>0, <1>1, <1>3, <1>4, <1>9, <2>2, TokenWindowStep
    <3>2. Whole(TokenWindow) => found = {entity}
        BY DEF Finds
    <3> QED
        BY <1>2, <3>1, <3>2
  <2> QED
      BY <1>3, <1>9, <2>1, <2>2
<1>10. TokensOK'
  <2> SUFFICES ASSUME ~LastTokenWindow PROVE TokensOK'
      BY <1>1 DEF TokensOK
  <2>1. next' \in 0 .. count' - 1 /\ next' > 0
      BY <1>0, <1>1, <1>3, <1>4, <1>8, FollowingWindow
  <2>2. TokenWindowStart' = offset[next + width - overlap]
      BY <1>1, <1>8, <2>1 DEF TokenWindowStart
  <2>3. Short' => entity' \in results' \/ TokenWindowStart' <= entity'.start
      BY <1>8, <1>9, <2>2
  <2> QED
      BY <1>1, <1>3, <2>1, <2>3 DEF TokensOK
<1>11. CharactersOK' /\ ShortEntitiesReported'
    BY <1>1, <1>8, <1>9 DEF CharactersOK, ShortEntitiesReported
<1> QED
    BY <1>7, <1>10, <1>11 DEF Inductive

LEMMA ListInductive ==
    ASSUME Inductive, ListWindow
    PROVE  Inductive'
<1>0. TypeOK /\ TokensOK
    BY DEF Inductive
<1>1. /\ kind = "kserve" /\ outcome = "running" /\ next >= 0
      /\ UNCHANGED <<text, results, outcome>>
      /\ pending' = pending \union {TokenWindow}
      /\ next' = IF LastTokenWindow THEN -1 ELSE next + width - overlap
    BY DEF ListWindow
<1>2. width > 0 /\ kind # "spacy"
    BY <1>0, <1>1, TextFacts
<1>3. /\ next = 0 \/ next \in 0 .. count - 1
      /\ Short => \/ entity \in results
                  \/ \E w \in pending : Whole(w)
                  \/ TokenWindowStart <= entity.start
    BY <1>0, <1>1, <1>2 DEF TokensOK
<1>4. TokenWindow \in Spans
    BY <1>0, <1>2, <1>3, TokenWindowSpan
<1>5. TypeOK'
  <2>1. next' \in Int
      BY <1>0, <1>1, TextFacts
  <2>2. results' \subseteq Spans /\ pending' \subseteq Spans
        /\ outcome' \in {"running", "done", "error"}
      BY <1>0, <1>1, <1>4 DEF TypeOK
  <2> QED
      BY <1>0, <1>1, <2>1, <2>2, TypeKept
<1>6. /\ Short' <=> Short
      /\ \A w : Whole(w)' <=> Whole(w)
      /\ kind' = kind /\ width' = width /\ offset' = offset /\ count' = count
      /\ entity' = entity
    BY <1>1, TextKept
<1>7. ASSUME Short
      PROVE  \/ entity \in results
             \/ \E w \in pending' : Whole(w)
             \/ ~LastTokenWindow /\ offset[next + width - overlap] <= entity.start
  <2>1. TokenWindowStart <= entity.start =>
          \/ Whole(TokenWindow)
          \/ ~LastTokenWindow /\ offset[next + width - overlap] <= entity.start
      BY <1>0, <1>2, <1>3, <1>7, TokenWindowStep
  <2> QED
      BY <1>1, <1>3, <1>7, <2>1
<1>8. ~LastTokenWindow => /\ next' \in 0 .. count' - 1 /\ next' > 0
                          /\ TokenWindowStart' = offset[next + width - overlap]
  <2> SUFFICES ASSUME ~LastTokenWindow
               PROVE  /\ next' \in 0 .. count' - 1 /\ next' > 0
                      /\ TokenWindowStart' = offset[next + width - overlap]
      OBVIOUS
  <2>1. next' \in 0 .. count' - 1 /\ next' > 0
      BY <1>0, <1>1, <1>2, <1>3, <1>6, FollowingWindow
  <2> QED
      BY <1>1, <1>6, <2>1 DEF TokenWindowStart
<1>9. TokensOK'
  <2>1. \/ next' = 0 \/ next' \in 0 .. count' - 1
        \/ kind' = "kserve" /\ next' = -1
      BY <1>1, <1>6, <1>8
  <2>2. Short' => \/ entity' \in results'
                  \/ \E w \in pending' : Whole(w)'
                  \/ next' >= 0 /\ TokenWindowStart' <= entity'.start
      BY <1>1, <1>6, <1>7, <1>8
  <2> QED
      BY <1>1, <1>6, <2>1, <2>2 DEF TokensOK
<1>10. CharactersOK' /\ ShortEntitiesReported'
    BY <1>1, <1>6 DEF CharactersOK, ShortEntitiesReported
<1> QED
    BY <1>5, <1>9, <1>10 DEF Inductive

\* Of two parts that overlap, one has all of a short entity (token_chunks).
LEMMA CutKeepsWhole ==
    ASSUME TypeOK, Short, kind = "kserve", NEW w \in Spans, Whole(w),
           NEW boundary \in Nat, CanCut(w, boundary)
    PROVE  \/ Whole([start |-> w.start, end |-> w.start + boundary])
           \/ Whole([start |-> w.start + boundary - CutOverlap, end |-> w.end])
<1>1. /\ w.start \in Nat /\ w.end \in Nat /\ CutOverlap \in Nat
      /\ entity.start \in Nat /\ entity.end \in Nat
    BY TextFacts, LimitsAreNumbers DEF Spans
<1>2. /\ w.start <= entity.start /\ entity.end <= w.end
      /\ entity.end - entity.start <= CutOverlap
    BY DEF Whole, Short
<1>3. CASE entity.end <= w.start + boundary
    BY <1>2, <1>3 DEF Whole
<1>4. CASE entity.end > w.start + boundary
  <2>1. w.start + boundary - CutOverlap <= entity.start
      BY <1>1, <1>2, <1>4
  <2> QED
      BY <1>2, <2>1 DEF Whole
<1> QED
    BY <1>1, <1>3, <1>4

LEMMA SendInductive ==
    ASSUME Inductive, NEW w \in pending, SendWindow(w)
    PROVE  Inductive'
<1>0. TypeOK /\ TokensOK /\ w \in Spans
    BY DEF Inductive, TypeOK
<1>1. /\ kind = "kserve" /\ outcome = "running" /\ next < 0
      /\ UNCHANGED <<text, next>>
      /\ pending' = pending \ {w}
      /\ outcome' = IF pending' = {} THEN "done" ELSE "running"
    BY DEF SendWindow
<1>2. PICK found \in Finds(w) : results' = results \union found
    BY DEF SendWindow
<1>3. next \in Int /\ width > 0 /\ count \in Nat
    BY <1>0, <1>1, TextFacts
<1>4. /\ next = -1
      /\ Short => entity \in results \/ \E v \in pending : Whole(v)
    BY <1>0, <1>1, <1>3 DEF TokensOK
<1>5. found \subseteq Spans
    BY <1>0, FindsSpans DEF Spans
<1>6. TypeOK'
  <2>1. /\ next' \in Int /\ results' \subseteq Spans /\ pending' \subseteq Spans
        /\ outcome' \in {"running", "done", "error"}
      BY <1>0, <1>1, <1>2, <1>3, <1>5 DEF TypeOK
  <2> QED
      BY <1>0, <1>1, <2>1, TypeKept
<1>7. /\ Short' <=> Short
      /\ \A v : Whole(v)' <=> Whole(v)
      /\ kind' = kind /\ entity' = entity
    BY <1>1, TextKept
<1>8. Short => entity \in results' \/ \E v \in pending' : Whole(v)
  <2>1. Whole(w) => found = {entity}
      BY DEF Finds
  <2> QED
      BY <1>1, <1>2, <1>4, <2>1
<1>9. TokensOK'
    BY <1>1, <1>4, <1>7, <1>8 DEF TokensOK
<1>10. CharactersOK' /\ ShortEntitiesReported'
    BY <1>1, <1>7, <1>8 DEF CharactersOK, ShortEntitiesReported
<1> QED
    BY <1>6, <1>9, <1>10 DEF Inductive

LEMMA CutInductive ==
    ASSUME Inductive, NEW w \in pending, NEW boundary \in 1 .. w.end - w.start,
           CutWindow(w, boundary)
    PROVE  Inductive'
<1> DEFINE left == [start |-> w.start, end |-> w.start + boundary]
           right == [start |-> w.start + boundary - CutOverlap, end |-> w.end]
<1>0. TypeOK /\ TokensOK /\ w \in Spans
    BY DEF Inductive, TypeOK
<1>1. /\ kind = "kserve" /\ outcome = "running" /\ next < 0
      /\ CanCut(w, boundary)
      /\ pending' = (pending \ {w}) \union {left, right}
      /\ UNCHANGED <<text, next, results, outcome>>
    BY DEF CutWindow
<1>2. /\ w.start \in Nat /\ w.end \in Nat /\ CutOverlap \in Nat
      /\ next \in Int /\ width > 0 /\ count \in Nat
    BY <1>0, <1>1, TextFacts, LimitsAreNumbers DEF Spans
<1>3. boundary \in Nat /\ CutOverlap < boundary
    BY <1>1, <1>2 DEF CanCut
<1>4. left \in Spans /\ right \in Spans
  <2>1. w.start + boundary \in Nat /\ w.start + boundary - CutOverlap \in Nat
      BY <1>2, <1>3
  <2> QED
      BY <1>2, <2>1 DEF Spans
<1>5. /\ next = -1
      /\ Short => entity \in results \/ \E v \in pending : Whole(v)
    BY <1>0, <1>1, <1>2 DEF TokensOK
<1>6. Short /\ Whole(w) => Whole(left) \/ Whole(right)
    BY <1>0, <1>1, <1>3, CutKeepsWhole
<1> HIDE DEF left, right
<1>7. TypeOK'
  <2>1. /\ next' \in Int /\ results' \subseteq Spans /\ pending' \subseteq Spans
        /\ outcome' \in {"running", "done", "error"}
      BY <1>0, <1>1, <1>2, <1>4 DEF TypeOK
  <2> QED
      BY <1>0, <1>1, <2>1, TypeKept
<1>8. /\ Short' <=> Short
      /\ \A v : Whole(v)' <=> Whole(v)
      /\ kind' = kind /\ entity' = entity
    BY <1>1, TextKept
<1>9. Short => entity \in results' \/ \E v \in pending' : Whole(v)
    BY <1>1, <1>5, <1>6
<1>10. TokensOK'
    BY <1>1, <1>5, <1>8, <1>9 DEF TokensOK
<1>11. CharactersOK' /\ ShortEntitiesReported'
    BY <1>1, <1>8 DEF CharactersOK, ShortEntitiesReported
<1> QED
    BY <1>7, <1>10, <1>11 DEF Inductive

\* An analysis that fails reports nothing.
LEMMA FailInductive ==
    ASSUME Inductive, outcome' = "error", UNCHANGED <<text, next, pending, results>>
    PROVE  Inductive'
<1>0. TypeOK /\ CharactersOK
    BY DEF Inductive
<1>1. TypeOK'
    BY <1>0, TypeKept DEF TypeOK
<1>2. TokensOK' /\ ShortEntitiesReported'
    BY DEF TokensOK, ShortEntitiesReported
<1>3. CharactersOK'
    BY <1>0, TextKept DEF CharactersOK, Midpoint
<1> QED
    BY <1>1, <1>2, <1>3 DEF Inductive

LEMMA NextInductive == Inductive /\ [Next]_vars => Inductive'
<1> SUFFICES ASSUME Inductive, [Next]_vars PROVE Inductive'
    OBVIOUS
<1>1. CASE UNCHANGED vars
  <2>1. UNCHANGED <<text, next, pending, results, outcome>>
      BY <1>1 DEF vars
  <2>2. /\ TypeOK /\ CharactersOK /\ TokensOK /\ ShortEntitiesReported
      BY DEF Inductive
  <2>3. TypeOK'
      BY <2>1, <2>2, TypeKept DEF TypeOK
  <2>4. CharactersOK' /\ ShortEntitiesReported'
      BY <2>1, <2>2, TextKept DEF CharactersOK, ShortEntitiesReported, Midpoint
  <2>5. TokensOK'
      BY <2>1, <2>2, TextKept DEF TokensOK, TokenWindowStart
  <2> QED
      BY <2>3, <2>4, <2>5 DEF Inductive
<1>2. CASE SpacyWindow
    BY <1>2, SpacyInductive
<1>3. CASE TransformerWindow
    BY <1>3, TransformerInductive
<1>4. CASE ListWindow
    BY <1>4, ListInductive
<1>5. ASSUME NEW w \in pending, SendWindow(w) PROVE Inductive'
    BY <1>5, SendInductive
<1>6. ASSUME NEW w \in pending, NEW boundary \in 1 .. w.end - w.start,
             CutWindow(w, boundary)
      PROVE  Inductive'
    BY <1>6, CutInductive
<1>7. CASE \/ ContextInvalid \/ DetectFails
           \/ \E w \in pending : \E boundary \in 1 .. w.end - w.start :
                CutFails(w, boundary)
  <2>1. outcome' = "error" /\ UNCHANGED <<text, next, pending, results>>
      BY <1>7 DEF ContextInvalid, DetectFails, CutFails
  <2> QED
      BY <2>1, FailInductive
<1> QED
    BY <1>1, <1>2, <1>3, <1>4, <1>5, <1>6, <1>7 DEF Next

\* What is known of the entity at every point of the three loops.
THEOREM InductiveHolds == Spec => []Inductive
BY InitInductive, NextInductive, PTL DEF Spec

\* Windows lose no short entity, wherever it lies and whatever the sizes of the
\* windows and their overlaps are (_baseline_chunks, _chunks, token_chunks and
\* the loops of their callers).
THEOREM ShortEntitiesAreReported == Spec => []ShortEntitiesReported
<1>1. Inductive => ShortEntitiesReported
    BY DEF Inductive
<1> QED
    BY <1>1, InductiveHolds, PTL

-----------------------------------------------------------------------------
(***************************************************************************)
(* Why an analysis ends.                                                   *)
(***************************************************************************)

Extent(w) == w.end - w.start

\* The next window begins further on and still in the text, or token_chunks has
\* listed the last one.
Onward ==
    /\ next >= 0
    /\ \/ next < next' /\ next' < IF kind = "spacy" THEN length ELSE count
       \/ kind = "kserve" /\ next' = -1

\* A listed window is gone, and what came in its place is shorter than it.
Shortened ==
    /\ next < 0 /\ next' = next
    /\ \E w \in pending :
         /\ w \notin pending'
         /\ \A v \in pending' \ pending : Extent(v) \in Nat /\ Extent(v) < Extent(w)

\* Every step ends the analysis, moves on in the text, or replaces a window by
\* shorter ones.  None of the three can go on forever: the text is finite, and
\* so is a set of windows with parts of ever smaller natural extent.
AnalysisAdvances ==
    /\ outcome = "running"
    /\ outcome' # "running" \/ Onward \/ Shortened

LEMMA SpacyAdvances ==
    ASSUME Inductive, SpacyWindow
    PROVE  AnalysisAdvances
<1>1. /\ kind = "spacy" /\ outcome = "running" /\ next >= 0 /\ next \in Int
      /\ width \in Int /\ width > 0 /\ length \in Nat
    BY DEF Inductive, TypeOK, CharactersOK, SpacyWindow
<1>2. next' = next + width /\ (outcome' = IF next' < length THEN "running" ELSE "done")
    BY DEF SpacyWindow
<1> QED
    BY <1>1, <1>2 DEF AnalysisAdvances, Onward

\* From one window of tokens to the next.
LEMMA TokensAdvance ==
    ASSUME Inductive, kind # "spacy", width > 0, outcome = "running", next >= 0,
           ~LastTokenWindow, next' = next + width - overlap
    PROVE  Onward
<1>1. /\ TypeOK /\ next \in Int /\ width \in Int /\ count \in Nat
      /\ overlap \in Int /\ overlap < width
    BY TextFacts DEF Inductive, TypeOK
<1>2. next = 0 \/ next \in 0 .. count - 1
    BY <1>1 DEF Inductive, TokensOK
<1>3. next + width - overlap \in 0 .. count - 1
    BY <1>1, <1>2, FollowingWindow
<1> QED
    BY <1>1, <1>3 DEF Onward

LEMMA TransformerAdvances ==
    ASSUME Inductive, TransformerWindow
    PROVE  AnalysisAdvances
<1>1. /\ kind = "transformer" /\ outcome = "running" /\ width > 0
      /\ next' = next + width - overlap
      /\ outcome' = IF LastTokenWindow THEN "done" ELSE "running"
    BY DEF TransformerWindow
<1>2. next >= 0
    BY <1>1 DEF Inductive, TypeOK, TokensOK
<1>3. CASE LastTokenWindow
    BY <1>1, <1>3 DEF AnalysisAdvances
<1>4. CASE ~LastTokenWindow
    BY <1>1, <1>2, <1>4, TokensAdvance DEF AnalysisAdvances
<1> QED
    BY <1>3, <1>4

LEMMA ListAdvances ==
    ASSUME Inductive, ListWindow
    PROVE  AnalysisAdvances
<1>1. /\ kind = "kserve" /\ outcome = "running" /\ next >= 0
      /\ next' = IF LastTokenWindow THEN -1 ELSE next + width - overlap
    BY DEF ListWindow
<1>2. width > 0
    BY <1>1 DEF Inductive, TypeOK
<1>3. CASE LastTokenWindow
    BY <1>1, <1>3 DEF AnalysisAdvances, Onward
<1>4. CASE ~LastTokenWindow
    BY <1>1, <1>2, <1>4, TokensAdvance DEF AnalysisAdvances
<1> QED
    BY <1>3, <1>4

LEMMA SendAdvances ==
    ASSUME NEW w \in pending, SendWindow(w)
    PROVE  AnalysisAdvances
<1>1. /\ outcome = "running" /\ next < 0 /\ next' = next
      /\ w \notin pending' /\ pending' \ pending = {}
    BY DEF SendWindow
<1> QED
    BY <1>1 DEF AnalysisAdvances, Shortened

\* Both parts of a window that can be cut are shorter than it.
LEMMA CutAdvances ==
    ASSUME Inductive, NEW w \in pending, NEW boundary \in 1 .. w.end - w.start,
           CutWindow(w, boundary)
    PROVE  AnalysisAdvances
<1> DEFINE left == [start |-> w.start, end |-> w.start + boundary]
           right == [start |-> w.start + boundary - CutOverlap, end |-> w.end]
<1>1. w.start \in Nat /\ w.end \in Nat /\ CutOverlap \in Nat
    BY LimitsAreNumbers DEF Inductive, TypeOK, Spans
<1>2. /\ outcome = "running" /\ next < 0 /\ next' = next
      /\ CutOverlap < boundary /\ boundary < w.end - w.start
      /\ pending' = (pending \ {w}) \union {left, right}
    BY DEF CutWindow, CanCut
<1>3. Extent(left) = boundary /\ Extent(right) = (w.end - w.start) - (boundary - CutOverlap)
    BY <1>1 DEF Extent
<1>4. /\ Extent(left) \in Nat /\ Extent(left) < Extent(w)
      /\ Extent(right) \in Nat /\ Extent(right) < Extent(w)
    BY <1>1, <1>2, <1>3 DEF Extent
<1>5. Extent(w) \in Int
    BY <1>1 DEF Extent
<1> HIDE DEF left, right
<1>6. w # left /\ w # right
    BY <1>4, <1>5
<1>7. w \notin pending'
    BY <1>2, <1>6
<1>8. \A v \in pending' \ pending : v \in {left, right}
    BY <1>2
<1>9. \A v \in pending' \ pending : Extent(v) \in Nat /\ Extent(v) < Extent(w)
    BY <1>4, <1>8
<1>10. Shortened
    BY <1>2, <1>7, <1>9 DEF Shortened
<1> QED
    BY <1>2, <1>10 DEF AnalysisAdvances

\* An analysis goes on to its end whatever the tokenizer makes of its windows
\* and their parts (_baseline_chunks, _chunks, token_chunks): CuttingEnds
\* without the fairness that makes the steps happen.
THEOREM AnalysisAlwaysAdvances == Spec => [][AnalysisAdvances]_vars
<1>1. Inductive /\ [Next]_vars => [AnalysisAdvances]_vars
  <2> SUFFICES ASSUME Inductive, Next PROVE AnalysisAdvances
      OBVIOUS
  <2>1. CASE \/ ContextInvalid \/ DetectFails
             \/ \E w \in pending : \E boundary \in 1 .. w.end - w.start :
                  CutFails(w, boundary)
      BY <2>1 DEF ContextInvalid, DetectFails, CutFails, AnalysisAdvances
  <2> QED
      BY <2>1, SpacyAdvances, TransformerAdvances, ListAdvances, SendAdvances, CutAdvances
      DEF Next
<1> QED
    BY <1>1, InductiveHolds, PTL DEF Spec

=============================================================================
