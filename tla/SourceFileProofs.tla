-------------------------- MODULE SourceFileProofs --------------------------
(***************************************************************************)
(* What TLAPS proves of the scanner, the scores and the drafts, for texts  *)
(* of every length, over every set of lines and files.                     *)
(***************************************************************************)
EXTENDS SourceFile, FiniteSetTheorems, WellFoundedInduction, TLAPS

\* A draft is what the transformation made of a text it accepted.
DraftedFrom ==
    \/ draft = NoDraft
    \/ \E t \in Seq(Line) :
           /\ Len(t) <= MaxLines /\ Accepted(t)
           /\ draft = [of |-> t, to |-> Patched(t), hash |-> [text |-> t, crlf |-> FALSE]]

SourceInv == TypeOK /\ DraftedFrom

(***************************************************************************)
(* Texts.                                                                  *)
(***************************************************************************)
LEMMA OverwrittenType ==
    ASSUME NEW line \in Line
    PROVE  Overwritten(line) \in Line
  BY DEF Overwritten, Line, Naive, DateCall, BugPattern, Imported, WithTimezone

LEMMA TimezoneType ==
    ASSUME NEW line \in Line, line.is = "import"
    PROVE  [line EXCEPT !.of = "datetime,timezone"] \in Line
  <1>1. "datetime,timezone" \in Imported
    BY Zenon DEF Imported, WithTimezone
  <1>2. line \in [is : {"import"}, of : Imported, deep : BOOLEAN]
    BY DEF Line, BugPattern
  <1> QED BY <1>1, <1>2 DEF Line

LEMMA PatchedType ==
    ASSUME NEW t \in Seq(Line), ImportsTimezone(t) \/ ImportIsSimple(t)
    PROVE  Patched(t) \in Seq(Line) /\ Len(Patched(t)) = Len(t) /\ DOMAIN Patched(t) = DOMAIN t
  <1>1. DOMAIN t = 1..Len(t) /\ Len(t) \in Nat
    OBVIOUS
  <1>2. ASSUME NEW i \in DOMAIN t PROVE Patched(t)[i] \in Line
    <2>1. t[i] \in Line
      OBVIOUS
    <2>2. Overwritten(t[i]) \in Line
      BY <2>1, OverwrittenType
    <2>3. ASSUME ~ImportsTimezone(t), i = LineOfPiece(t, ImportLine(t))
          PROVE  [t[i] EXCEPT !.of = "datetime,timezone"] \in Line
      BY <2>1, <2>3, TimezoneType DEF ImportIsSimple
    <2> QED BY <2>1, <2>2, <2>3 DEF Patched
  <1>3. DOMAIN Patched(t) = 1..Len(t) /\ Patched(t) = [i \in 1..Len(t) |-> Patched(t)[i]]
    BY <1>1 DEF Patched
  <1>4. Patched(t) \in [1..Len(t) -> Line]
    BY <1>1, <1>2, <1>3
  <1> QED BY <1>1, <1>4

\* Where the lines of a text are after one was inserted.
LEMMA Inserted ==
    ASSUME NEW t \in Seq(Line), NEW i \in 1..(Len(t) + 1), NEW line \in Line
    PROVE  /\ InsertAt(t, i, line) \in Seq(Line)
           /\ Len(InsertAt(t, i, line)) = Len(t) + 1
           /\ InsertAt(t, i, line)[i] = line
           /\ \A j \in 1..Len(t) : InsertAt(t, i, line)[IF j < i THEN j ELSE j + 1] = t[j]
  <1> DEFINE left == SubSeq(t, 1, i - 1)
             right == SubSeq(t, i, Len(t))
             upto == left \o <<line>>
  <1>1. left \in Seq(Line) /\ Len(left) = i - 1 /\ \A j \in 1..(i - 1) : left[j] = t[j]
    OBVIOUS
  <1>2. /\ right \in Seq(Line) /\ Len(right) = Len(t) - i + 1
        /\ \A k \in 1..(Len(t) - i + 1) : right[k] = t[i + k - 1]
    OBVIOUS
  <1>3. InsertAt(t, i, line) = upto \o right
    BY DEF InsertAt
  <1> HIDE DEF left, right
  <1>4. /\ upto \in Seq(Line) /\ Len(upto) = i
        /\ upto[i] = line /\ \A j \in 1..(i - 1) : upto[j] = t[j]
    BY <1>1
  <1> HIDE DEF upto
  <1>5. /\ upto \o right \in Seq(Line) /\ Len(upto \o right) = Len(t) + 1
        /\ \A j \in 1..i : (upto \o right)[j] = upto[j]
        /\ \A k \in 1..(Len(t) - i + 1) : (upto \o right)[i + k] = right[k]
    BY <1>2, <1>4
  <1>6. ASSUME NEW j \in 1..Len(t), ~(j < i)
        PROVE  (upto \o right)[j + 1] = t[j]
    <2>1. j - i + 1 \in 1..(Len(t) - i + 1) /\ i + (j - i + 1) = j + 1 /\ i + (j - i + 1) - 1 = j
      BY <1>6
    <2> QED BY <1>2, <1>5, <2>1
  <1> QED BY <1>3, <1>4, <1>5, <1>6

(***************************************************************************)
(* Types.                                                                  *)
(***************************************************************************)
LEMMA InitHolds == Init => SourceInv
  BY SourceFileAssumption DEF Init, SourceInv, TypeOK, DraftedFrom, NoDraft

LEMMA SourceStep == SourceInv /\ [Next]_vars => SourceInv'
  <1> SUFFICES ASSUME SourceInv, [Next]_vars PROVE SourceInv'
    OBVIOUS
  <1> USE DEF SourceInv
  <1>1. ASSUME NEW i \in 1..(Len(text) + 1), NEW line \in PyLine \cup JsLine, Insert(i, line)
        PROVE  SourceInv'
    <2>1. text \in Seq(Line) /\ line \in Line
      BY <1>1, SourceFileAssumption DEF TypeOK
    <2>2. text' \in Seq(Line) /\ Len(text') <= MaxLines
      <3>1. text' = InsertAt(text, i, line) /\ Len(text) < MaxLines
        BY <1>1 DEF Insert
      <3>2. text' \in Seq(Line) /\ Len(text') = Len(text) + 1
        BY <2>1, <3>1, Inserted
      <3> QED BY <2>1, <3>1, <3>2, SourceFileAssumption
    <2>3. UNCHANGED <<file, draft>>
      BY <1>1 DEF Insert
    <2>4. TypeOK'
      BY <2>2, <2>3 DEF TypeOK
    <2>5. DraftedFrom'
      BY <2>3 DEF DraftedFrom, Accepted
    <2> QED BY <2>4, <2>5
  <1>2. CASE Draft
    <2>1. text \in Seq(Line) /\ Len(text) <= MaxLines /\ Accepted(text)
      BY <1>2 DEF Draft, TypeOK
    <2>2. draft' = [of |-> text, to |-> Patched(text), hash |-> [text |-> text, crlf |-> FALSE]]
      BY <1>2 DEF Draft
    <2>3. UNCHANGED <<file, text>>
      BY <1>2 DEF Draft
    <2>4. Patched(text) \in Seq(Line) /\ Len(Patched(text)) = Len(text)
      BY <2>1, PatchedType DEF Accepted
    <2>5. TypeOK'
      BY <2>1, <2>2, <2>3, <2>4 DEF TypeOK
    <2>6. DraftedFrom'
      BY <2>1, <2>2, <2>3 DEF DraftedFrom, Accepted
    <2> QED BY <2>5, <2>6
  <1>3. CASE Apply
    <2>1. text' = draft.to /\ UNCHANGED <<file, draft>>
      BY <1>3 DEF Apply
    <2>2. TypeOK'
      BY <2>1 DEF TypeOK
    <2>3. DraftedFrom'
      BY <2>1 DEF DraftedFrom, Accepted
    <2> QED BY <2>2, <2>3
  <1>4. CASE UNCHANGED vars
    BY <1>4 DEF vars, TypeOK, DraftedFrom, Accepted
  <1> QED BY <1>1, <1>2, <1>3, <1>4 DEF Next

LEMMA SourceInvariant == Spec => []SourceInv
  BY InitHolds, SourceStep, PTL DEF Spec

(***************************************************************************)
(* Scores.                                                                 *)
(***************************************************************************)
LEMMA ScoreGrows ==
    ASSUME NEW S, NEW T, S \subseteq T, NEW test \in BOOLEAN, NEW nearby \in BOOLEAN
    PROVE  /\ TimezoneScore(S, test, nearby) \in Nat
           /\ TimezoneScore(S, test, nearby) <= TimezoneScore(T, test, nearby)
  BY DEF TimezoneScore

LEMMA NearbyType == Nearby \in BOOLEAN
  BY DEF Nearby, HasNearbyTest

\* What of a signal brings a score above the penalty of a test file.
LEMMA Dropped ==
    ASSUME NEW S, NEW test \in BOOLEAN, NEW nearby \in BOOLEAN,
           S \cap TimeSignal # {}, TimezoneScore(S, test, nearby) = 0
    PROVE  /\ test /\ nearby
           /\ S \cap {"datetime.now()", "datetime.utcnow()", "date.today()", "comparison", "keyword"} = {}
           /\ \A x, y \in S \cap TimeSignal : x = y
  <1> DEFINE w(s, n) == IF s \in S THEN n ELSE 0
             sum == w("import", 10) + w("datetime.now()", 25) + w("datetime.utcnow()", 35)
                    + w("date.today()", 30) + w("datetime(...)", 20) + w("replace(tzinfo=...)", 20)
                    + w("comparison", 30) + w("new_Date()", 25) + w("Date.now()", 20)
                    + w("Date.parse(...)", 25) + w("new_Date(YYYY-MM-DD)", 35) + w("getDate()", 20)
                    + w("keyword", 20) + (IF test THEN -20 ELSE 10) + (IF nearby THEN 0 ELSE 20)
  <1>1. sum <= 0
    BY DEF TimezoneScore
  <1>2. \E s \in {"import", "datetime.now()", "datetime.utcnow()", "date.today()", "datetime(...)",
                 "replace(tzinfo=...)", "comparison", "new_Date()", "Date.now()", "Date.parse(...)",
                 "new_Date(YYYY-MM-DD)", "getDate()"} : s \in S
    BY DEF TimeSignal, Naive, DateCall
  <1>3. test /\ nearby
    BY <1>1, <1>2
  <1>4. S \cap {"datetime.now()", "datetime.utcnow()", "date.today()", "comparison", "keyword"} = {}
    BY <1>1, <1>2
  <1>5. ASSUME NEW x \in S \cap TimeSignal, NEW y \in S \cap TimeSignal, x # y
        PROVE  FALSE
    BY <1>1, <1>5 DEF TimeSignal, Naive, DateCall
  <1> QED BY <1>3, <1>4, <1>5

LEMMA WeakDropped == TypeOK => DroppedAreWeak
  <1> DEFINE S == SignalsNow
             time == S \cap TimeSignal
             score == TimezoneScore(S, file.test, Nearby)
  <1> SUFFICES ASSUME TypeOK, time # {},
                      ~\E r \in Risks(S, file.test, Nearby) : r.type = "timezone_boundary"
               PROVE  /\ file.test /\ Nearby
                      /\ Cardinality(time) = 1
                      /\ S \cap {"datetime.now()", "datetime.utcnow()", "date.today()", "comparison", "keyword"} = {}
    BY DEF DroppedAreWeak
  <1>t. file.test \in BOOLEAN
    BY SourceFileAssumption DEF TypeOK
  <1> HIDE DEF S
  <1>1. score = 0
    <2> SUFFICES ASSUME score > 0 PROVE FALSE
      BY <1>t, NearbyType, ScoreGrows
    <2>1. [type |-> "timezone_boundary", score |-> score, confidence |-> Confidence(score, S)]
              \in Risks(S, file.test, Nearby)
      BY DEF Risks
    <2> QED BY <2>1
  <1>2. /\ file.test /\ Nearby
        /\ S \cap {"datetime.now()", "datetime.utcnow()", "date.today()", "comparison", "keyword"} = {}
        /\ \A x, y \in time : x = y
    BY <1>1, <1>t, NearbyType, Dropped
  <1>3. Cardinality(time) = 1
    <2>1. PICK x \in time : TRUE
      OBVIOUS
    <2>2. time = {x}
      BY <1>2, <2>1
    <2> QED BY <2>2, FS_Singleton
  <1> QED BY <1>2, <1>3

\* A set of numbers that is not empty has a least one.
LEMMA LeastNumber ==
    ASSUME NEW T \in SUBSET Nat, T # {}
    PROVE  Min(T) \in T /\ \A n \in T : Min(T) <= n
  <1> DEFINE Less == {ss \in Nat \X Nat : ss[1] < ss[2]}
  <1>1. IsWellFoundedOn(Less, Nat)
    BY NatLessThanWellFounded DEF OpToRel
  <1> HIDE DEF Less
  <1>2. PICK x \in T : \A y \in T : <<y, x>> \notin Less
    BY <1>1, WFMin
  <1>3. ASSUME NEW y \in T PROVE x <= y
    <2>1. <<y, x>> \notin Less
      BY <1>2
    <2>2. ~(y < x)
      BY <2>1 DEF Less
    <2> QED BY <2>2
  <1> QED BY <1>3 DEF Min

\* And a greatest one, if it is bounded.
LEMMA LargestNumber ==
    ASSUME NEW N \in Nat, NEW T \in SUBSET (1..N), T # {}
    PROVE  Max(T) \in T
  <1> DEFINE D == {N - n : n \in T}
  <1>1. D \in SUBSET Nat /\ D # {}
    <2>1. ASSUME NEW n \in T PROVE N - n \in Nat
      <3>1. n \in 1..N
        OBVIOUS
      <3> QED BY <3>1
    <2>2. PICK n \in T : TRUE
      OBVIOUS
    <2>3. N - n \in D
      OBVIOUS
    <2> QED BY <2>1, <2>3
  <1> HIDE DEF D
  <1>2. Min(D) \in D /\ \A d \in D : Min(D) <= d
    BY <1>1, LeastNumber
  <1>3. PICK x \in T : Min(D) = N - x
    BY <1>2 DEF D
  <1>4. ASSUME NEW n \in T PROVE x >= n
    <2>1. N - n \in D
      BY DEF D
    <2>2. N - x <= N - n
      BY <1>2, <1>3, <2>1
    <2> QED BY <2>2
  <1> QED BY <1>4 DEF Max

(***************************************************************************)
(* Lines and pieces.                                                       *)
(***************************************************************************)
Width(t, i) == IF t[i].is = "separator" THEN 1 ELSE 0
First(t, i) == i + Separators(t, i)

LEMMA SeparatorsType ==
    ASSUME NEW t, NEW i \in Nat
    PROVE  /\ Separators(t, i) \in Nat
           /\ Separators(t, i) = 0 => \A j \in 1..(i - 1) : t[j].is # "separator"
           /\ Separators(t, 1) = 0
  <1> DEFINE before == {j \in 1..(i - 1) : t[j].is = "separator"}
  <1>1. IsFiniteSet(before)
    <2>1. IsFiniteSet(1..(i - 1))
      BY FS_Interval
    <2> QED BY <2>1, FS_Subset
  <1>2. Cardinality(before) \in Nat /\ (Cardinality(before) = 0 => before = {})
    BY <1>1, FS_CardinalityType, FS_EmptySet
  <1>3. {j \in 1..(1 - 1) : t[j].is = "separator"} = {}
    OBVIOUS
  <1> QED BY <1>2, <1>3, FS_EmptySet DEF Separators

LEMMA SeparatorsNext ==
    ASSUME NEW t, NEW i \in Nat \ {0}
    PROVE  Separators(t, i + 1) = Separators(t, i) + Width(t, i)
  <1> DEFINE before(n) == {j \in 1..(n - 1) : t[j].is = "separator"}
  <1>1. IsFiniteSet(before(i)) /\ i \notin before(i)
    <2>1. IsFiniteSet(1..(i - 1))
      BY FS_Interval
    <2>2. before(i) \subseteq 1..(i - 1) /\ i \notin 1..(i - 1)
      OBVIOUS
    <2> QED BY <2>1, <2>2, FS_Subset
  <1>2. CASE t[i].is = "separator"
    <2>1. before(i + 1) = before(i) \cup {i}
      BY <1>2
    <2>2. Cardinality(before(i) \cup {i}) = Cardinality(before(i)) + 1
      BY <1>1, FS_AddElement
    <2>3. Separators(t, i + 1) = Cardinality(before(i + 1)) /\ Separators(t, i) = Cardinality(before(i))
      BY DEF Separators
    <2> QED BY <1>2, <2>1, <2>2, <2>3 DEF Width
  <1>3. CASE t[i].is # "separator"
    <2>1. before(i + 1) = before(i)
      BY <1>3
    <2>2. Cardinality(before(i)) \in Nat
      BY <1>1, FS_CardinalityType
    <2>3. Separators(t, i + 1) = Cardinality(before(i + 1)) /\ Separators(t, i) = Cardinality(before(i))
      BY DEF Separators
    <2>4. Width(t, i) = 0
      BY <1>3 DEF Width
    <2> HIDE DEF before
    <2> QED BY <2>1, <2>2, <2>3, <2>4
  <1> QED BY <1>2, <1>3

\* Line i begins at piece i + Separators: pieces and lines go up together, so
\* that each piece up to the last line belongs to a line.
LEMMA PieceHasLine ==
    ASSUME NEW t \in Seq(Line), NEW n \in 1..Len(t)
    PROVE  /\ LineOfPiece(t, n) \in 1..Len(t)
           /\ n \in First(t, LineOfPiece(t, n))..(First(t, LineOfPiece(t, n)) + Width(t, LineOfPiece(t, n)))
  <1> DEFINE T == {i \in 1..Len(t) : n <= First(t, i) + Width(t, i)}
             k == Min(T)
  <1>t. Len(t) \in Nat /\ DOMAIN t = 1..Len(t)
    OBVIOUS
  <1>1. \A i \in Nat : First(t, i) \in Nat /\ i <= First(t, i) /\ Width(t, i) \in {0, 1} /\ First(t, 1) = 1
    BY SeparatorsType DEF First, Width
  <1>2. n \in T
    BY <1>1
  <1>3. k \in T /\ \A i \in T : k <= i
    <2>1. T \in SUBSET Nat
      OBVIOUS
    <2> HIDE DEF T
    <2> QED BY <1>2, <2>1, LeastNumber
  <1> HIDE DEF k
  <1>4. First(t, k) <= n
    <2>1. CASE k = 1
      BY <1>1, <2>1
    <2>2. CASE k # 1
      <3>1. k - 1 \in 1..Len(t) /\ k - 1 \in Nat \ {0} /\ (k - 1) + 1 = k /\ ~(k <= k - 1)
        BY <1>3, <2>2
      <3>2. k - 1 \notin T
        BY <1>3, <3>1
      <3>3. ~(n <= First(t, k - 1) + Width(t, k - 1))
        BY <3>1, <3>2
      <3>4. First(t, k) = First(t, k - 1) + Width(t, k - 1) + 1
        <4>1. Separators(t, k) = Separators(t, k - 1) + Width(t, k - 1)
          BY <3>1, SeparatorsNext
        <4>2. Separators(t, k - 1) \in Nat /\ Width(t, k - 1) \in {0, 1}
          BY <3>1, SeparatorsType DEF Width
        <4> QED BY <3>1, <4>1, <4>2 DEF First
      <3>5. First(t, k - 1) \in Nat /\ Width(t, k - 1) \in {0, 1}
        BY <1>1, <3>1
      <3> QED BY <3>3, <3>4, <3>5
    <2> QED BY <2>1, <2>2
  <1>5. k \in DOMAIN t /\ n \in First(t, k)..(First(t, k) + Width(t, k))
    BY <1>1, <1>3, <1>4, <1>t
  <1>6. LineOfPiece(t, n) = CHOOSE i \in DOMAIN t : n \in First(t, i)..(First(t, i) + Width(t, i))
    BY DEF LineOfPiece, First, Width
  <1> HIDE DEF T
  <1> QED BY <1>5, <1>6, <1>t

\* Above the first form feed a line is its own piece, and no call further down
\* is taken to be on it, unless it is that form feed.
LEMMA AboveFormFeed ==
    ASSUME NEW t \in Seq(Line), NEW n \in 1..Len(t)
    PROVE  /\ Separators(t, n) = 0 => LineOfPiece(t, n) = n
           /\ Separators(t, LineOfPiece(t, n)) = 0 =>
                  LineOfPiece(t, n) = n \/ t[LineOfPiece(t, n)].is = "separator"
  <1> DEFINE i == LineOfPiece(t, n)
  <1>1. i \in 1..Len(t) /\ n \in First(t, i)..(First(t, i) + Width(t, i))
    BY PieceHasLine
  <1>2. Separators(t, i) \in Nat /\ Len(t) \in Nat
    BY <1>1, SeparatorsType
  <1>3. t[i].is # "separator" => n = i + Separators(t, i)
    <2> HIDE DEF i
    <2> QED BY <1>1, <1>2 DEF First, Width
  <1>4. ASSUME Separators(t, n) = 0 PROVE i = n
    <2>1. \A j \in 1..(n - 1) : t[j].is # "separator"
      BY <1>4, SeparatorsType
    <2>2. i <= n
      <3> HIDE DEF i
      <3> QED BY <1>1, <1>2 DEF First
    <2>3. CASE i < n
      <3>1. {j \in 1..(i - 1) : t[j].is = "separator"} = {}
        <4> HIDE DEF i
        <4> QED BY <1>1, <2>1, <2>3
      <3>2. Separators(t, i) = 0
        BY <3>1, FS_EmptySet DEF Separators
      <3>3. t[i].is # "separator"
        <4> HIDE DEF i
        <4> QED BY <1>1, <2>1, <2>3
      <3> HIDE DEF i
      <3> QED BY <1>1, <1>3, <2>3, <3>2, <3>3
    <2> HIDE DEF i
    <2> QED BY <1>1, <2>2, <2>3
  <1> HIDE DEF i
  <1>5. Separators(t, i) = 0 => i = n \/ t[i].is = "separator"
    BY <1>1, <1>3
  <1> QED BY <1>4, <1>5 DEF i

\* What the transformation changes above the first form feed of a text it accepts.
LEMMA PatchedExact ==
    ASSUME NEW t \in Seq(Line), ImportsTimezone(t) \/ ImportIsSimple(t), Parses(Patched(t)),
           NEW i \in 1..Len(t), Separators(t, i) = 0
    PROVE  \/ i \in Calls(t) /\ Patched(t)[i] = [t[i] EXCEPT !.of = "aware"]
           \/ /\ i \notin Calls(t) /\ ~ImportsTimezone(t)
              /\ i = LineOfPiece(t, ImportLine(t)) /\ t[i].is = "import" /\ t[i].of = "datetime"
              /\ Patched(t)[i] = [t[i] EXCEPT !.of = "datetime,timezone"]
           \/ i \notin Calls(t) /\ Patched(t)[i] = t[i]
  <1> DEFINE calls == {LineOfPiece(t, r) : r \in Calls(t)}
             import == IF ImportsTimezone(t) THEN {} ELSE {LineOfPiece(t, ImportLine(t))}
  <1>1. DOMAIN t = 1..Len(t) /\ Calls(t) \subseteq 1..Len(t) /\ t[i] \in Line
    BY DEF Calls
  <1>2. /\ i \in DOMAIN Patched(t)
        /\ Patched(t)[i] = IF i \in calls THEN Overwritten(t[i])
                          ELSE IF i \in import THEN [t[i] EXCEPT !.of = "datetime,timezone"]
                          ELSE t[i]
    BY <1>1 DEF Patched
  <1>3. Patched(t)[i].is # "broken"
    BY <1>2 DEF Parses
  <1>4. ASSUME i \in calls
        PROVE  i \in Calls(t) /\ Overwritten(t[i]) = [t[i] EXCEPT !.of = "aware"]
    <2>1. PICK r \in Calls(t) : i = LineOfPiece(t, r)
      BY <1>4
    <2>2. i = r \/ t[i].is = "separator"
      BY <1>1, <2>1, AboveFormFeed
    <2>3. Patched(t)[i] = Overwritten(t[i])
      BY <1>2, <1>4
    <2>4. t[i].is # "separator"
      BY <1>1, <1>3, <2>3 DEF Overwritten, Line
    <2>5. t[i].is \in {"use", "bind", "compare", "mention"} /\ t[i].of = "datetime.utcnow()"
      BY <2>1, <2>2, <2>4 DEF Calls
    <2> QED BY <2>1, <2>2, <2>4, <2>5 DEF Overwritten
  <1>5. i \in Calls(t) => i \in calls
    BY <1>1, AboveFormFeed
  <1>6. ASSUME i \in import
        PROVE  /\ ~ImportsTimezone(t) /\ i = LineOfPiece(t, ImportLine(t))
               /\ t[i].is = "import" /\ t[i].of = "datetime"
    BY <1>6 DEF ImportIsSimple
  <1> HIDE DEF calls, import
  <1> QED BY <1>2, <1>4, <1>5, <1>6

LEMMA DraftExact == SourceInv => DraftIsExact
  <1> SUFFICES ASSUME SourceInv, draft # NoDraft PROVE DraftIsExact
    BY DEF DraftIsExact
  <1> DEFINE t == draft.of
             to == draft.to
             above == {i \in DOMAIN t : Separators(t, i) = 0}
             changed == {i \in above : t[i] # to[i]}
             imports == {i \in changed : t[i].is = "import"}
             plain == {i \in above : /\ t[i].is \notin {"import", "mention", "split"}
                                    /\ t[i].of = "datetime.utcnow()"}
             \* what becomes of a line
             called(i) == i \in Calls(t) /\ to[i] = [t[i] EXCEPT !.of = "aware"]
             imported(i) == /\ i \notin Calls(t) /\ ~ImportsTimezone(t) /\ i = LineOfPiece(t, ImportLine(t))
                            /\ t[i].is = "import" /\ t[i].of = "datetime"
                            /\ to[i] = [t[i] EXCEPT !.of = "datetime,timezone"]
             kept(i) == i \notin Calls(t) /\ to[i] = t[i]
  <1>1. t \in Seq(Line) /\ Accepted(t) /\ to = Patched(t)
    BY DEF SourceInv, DraftedFrom
  <1> HIDE DEF t, to
  <1>2. ASSUME NEW i \in above PROVE called(i) \/ imported(i) \/ kept(i)
    <2>1. i \in 1..Len(t) /\ Separators(t, i) = 0
      BY <1>1
    <2>2. (ImportsTimezone(t) \/ ImportIsSimple(t)) /\ Parses(Patched(t))
      BY <1>1 DEF Accepted
    <2> QED BY <1>1, <2>1, <2>2, PatchedExact, Zenon
  <1>3. ASSUME NEW i \in above PROVE i \in plain <=> i \in Calls(t)
    <2>1. i \in DOMAIN t /\ t[i] \in Line
      BY <1>1
    <2>2. t[i].of = "datetime.utcnow()" => t[i].is \in {"use", "split", "bind", "mention", "compare"}
      <3>1. "datetime.utcnow()" \notin Imported
        BY Zenon DEF Imported, WithTimezone
      <3> QED BY <2>1, <3>1 DEF Line, BugPattern
    <2> QED BY <2>1, <2>2 DEF Calls
  <1>4. ASSUME NEW i \in above, i \in Calls(t)
        PROVE  t[i].is # "import" /\ t[i] # [t[i] EXCEPT !.of = "aware"]
    <2>1. t[i] \in Line /\ t[i].of = "datetime.utcnow()" /\ t[i].is \in {"use", "bind", "compare"}
      BY <1>1, <1>4 DEF Calls
    <2> QED BY <2>1 DEF Line
  <1>5. ASSUME NEW i \in above, imported(i)
        PROVE  to[i].of = "datetime,timezone"
    <2>1. t[i] \in Line
      BY <1>1
    <2> QED BY <1>5, <2>1 DEF Line
  <1>6. \A i \in changed : (called(i) /\ i \notin imports /\ i \in plain) \/ (imported(i) /\ i \in imports)
    BY <1>2, <1>3, <1>4
  <1>7. plain \subseteq changed \ imports
    BY <1>2, <1>3, <1>4
  <1>8. changed \ imports = plain
    BY <1>6, <1>7
  <1>9. Cardinality(imports) <= 1
    <2>2. ASSUME NEW i \in imports PROVE imports = {i}
      BY <1>6
    <2> HIDE DEF imports
    <2>1. CASE imports = {}
      BY <2>1, FS_EmptySet
    <2>3. CASE imports # {}
      <3>1. PICK i \in imports : imports = {i}
        BY <2>2, <2>3
      <3>2. Cardinality({i}) = 1
        BY FS_Singleton
      <3> QED BY <3>1, <3>2
    <2> QED BY <2>1, <2>3
  <1>10. /\ \A i \in changed \ imports : to[i] = [t[i] EXCEPT !.of = "aware"]
         /\ \A i \in imports : t[i].of = "datetime" /\ to[i].of = "datetime,timezone"
    BY <1>5, <1>6
  <1>11. imports # {} => ImportsOf(t, WithTimezone) = {}
    <2>1. \A i \in imports : ~ImportsTimezone(t)
      BY <1>6
    <2> QED BY <2>1, Zenon DEF ImportsTimezone
  <1> QED BY <1>8, <1>9, <1>10, <1>11, Zenon DEF DraftIsExact, t, to

(***************************************************************************)
(* Insertions.                                                             *)
(***************************************************************************)
\* The lines of t are among those of u, in the same order.
Within(t, u) ==
    \E f \in [DOMAIN t -> DOMAIN u] :
        /\ \A i \in DOMAIN t : u[f[i]] = t[i]
        /\ \A i, j \in DOMAIN t : j < i => f[j] < f[i]

LEMMA InsertedWithin ==
    ASSUME NEW t \in Seq(Line), NEW i \in 1..(Len(t) + 1), NEW line \in Line
    PROVE  Within(t, InsertAt(t, i, line))
  <1> DEFINE u == InsertAt(t, i, line)
             f == [j \in DOMAIN t |-> IF j < i THEN j ELSE j + 1]
  <1>1. /\ u \in Seq(Line) /\ Len(u) = Len(t) + 1
        /\ \A j \in 1..Len(t) : u[IF j < i THEN j ELSE j + 1] = t[j]
    BY Inserted
  <1> HIDE DEF u
  <1>2. DOMAIN t = 1..Len(t) /\ DOMAIN u = 1..(Len(t) + 1) /\ Len(t) \in Nat
    BY <1>1
  <1>3. f \in [DOMAIN t -> DOMAIN u] /\ \A j \in DOMAIN t : f[j] = IF j < i THEN j ELSE j + 1
    BY <1>2
  <1>4. \A j \in DOMAIN t : u[f[j]] = t[j]
    BY <1>1, <1>2, <1>3
  <1>5. \A j, k \in DOMAIN t : k < j => f[k] < f[j]
    BY <1>2, <1>3
  <1> HIDE DEF f
  <1> QED BY <1>3, <1>4, <1>5 DEF Within, u

\* What a text says is said by one that has its lines: a name once bound to a
\* naive value above a comparison stays above it.
LEMMA SignalsGrow ==
    ASSUME NEW t \in Seq(Line), NEW u \in Seq(Line), Within(t, u), Parses(u), NEW js \in BOOLEAN
    PROVE  Signals(t, js) \subseteq Signals(u, js)
  <1>1. PICK f \in [DOMAIN t -> DOMAIN u] :
            /\ \A i \in DOMAIN t : u[f[i]] = t[i]
            /\ \A i, j \in DOMAIN t : j < i => f[j] < f[i]
    BY DEF Within
  <1>2. DOMAIN t = 1..Len(t) /\ DOMAIN u = 1..Len(u) /\ Len(t) \in Nat /\ Len(u) \in Nat
    OBVIOUS
  <1>3. \A is, of : Has(t, is, of) => Has(u, is, of)
    BY <1>1 DEF Has
  <1>4. Parses(t)
    BY <1>1 DEF Parses
  <1>5. ASSUME NEW i \in DOMAIN t, RiskyName(t, i) PROVE RiskyName(u, f[i])
    <2>1. PICK j \in 1..(i - 1) : t[j].is = "bind" /\ t[j].of \in Naive
      BY <1>5 DEF RiskyName
    <2>2. j \in DOMAIN t /\ j < i /\ f[j] \in DOMAIN u /\ f[i] \in DOMAIN u
      BY <1>2, <2>1
    <2>3. f[j] \in 1..(f[i] - 1) /\ u[f[j]] = t[j]
      BY <1>1, <1>2, <2>2
    <2> QED BY <2>1, <2>3 DEF RiskyName
  <1>6. ASSUME NEW i \in DOMAIN t, NaiveComparison(t, i) PROVE NaiveComparison(u, f[i])
    <2>1. u[f[i]] = t[i]
      BY <1>1
    <2> QED BY <1>5, <1>6, <2>1 DEF NaiveComparison
  <1>8. {t[i].of : i \in DOMAIN t} \subseteq {u[i].of : i \in DOMAIN u}
    BY <1>1
  <1>9. (\E i \in DOMAIN t : NaiveComparison(t, i)) => \E i \in DOMAIN u : NaiveComparison(u, i)
    BY <1>1, <1>6
  <1>10. {s \in BugPattern : Has(t, {s}, {"-"})} \subseteq {s \in BugPattern : Has(u, {s}, {"-"})}
    BY <1>3
  <1> DEFINE keyword(v) == IF Has(v, {"keyword"}, {"-"}) THEN {"keyword"} ELSE {}
             import(v) == IF Has(v, {"import"}, Imported) THEN {"import"} ELSE {}
             calls(v) == {v[i].of : i \in {j \in DOMAIN v : v[j].is \in {"use", "split", "bind", "compare"}}}
             bugs(v) == {s \in BugPattern : Has(v, {s}, {"-"})}
             comparison(v) == IF \E i \in DOMAIN v : NaiveComparison(v, i) THEN {"comparison"} ELSE {}
  <1>11. CASE js
    BY <1>3, <1>8, <1>11 DEF Signals
  <1>12. CASE ~js
    <2>1. keyword(t) \subseteq keyword(u) /\ import(t) \subseteq import(u)
      BY <1>3
    <2>2. calls(t) \subseteq calls(u)
      BY <1>1
    <2>3. comparison(t) \subseteq comparison(u)
      BY <1>9
    <2>4. Signals(t, js) = keyword(t) \cup (import(t) \cup ((calls(t) \cap Naive) \cup bugs(t) \cup comparison(t)))
      BY <1>4, <1>12, Zenon DEF Signals
    <2>5. Signals(u, js) = keyword(u) \cup (import(u) \cup ((calls(u) \cap Naive) \cup bugs(u) \cup comparison(u)))
      BY <1>12, Zenon DEF Signals
    <2>6. bugs(t) \subseteq bugs(u)
      BY <1>10
    <2> HIDE DEF keyword, import, calls, bugs, comparison
    <2> QED BY <2>1, <2>2, <2>3, <2>4, <2>5, <2>6
  <1> QED BY <1>11, <1>12

LEMMA RisksGrow ==
    ASSUME NEW S, NEW T, S \subseteq T, NEW test \in BOOLEAN, NEW nearby \in BOOLEAN,
           NEW r \in Risks(S, test, nearby)
    PROVE  \E n \in Risks(T, test, nearby) :
               n.type = r.type /\ n.score >= r.score /\ n.confidence >= r.confidence
  <1> DEFINE low == TimezoneScore(S, test, nearby)
             high == TimezoneScore(T, test, nearby)
             time(score, U) == [type |-> "timezone_boundary", score |-> score, confidence |-> Confidence(score, U)]
             bug(k) == LET n == BugScore(k, test, nearby)
                       IN  [type |-> k, score |-> n, confidence |-> BugConfidence(k, n, test)]
  <1>1. low \in Nat /\ high \in Nat /\ low <= high
    BY ScoreGrows
  <1>2. CASE r = time(low, S) /\ S \cap TimeSignal # {} /\ low > 0
    <2>1. time(high, T) \in Risks(T, test, nearby)
      <3>1. T \cap TimeSignal # {} /\ high > 0
        BY <1>1, <1>2
      <3> HIDE DEF high
      <3> QED BY <3>1 DEF Risks, high
    <2>2. Confidence(low, S) <= Confidence(high, T)
      <3> HIDE DEF low, high
      <3> QED BY <1>1 DEF Confidence
    <2>3. time(high, T).type = r.type /\ time(high, T).score >= r.score
          /\ time(high, T).confidence >= r.confidence
      <3>1. Confidence(low, S) \in {0, 1, 2} /\ Confidence(high, T) \in {0, 1, 2}
        BY DEF Confidence
      <3> HIDE DEF low, high
      <3> QED BY <1>1, <1>2, <2>2, <3>1
    <2> QED BY <2>1, <2>3
  <1>3. CASE \E k \in S \cap BugPattern : r = bug(k)
    <2>1. PICK k \in S \cap BugPattern : r = bug(k)
      BY <1>3
    <2>2. bug(k) \in Risks(T, test, nearby)
      BY <2>1 DEF Risks
    <2>3. r.score \in Int /\ r.confidence \in {0, 1, 2}
      BY <2>1 DEF BugScore, BugConfidence
    <2> QED BY <2>1, <2>2, <2>3
  <1>4. (r = time(low, S) /\ S \cap TimeSignal # {} /\ low > 0) \/ \E k \in S \cap BugPattern : r = bug(k)
    BY DEF Risks
  <1> QED BY <1>2, <1>3, <1>4

RisksKept ==
    (Len(text') > Len(text) /\ Parses(text')) =>
    \A r \in RisksNow : \E n \in RisksNow' :
        n.type = r.type /\ n.score >= r.score /\ n.confidence >= r.confidence

LEMMA InsertKeeps ==
    ASSUME SourceInv, [Next]_vars
    PROVE  RisksKept
  <1>1. ASSUME NEW i \in 1..(Len(text) + 1), NEW line \in PyLine \cup JsLine, Insert(i, line), Parses(text')
        PROVE  \A r \in RisksNow : \E n \in RisksNow' :
                   n.type = r.type /\ n.score >= r.score /\ n.confidence >= r.confidence
    <2>1. text \in Seq(Line) /\ line \in Line /\ text' = InsertAt(text, i, line) /\ file' = file
      BY <1>1, SourceFileAssumption DEF SourceInv, TypeOK, Insert
    <2>2. text' \in Seq(Line) /\ Within(text, text')
      BY <2>1, Inserted, InsertedWithin
    <2>3. file.js \in BOOLEAN /\ file.test \in BOOLEAN
      BY SourceFileAssumption DEF SourceInv, TypeOK
    <2>4. Signals(text, file.js) \subseteq Signals(text', file.js)
      BY <1>1, <2>1, <2>2, <2>3, SignalsGrow
    <2>5. /\ RisksNow = Risks(Signals(text, file.js), file.test, Nearby)
          /\ RisksNow' = Risks(Signals(text', file.js), file.test, Nearby)
      BY <2>1 DEF RisksNow, SignalsNow, Nearby
    <2> QED BY <2>3, <2>4, <2>5, NearbyType, RisksGrow
  <1>2. CASE Draft \/ UNCHANGED vars
    BY <1>2 DEF Draft, vars, SourceInv, TypeOK, RisksKept
  <1>3. CASE Apply
    <2>1. Len(text') = Len(text)
      <3>1. draft # NoDraft /\ draft.hash.text = text /\ text' = draft.to
        BY <1>3 DEF Apply
      <3>2. draft.hash.text = draft.of
        BY <3>1 DEF SourceInv, DraftedFrom
      <3> QED BY <3>1, <3>2 DEF SourceInv, TypeOK
    <2> QED BY <2>1 DEF SourceInv, TypeOK, RisksKept
  <1> QED BY <1>1, <1>2, <1>3 DEF Next, RisksKept

(***************************************************************************)
(* Drafts of texts without form feeds, once applied.                       *)
(***************************************************************************)
LEMMA NoFormFeed ==
    ASSUME NEW t \in Seq(Line), ~Has(t, {"separator"}, {"-"}), NEW n \in 1..Len(t)
    PROVE  LineOfPiece(t, n) = n
  <1>1. \A j \in 1..(n - 1) : t[j].is # "separator"
    <2>1. ASSUME NEW j \in 1..(n - 1) PROVE t[j].is # "separator"
      <3>1. j \in DOMAIN t /\ t[j] \in Line
        OBVIOUS
      <3>2. t[j].is = "separator" => t[j].of = "-"
        BY <3>1 DEF Line, BugPattern
      <3> QED BY <3>1, <3>2 DEF Has
    <2> QED BY <2>1
  <1>2. {j \in 1..(n - 1) : t[j].is = "separator"} = {}
    BY <1>1
  <1>3. Separators(t, n) = 0
    BY <1>2, FS_EmptySet DEF Separators
  <1> QED BY <1>3, AboveFormFeed

\* The line of the import that a draft of t gives its timezone.
Imports(t, i) == ~ImportsTimezone(t) /\ i = LineOfPiece(t, ImportLine(t))

\* A line about another call or import.
Given(line, of) == [line EXCEPT !.of = of]

LEMMA GivenLine ==
    ASSUME NEW line \in Line, NEW of
    PROVE  Given(line, of).is = line.is /\ Given(line, of).deep = line.deep /\ Given(line, of).of = of
  BY DEF Given, Line

\* Line i, once the draft of t is applied.
LEMMA PatchedLine ==
    ASSUME NEW t \in Seq(Line), ~Has(t, {"separator"}, {"-"}), ImportsTimezone(t) \/ ImportIsSimple(t),
           NEW i \in DOMAIN t
    PROVE  /\ i \in Calls(t) => Patched(t)[i] = Given(t[i], "aware")
           /\ i \notin Calls(t) /\ Imports(t, i) =>
                  /\ t[i].is = "import" /\ t[i].of = "datetime"
                  /\ Patched(t)[i] = Given(t[i], "datetime,timezone")
           /\ i \notin Calls(t) /\ ~Imports(t, i) => Patched(t)[i] = t[i]
  <1> DEFINE calls == {LineOfPiece(t, r) : r \in Calls(t)}
             import == IF ImportsTimezone(t) THEN {} ELSE {LineOfPiece(t, ImportLine(t))}
  <1>1. DOMAIN t = 1..Len(t) /\ Calls(t) \subseteq 1..Len(t)
    BY DEF Calls
  <1>2. \A r \in Calls(t) : LineOfPiece(t, r) = r
    BY <1>1, NoFormFeed
  <1>3. calls = Calls(t)
    BY <1>2
  <1>4. Patched(t)[i] = IF i \in calls THEN Overwritten(t[i])
                        ELSE IF i \in import THEN Given(t[i], "datetime,timezone")
                        ELSE t[i]
    BY DEF Patched, Given
  <1>5. i \in import <=> Imports(t, i)
    BY DEF Imports
  <1>6. i \in Calls(t) => Overwritten(t[i]) = Given(t[i], "aware")
    BY DEF Calls, Overwritten, Given
  <1>7. Imports(t, i) => t[i].is = "import" /\ t[i].of = "datetime"
    BY DEF Imports, ImportIsSimple
  <1> HIDE DEF calls, import
  <1> QED BY <1>3, <1>4, <1>5, <1>6, <1>7

\* u has the lines of t, some calls made aware and some import given its timezone.
Milder(u, t) ==
    /\ DOMAIN u = DOMAIN t
    /\ \A i \in DOMAIN t :
           /\ u[i].is = t[i].is /\ u[i].deep = t[i].deep
           /\ \/ u[i].of = t[i].of
              \/ t[i].is \in {"use", "bind", "compare"} /\ u[i].of = "aware"
              \/ t[i].is = "import" /\ t[i].of = "datetime" /\ u[i].of = "datetime,timezone"

LEMMA PatchedMilder ==
    ASSUME NEW t \in Seq(Line), ~Has(t, {"separator"}, {"-"}), ImportsTimezone(t) \/ ImportIsSimple(t)
    PROVE  Milder(Patched(t), t) /\ \A i \in Calls(t) : Patched(t)[i].of = "aware"
  <1>1. DOMAIN Patched(t) = DOMAIN t
    BY PatchedType
  <1>3. ASSUME NEW i \in DOMAIN t
        PROVE  /\ Patched(t)[i].is = t[i].is /\ Patched(t)[i].deep = t[i].deep
               /\ \/ Patched(t)[i].of = t[i].of
                  \/ t[i].is \in {"use", "bind", "compare"} /\ Patched(t)[i].of = "aware"
                  \/ t[i].is = "import" /\ t[i].of = "datetime" /\ Patched(t)[i].of = "datetime,timezone"
               /\ i \in Calls(t) => Patched(t)[i].of = "aware"
    <2>1. t[i] \in Line
      OBVIOUS
    <2>2. CASE i \in Calls(t)
      <3>1. Patched(t)[i] = Given(t[i], "aware")
        BY <2>2, PatchedLine
      <3>2. t[i].is \in {"use", "bind", "compare"}
        BY <2>2 DEF Calls
      <3>3. /\ Patched(t)[i].is = t[i].is /\ Patched(t)[i].deep = t[i].deep
            /\ Patched(t)[i].of = "aware"
        BY <2>1, <3>1, GivenLine
      <3> QED BY <3>2, <3>3, Zenon
    <2>3. CASE i \notin Calls(t) /\ Imports(t, i)
      <3>1. /\ t[i].is = "import" /\ t[i].of = "datetime"
            /\ Patched(t)[i] = Given(t[i], "datetime,timezone")
        BY <2>3, PatchedLine
      <3>2. PICK of : of = "datetime,timezone"
        OBVIOUS
      <3>3. Patched(t)[i] = Given(t[i], of)
        BY <3>1, <3>2, Zenon
      <3>4. Patched(t)[i].is = t[i].is /\ Patched(t)[i].deep = t[i].deep /\ Patched(t)[i].of = of
        BY <2>1, <3>3, GivenLine
      <3> QED BY <2>3, <3>1, <3>2, <3>4, Zenon
    <2>4. CASE i \notin Calls(t) /\ ~Imports(t, i)
      <3>1. Patched(t)[i] = t[i]
        BY <2>4, PatchedLine
      <3> QED BY <2>4, <3>1
    <2> QED BY <2>2, <2>3, <2>4
  <1>4. Calls(t) \subseteq DOMAIN t
    BY DEF Calls
  <1> QED BY <1>1, <1>3, <1>4 DEF Milder

\* What is milder says no more, and says no plain datetime.utcnow() if its
\* calls are aware.
LEMMA MilderSays ==
    ASSUME NEW t \in Seq(Line), NEW u \in Seq(Line), Milder(u, t), Parses(t)
    PROVE  Signals(u, FALSE) \subseteq Signals(t, FALSE)
  <1> DEFINE keyword(v) == IF Has(v, {"keyword"}, {"-"}) THEN {"keyword"} ELSE {}
             import(v) == IF Has(v, {"import"}, Imported) THEN {"import"} ELSE {}
             calls(v) == {v[i].of : i \in {j \in DOMAIN v : v[j].is \in {"use", "split", "bind", "compare"}}}
             bugs(v) == {s \in BugPattern : Has(v, {s}, {"-"})}
             comparison(v) == IF \E i \in DOMAIN v : NaiveComparison(v, i) THEN {"comparison"} ELSE {}
  <1>1. Parses(u)
    BY DEF Milder, Parses
  <1>2. "aware" \notin Naive /\ "datetime,timezone" \notin Naive
    BY DEF Naive
  <1>3. \A v : Parses(v) => Signals(v, FALSE) = keyword(v) \cup (import(v) \cup ((calls(v) \cap Naive) \cup bugs(v) \cup comparison(v)))
    BY Zenon DEF Signals
  <1>4. \A s \in {"keyword"} \cup BugPattern : Has(u, {s}, {"-"}) => Has(t, {s}, {"-"})
    BY DEF Has, Milder, BugPattern
  <1>5. keyword(u) \subseteq keyword(t) /\ bugs(u) \subseteq bugs(t)
    BY <1>4
  <1>6. import(u) \subseteq import(t)
    <2>1. "datetime" \in Imported
      BY Zenon DEF Imported
    <2>2. ASSUME NEW i \in DOMAIN u, u[i].is = "import", u[i].of \in Imported
          PROVE  i \in DOMAIN t /\ t[i].is = "import" /\ t[i].of \in Imported
      BY <2>1, <2>2, Zenon DEF Milder
    <2> QED BY <2>2, Zenon DEF Has
  <1>7. calls(u) \cap Naive \subseteq calls(t)
    <2>1. ASSUME NEW i \in DOMAIN u, u[i].is \in {"use", "split", "bind", "compare"}, u[i].of \in Naive
          PROVE  u[i].of = t[i].of /\ i \in DOMAIN t /\ t[i].is = u[i].is
      BY <1>2, <2>1 DEF Milder
    <2> QED BY <2>1
  <1>8. ASSUME NEW i \in DOMAIN u, NaiveComparison(u, i) PROVE i \in DOMAIN t /\ NaiveComparison(t, i)
    <2>1. i \in DOMAIN t /\ DOMAIN t = 1..Len(t) /\ Len(t) \in Nat
      <3>1. i \in DOMAIN t
        BY <1>8 DEF Milder
      <3> QED BY <3>1
    <2>2. u[i].is = "compare" /\ (u[i].of \in Naive \/ (u[i].of = "name" /\ RiskyName(u, i)))
      BY <1>8 DEF NaiveComparison
    <2>3. t[i].is = "compare"
      BY <2>1, <2>2 DEF Milder
    <2>4. u[i].of = t[i].of
      BY <1>2, <2>1, <2>2, <2>3 DEF Milder
    <2>5. RiskyName(u, i) => RiskyName(t, i)
      <3> SUFFICES ASSUME NEW j \in 1..(i - 1), u[j].is = "bind", u[j].of \in Naive
                   PROVE  t[j].is = "bind" /\ t[j].of \in Naive
        BY DEF RiskyName
      <3>1. j \in DOMAIN t
        BY <2>1
      <3>2. t[j].is = "bind"
        BY <3>1 DEF Milder
      <3>3. u[j].of = t[j].of
        BY <1>2, <3>1, <3>2 DEF Milder
      <3> QED BY <3>2, <3>3
    <2> QED BY <2>1, <2>2, <2>3, <2>4, <2>5 DEF NaiveComparison
  <1>9. comparison(u) \subseteq comparison(t)
    BY <1>8
  <1>10. Signals(u, FALSE) = keyword(u) \cup (import(u) \cup ((calls(u) \cap Naive) \cup bugs(u) \cup comparison(u)))
    BY <1>1, <1>3, Zenon
  <1>11. Signals(t, FALSE) = keyword(t) \cup (import(t) \cup ((calls(t) \cap Naive) \cup bugs(t) \cup comparison(t)))
    BY <1>3, Zenon
  <1> HIDE DEF keyword, import, calls, bugs, comparison
  <1> QED BY <1>5, <1>6, <1>7, <1>9, <1>10, <1>11

LEMMA CallsGone ==
    ASSUME NEW t \in Seq(Line), NEW u, Milder(u, t), \A i \in Calls(t) : u[i].of = "aware"
    PROVE  /\ Calls(u) = {}
           /\ "datetime.utcnow()" \in Signals(u, FALSE) => Has(t, {"split"}, {"datetime.utcnow()"})
  <1>1. ASSUME NEW i \in DOMAIN u, u[i].is \in {"use", "bind", "compare"}, u[i].of = "datetime.utcnow()"
        PROVE  FALSE
    <2>1. i \in DOMAIN t /\ t[i].is \in {"use", "bind", "compare"} /\ t[i].of = "datetime.utcnow()"
      BY <1>1 DEF Milder
    <2> QED BY <1>1, <2>1 DEF Calls
  <1>2. Calls(u) = {}
    BY <1>1 DEF Calls
  <1>3. ASSUME "datetime.utcnow()" \in Signals(u, FALSE) PROVE Has(t, {"split"}, {"datetime.utcnow()"})
    <2>1. PICK i \in DOMAIN u : u[i].is \in {"use", "split", "bind", "compare"} /\ u[i].of = "datetime.utcnow()"
      BY <1>3 DEF Signals, BugPattern
    <2>2. u[i].is = "split"
      BY <1>1, <2>1
    <2>3. i \in DOMAIN t /\ t[i].is = "split" /\ t[i].of = "datetime.utcnow()"
      BY <2>1, <2>2 DEF Milder
    <2> QED BY <2>3 DEF Has
  <1> QED BY <1>2, <1>3

\* The imports at the head of the module, all of them above line i.
AtHead(t, names, i) == \A j \in ImportsOf(t, names) : ~t[j].deep /\ j < i

\* The import a draft edits is one of those from datetime.
LEMMA ImportLineType ==
    ASSUME NEW t \in Seq(Line), ImportsOf(t, {"datetime"}) # {}
    PROVE  /\ ImportLine(t) \in ImportsOf(t, {"datetime", "datetime,timezone"})
           /\ ImportLine(t) \in 1..Len(t)
  <1> DEFINE all == ImportsOf(t, {"datetime", "datetime,timezone"})
             inner == {i \in all : t[i].deep}
             last == IF inner # {} THEN inner ELSE all
  <1>1. last \subseteq all /\ all \subseteq DOMAIN t
    BY DEF ImportsOf
  <1>2. last # {}
    <2>1. ImportsOf(t, {"datetime"}) \subseteq all
      BY Zenon DEF ImportsOf
    <2> QED BY <2>1
  <1>3. last \in SUBSET (1..Len(t)) /\ Len(t) \in Nat
    <2>1. DOMAIN t = 1..Len(t) /\ Len(t) \in Nat
      OBVIOUS
    <2> HIDE DEF last, all
    <2> QED BY <1>1, <2>1
  <1>4. ImportLine(t) = Max(last)
    BY DEF ImportLine
  <1> HIDE DEF last, all
  <1>5. Max(last) \in last
    BY <1>2, <1>3, LargestNumber
  <1>6. ImportLine(t) \in all /\ ImportLine(t) \in 1..Len(t)
    BY <1>1, <1>3, <1>4, <1>5
  <1> QED BY <1>6, Zenon DEF all

\* After a draft of t some import at the head, above line i, names timezone, if
\* those of t stand there.
LEMMA TimezoneBound ==
    ASSUME NEW t \in Seq(Line), ~Has(t, {"separator"}, {"-"}),
           ImportsTimezone(t) \/ (ImportsOf(t, {"datetime"}) # {} /\ ImportIsSimple(t)),
           NEW i, AtHead(t, WithTimezone \cup {"datetime"}, i)
    PROVE  \E j \in ImportsOf(Patched(t), WithTimezone) : ~Patched(t)[j].deep /\ j < i
  <1>1. DOMAIN Patched(t) = DOMAIN t
    BY PatchedType
  <1>2. CASE ImportsTimezone(t)
    <2>1. PICK j \in DOMAIN t : t[j].is = "import" /\ t[j].of \in WithTimezone
      BY <1>2, Zenon DEF ImportsTimezone, ImportsOf
    <2>2. ~t[j].deep /\ j < i
      BY <2>1, Zenon DEF AtHead, ImportsOf
    <2>3. j \notin Calls(t) /\ ~Imports(t, j)
      BY <1>2, <2>1 DEF Calls, Imports
    <2>4. Patched(t)[j] = t[j]
      BY <1>2, <2>3, PatchedLine
    <2> QED BY <1>1, <2>1, <2>2, <2>4, Zenon DEF ImportsOf
  <1>3. CASE ~ImportsTimezone(t)
    <2> DEFINE j == ImportLine(t)
    <2>1. j \in ImportsOf(t, {"datetime", "datetime,timezone"}) /\ j \in 1..Len(t)
      BY <1>3, ImportLineType
    <2> HIDE DEF j
    <2>2. j \in DOMAIN t /\ t[j].is = "import" /\ t[j] \in Line
      <3>1. j \in DOMAIN t /\ t[j].is = "import"
        BY <2>1, Zenon DEF ImportsOf
      <3> QED BY <3>1
    <2>3. t[j].of = "datetime" \/ t[j].of \in WithTimezone
      BY <2>1, Zenon DEF ImportsOf, WithTimezone
    <2>4. ~t[j].deep /\ j < i
      BY <2>2, <2>3, Zenon DEF AtHead, ImportsOf
    <2>5. j \notin Calls(t)
      BY <2>2 DEF Calls
    <2>6. Imports(t, j)
      <3>1. LineOfPiece(t, j) = j
        BY <2>1, NoFormFeed
      <3> QED BY <1>3, <3>1 DEF Imports, j
    <2>7. PICK of : of = "datetime,timezone"
      OBVIOUS
    <2>8. of \in WithTimezone
      BY <2>7, Zenon DEF WithTimezone
    <2>9. ImportIsSimple(t)
      BY <1>3
    <2>10. Patched(t)[j] = Given(t[j], "datetime,timezone")
      BY <2>2, <2>5, <2>6, <2>9, PatchedLine, Zenon
    <2>11. Patched(t)[j] = Given(t[j], of)
      BY <2>7, <2>10, Zenon
    <2>12. /\ Patched(t)[j].is = "import" /\ Patched(t)[j].of = of
           /\ Patched(t)[j].deep = t[j].deep
      BY <2>2, <2>11, GivenLine
    <2> QED BY <1>1, <2>2, <2>4, <2>8, <2>12, Zenon DEF ImportsOf
  <1> QED BY <1>2, <1>3

DraftWorked ==
    (Apply /\ ~Has(text, {"separator"}, {"-"})) =>
    /\ "datetime.utcnow()" \in SignalsNow' => Has(text, {"split"}, {"datetime.utcnow()"})
    /\ \A n \in RisksNow' : \E r \in RisksNow : n.type = r.type /\ n.score <= r.score
    /\ ~Accepted(text)'
    /\ \A i \in Calls(text) :
           (\A j \in ImportsOf(text, WithTimezone \cup {"datetime"}) : ~text[j].deep /\ j < i)
               => \E j \in ImportsOf(text', WithTimezone) : ~text'[j].deep /\ j < i

LEMMA AppliedWorks ==
    ASSUME SourceInv
    PROVE  DraftWorked
  <1> SUFFICES ASSUME Apply, ~Has(text, {"separator"}, {"-"}) PROVE DraftWorked
    BY DEF DraftWorked
  <1>1. /\ text \in Seq(Line) /\ Accepted(text) /\ text' = Patched(text) /\ file' = file
    <2>1. draft # NoDraft /\ draft.hash.text = text /\ text' = draft.to /\ file' = file
      BY DEF Apply
    <2>2. PICK t \in Seq(Line) :
              Accepted(t) /\ draft = [of |-> t, to |-> Patched(t), hash |-> [text |-> t, crlf |-> FALSE]]
      BY <2>1 DEF SourceInv, DraftedFrom
    <2>3. t = text
      BY <2>1, <2>2
    <2> QED BY <2>1, <2>2, <2>3
  <1>2. (ImportsTimezone(text) \/ ImportIsSimple(text)) /\ Parses(text) /\ ~file.js
    BY <1>1 DEF Accepted
  <1>3. file.js = FALSE /\ file.test \in BOOLEAN
    BY <1>2, SourceFileAssumption DEF SourceInv, TypeOK
  <1>4. text' \in Seq(Line)
    BY <1>1, <1>2, PatchedType
  <1>5. Milder(text', text) /\ \A i \in Calls(text) : text'[i].of = "aware"
    BY <1>1, <1>2, PatchedMilder
  <1>6. Signals(text', FALSE) \subseteq Signals(text, FALSE)
    BY <1>1, <1>2, <1>4, <1>5, MilderSays
  <1>7. /\ Calls(text') = {}
        /\ "datetime.utcnow()" \in Signals(text', FALSE) => Has(text, {"split"}, {"datetime.utcnow()"})
    BY <1>1, <1>5, CallsGone
  <1>8. /\ SignalsNow' = Signals(text', FALSE)
        /\ RisksNow' = Risks(Signals(text', FALSE), file.test, Nearby)
        /\ RisksNow = Risks(Signals(text, FALSE), file.test, Nearby)
    BY <1>1, <1>3 DEF RisksNow, SignalsNow, Nearby
  <1>9. ASSUME NEW n \in RisksNow' PROVE \E r \in RisksNow : n.type = r.type /\ n.score <= r.score
    <2>1. \E r \in Risks(Signals(text, FALSE), file.test, Nearby) : r.type = n.type /\ r.score >= n.score
      BY <1>3, <1>6, <1>8, NearbyType, RisksGrow
    <2>2. \A r \in Risks(Signals(text, FALSE), file.test, Nearby) : r.score >= n.score => n.score <= r.score
      OBVIOUS
    <2> QED BY <1>8, <2>1, <2>2
  <1>10. ~Accepted(text)'
    BY <1>7 DEF Accepted
  <1>11. ASSUME NEW i \in Calls(text), AtHead(text, WithTimezone \cup {"datetime"}, i)
         PROVE  \E j \in ImportsOf(text', WithTimezone) : ~text'[j].deep /\ j < i
    <2>1. ImportsTimezone(text) \/ (ImportsOf(text, {"datetime"}) # {} /\ ImportIsSimple(text))
      BY <1>1 DEF Accepted
    <2>2. \E j \in ImportsOf(Patched(text), WithTimezone) : ~Patched(text)[j].deep /\ j < i
      BY <1>1, <1>11, <2>1, TimezoneBound
    <2> QED BY <1>1, <2>2, Zenon
  <1> QED BY <1>7, <1>8, <1>9, <1>10, <1>11, Zenon DEF DraftWorked, AtHead

(***************************************************************************)
(* The theorems.                                                           *)
(***************************************************************************)
\* Texts and drafts remain sequences of lines within the bound, a draft as long
\* as the text it was made of (patch_drafter.py:61-214).
THEOREM TypeCorrect == Spec => []TypeOK
  <1>1. SourceInv => TypeOK
    BY DEF SourceInv
  <1> QED BY <1>1, SourceInvariant, PTL

\* The score's floor drops no file but a test file beside a test of its name,
\* with one signal worth no more than its penalty (risk_mapper.py:31-146).
THEOREM OnlyWeakDropped == Spec => []DroppedAreWeak
  <1>1. SourceInv => DroppedAreWeak
    BY WeakDropped DEF SourceInv
  <1> QED BY <1>1, SourceInvariant, PTL

\* However long the text and wherever its calls, imports and form feeds stand:
\* above the first form feed a draft changes each plain call and at most one
\* import, none where some import names timezone, and nothing else
\* (patch_drafter.py:140-214).
THEOREM ExactDraft == Spec => []DraftIsExact
  <1> QED BY DraftExact, SourceInvariant, PTL

\* No line its owner inserts makes a file that still parses look safer, in
\* whatever order names are bound and compared (python_datetime_analyzer.py:8-101).
THEOREM NothingHidden == Spec => SignalsOnlyAdd
  <1>1. SourceInv /\ [Next]_vars => [RisksKept]_vars
    BY InsertKeeps
  <1>2. SignalsOnlyAdd <=> [][RisksKept]_vars
    BY DEF SignalsOnlyAdd, RisksKept
  <1> QED BY <1>1, <1>2, SourceInvariant, PTL DEF Spec

\* However long a text without form feeds, and wherever its imports stand: its
\* draft, once applied, rids it of every call it can, raises no score, leaves
\* nothing to draft, and timezone is bound at each call below the imports, where
\* all of them are the module's own; an import inside a function, as `from
\* datetime import timezone` there, takes that promise back
\* (patch_drafter.py:140-214, python_datetime_analyzer.py:8-101).
THEOREM DraftsThatWork == Spec => AppliedDraftWorks
  <1>1. SourceInv /\ [Next]_vars => [DraftWorked]_vars
    BY AppliedWorks
  <1>2. AppliedDraftWorks <=> [][DraftWorked]_vars
    BY DEF AppliedDraftWorks, DraftWorked
  <1> QED BY <1>1, <1>2, SourceInvariant, PTL DEF Spec
=============================================================================
