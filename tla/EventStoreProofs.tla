-------------------------- MODULE EventStoreProofs --------------------------
(***************************************************************************)
(* The JSONL stores implement EventStore: the initial states map to its    *)
(* initial state, and every step of MycoLog is a step of EventStore or     *)
(* changes nothing there.                                                  *)
(*                                                                         *)
(* What is left to show beside MycoLogProofs is the counting: a short      *)
(* write costs at most two acknowledged records.  StoreInv adds to LogInv  *)
(* that a record has at most one unfinished piece in a file, so that each  *)
(* loss can be charged to one tear, as its own or as the one before it.    *)
(***************************************************************************)
EXTENDS MycoLogProofs, FiniteSetTheorems

\* Every piece is of a record whose append was called.
PiecesBegun == \A f \in File : \A j \in 1..Len(file[f]) : file[f][j].ev \in begun

\* A session about to write has nothing of its record on disk.
Unwritten ==
    \A s \in Session : pc[s] = "write" =>
        \A f \in File : \A j \in 1..Len(file[f]) : file[f][j].ev # cur[s]

\* A record is torn once in a file at most.
TornOnce(q) ==
    \A i, j \in 1..Len(q) :
        q[i].ev = q[j].ev /\ ~Ends(q[i]) /\ ~Ends(q[j]) => i = j
OneTear == \A f \in File : TornOnce(file[f])

Finite == IsFiniteSet(acked) /\ IsFiniteSet(Tears)

StoreInv ==
    /\ LogInv
    /\ PiecesBegun
    /\ Unwritten
    /\ OneTear
    /\ Finite

-----------------------------------------------------------------------------
(* What a write changes. *)

\* The only record an append can make readable is its own.
LEMMA RecordsAppend ==
    ASSUME NEW q \in Seq(Piece), NEW p \in Piece
    PROVE  Records(Append(q, p)) \subseteq Records(q) \cup {p.ev}
  <1> DEFINE r == Append(q, p)
  <1>1. /\ Len(q) \in Nat /\ Len(r) = Len(q) + 1
        /\ \A i \in 1..Len(q) : r[i] = q[i]
        /\ r[Len(q) + 1] = p
    BY AppendKeeps
  <1>2. \A i \in 1..Len(q) : Parses(r, i) => Parses(q, i)
    BY ParsesStable
  <1> HIDE DEF r
  <1> SUFFICES ASSUME NEW i \in 1..Len(r), Closes(r, i), Parses(r, i)
               PROVE  r[i].ev \in Records(q) \cup {p.ev}
    BY DEF Records, r
  <1>3. CASE i = Len(r)
    BY <1>1, <1>3
  <1>4. CASE i # Len(r)
    <2>1. i \in 1..Len(q) /\ Closes(q, i) /\ Parses(q, i) /\ r[i] = q[i]
      BY <1>1, <1>2, <1>4 DEF Closes
    <2> QED BY <2>1 DEF Records
  <1> QED BY <1>3, <1>4

\* Whether an acknowledged record can be read is not for another's write to
\* change.
LEMMA PutKeepsLost ==
    ASSUME LogInv, NEW e \in Event, NEW k \in Part, Put(e, k), NEW x \in acked, x # e
    PROVE  Readable(x)' <=> Readable(x)
  <1>0. TypeOK /\ x \in Event /\ Target[x] \in File
    BY TargetAssumption DEF LogInv, TypeOK
  <1>1. Readable(x) => Readable(x)'
    BY <1>0, PutKeepsReadable DEF LogInv, AckedFinished
  <1>2. CASE Target[x] = Target[e]
    <2> DEFINE p == [ev |-> e, part |-> k]
    <2>1. /\ p \in Piece /\ p.ev = e
          /\ file[Target[x]] \in Seq(Piece)
          /\ file'[Target[x]] = Append(file[Target[x]], p)
      BY <1>0, <1>2, PutEffect
    <2>2. Records(file'[Target[x]]) \subseteq Records(file[Target[x]]) \cup {p.ev}
      BY <2>1, RecordsAppend
    <2> QED BY <1>1, <2>1, <2>2 DEF Readable
  <1>3. CASE Target[x] # Target[e]
    BY <1>0, <1>1, <1>3, PutEffect DEF Readable
  <1> QED BY <1>2, <1>3

\* A write that ends its line leaves the tears as they are, a short one adds its
\* own.
LEMMA PutTears ==
    ASSUME LogInv, NEW e \in Event, NEW k \in Part, Put(e, k)
    PROVE  Tears' = IF k \in {"head", "body"} THEN Tears \cup {<<Target[e], e>>} ELSE Tears
  <1> DEFINE q(f) == file[f]
             r(f) == file'[f]
             Torn(s, x) == \E i \in 1..Len(s) : s[i].ev = x /\ ~Ends(s[i])
  <1>0. TypeOK
    BY DEF LogInv
  <1>1. \A f \in File :
          /\ Len(q(f)) \in Nat /\ DOMAIN q(f) = 1..Len(q(f))
          /\ Len(r(f)) \in Nat /\ DOMAIN r(f) = 1..Len(r(f))
    BY <1>0, PutEffect, LenProperties
  <1>2. Target[e] \in File
    BY TargetAssumption
  <1>3. ASSUME NEW f \in File, NEW x \in Event
        PROVE  Torn(r(f), x) <=>
                 Torn(q(f), x) \/ (f = Target[e] /\ x = e /\ k \in {"head", "body"})
    <2>1. /\ Len(q(f)) <= Len(r(f))
          /\ \A j \in 1..Len(q(f)) : r(f)[j] = q(f)[j]
          /\ f = Target[e] => /\ Len(r(f)) = Len(q(f)) + 1
                              /\ r(f)[Len(r(f))] = [ev |-> e, part |-> k]
          /\ f # Target[e] => r(f) = q(f)
      BY <1>0, PutKeepsPieces
    <2>2. Ends([ev |-> e, part |-> k]) <=> k \notin {"head", "body"}
      BY DEF Ends, Part
    <2>3. CASE f = Target[e]
      <3>1. 1..Len(r(f)) = 1..Len(q(f)) \cup {Len(r(f))}
        BY <1>1, <2>1, <2>3
      <3>2. Torn(r(f), x) <=>
              \/ Torn(q(f), x)
              \/ r(f)[Len(r(f))].ev = x /\ ~Ends(r(f)[Len(r(f))])
        BY <2>1, <3>1
      <3> QED BY <2>1, <2>2, <2>3, <3>2
    <2>4. CASE f # Target[e]
      BY <2>1, <2>4
    <2> QED BY <2>3, <2>4
  <1>4. Tears = {t \in File \X Event : Torn(q(t[1]), t[2])}
    BY <1>1 DEF Tears
  <1>5. Tears' = {t \in File \X Event : Torn(r(t[1]), t[2])}
    BY <1>1 DEF Tears
  <1> HIDE DEF Torn, q, r
  <1>6. \A t \in File \X Event :
          t \in Tears' <=> t \in Tears \/ (t = <<Target[e], e>> /\ k \in {"head", "body"})
    BY <1>3, <1>4, <1>5
  <1>7. <<Target[e], e>> \in File \X Event /\ Tears \subseteq File \X Event /\ Tears' \subseteq File \X Event
    BY <1>2, <1>4, <1>5
  <1> QED BY <1>6, <1>7

-----------------------------------------------------------------------------
(* The counting. *)

LEMMA TwoEach ==
    ASSUME NEW S, NEW T, IsFiniteSet(T),
           NEW A \in SUBSET S, NEW f \in [A -> T], NEW g \in [S \ A -> T],
           \A x, y \in A : f[x] = f[y] => x = y,
           \A x, y \in S \ A : g[x] = g[y] => x = y
    PROVE  IsFiniteSet(S) /\ Cardinality(S) <= 2 * Cardinality(T)
  <1>1. f \in Injection(A, T) /\ g \in Injection(S \ A, T)
    BY DEF Injection, IsInjective
  <1>2. /\ IsFiniteSet(A) /\ Cardinality(A) <= Cardinality(T)
        /\ IsFiniteSet(S \ A) /\ Cardinality(S \ A) <= Cardinality(T)
    BY <1>1, FS_Injection
  <1>3. A \cup (S \ A) = S /\ A \cap (S \ A) = {}
    OBVIOUS
  <1>4. /\ IsFiniteSet(S)
        /\ Cardinality(S) = Cardinality(A) + Cardinality(S \ A) - Cardinality({})
    BY <1>2, <1>3, FS_Union
  <1>5. /\ Cardinality(A) \in Nat /\ Cardinality(S \ A) \in Nat /\ Cardinality(T) \in Nat
        /\ Cardinality({}) = 0
    BY <1>2, FS_CardinalityType, FS_EmptySet
  <1> QED BY <1>2, <1>4, <1>5

\* Each loss is charged to its own tear, or else to the tear it was appended
\* behind: no tear is charged twice in the same way.
LEMMA LossesCounted ==
    ASSUME LogInv, OneTear, IsFiniteSet(Tears)
    PROVE  IsFiniteSet(Lost) /\ Cardinality(Lost) <= 2 * Cardinality(Tears)
  <1> DEFINE Own == {e \in Lost : <<Target[e], e>> \in Tears}
             Before(e, x) == \E j \in 1..Len(file[Target[e]]) :
                                /\ j > 1 /\ file[Target[e]][j].ev = e
                                /\ ~Ends(file[Target[e]][j - 1])
                                /\ file[Target[e]][j - 1].ev = x
             f == [e \in Own |-> <<Target[e], e>>]
             Cause(e) == CHOOSE x \in Event : Before(e, x)
             g == [e \in Lost \ Own |-> <<Target[e], Cause(e)>>]
  <1>0. /\ \A e \in Lost : e \in Event /\ Target[e] \in File
        /\ \A h \in File : /\ file[h] \in Seq(Piece) /\ Len(file[h]) \in Nat
                          /\ DOMAIN file[h] = 1..Len(file[h])
                          /\ \A j \in 1..Len(file[h]) : file[h][j].ev \in Event
    <2>1. \A h \in File : file[h] \in Seq(Piece)
      BY DEF LogInv, TypeOK
    <2>2. \A h \in File : \A j \in 1..Len(file[h]) : file[h][j] \in Piece
      BY <2>1, ElementOfSeq
    <2> QED BY <2>1, <2>2, TargetAssumption, LenProperties DEF LogInv, TypeOK, Lost, Piece
  <1>1. \A e \in Lost \ Own : \E x \in Event : Before(e, x)
    <2> SUFFICES ASSUME NEW e \in Lost \ Own PROVE \E x \in Event : Before(e, x)
      OBVIOUS
    <2>1. PICK j \in 1..Len(file[Target[e]]) :
            /\ file[Target[e]][j].ev = e
            /\ \/ ~Ends(file[Target[e]][j])
               \/ j > 1 /\ ~Ends(file[Target[e]][j - 1]) /\ file[Target[e]][j - 1].ev # e
      BY BesideTear DEF LostBesideTear, Lost
    <2>2. Ends(file[Target[e]][j])
      BY <1>0, <2>1 DEF Tears
    <2>3. j > 1 /\ j - 1 \in 1..Len(file[Target[e]]) /\ Before(e, file[Target[e]][j - 1].ev)
      BY <1>0, <2>1, <2>2
    <2> QED BY <1>0, <2>3
  <1>2. \A e \in Lost \ Own : Cause(e) \in Event /\ Before(e, Cause(e))
    BY <1>1
  <1> HIDE DEF Cause
  <1>3. \A e \in Lost \ Own : g[e] \in Tears
    <2> SUFFICES ASSUME NEW e \in Lost \ Own PROVE g[e] \in Tears
      OBVIOUS
    <2>1. PICK j \in 1..Len(file[Target[e]]) :
            /\ j > 1 /\ file[Target[e]][j].ev = e
            /\ ~Ends(file[Target[e]][j - 1])
            /\ file[Target[e]][j - 1].ev = Cause(e)
      BY <1>2
    <2>2. j - 1 \in DOMAIN file[Target[e]]
      BY <1>0, <2>1
    <2>3. <<Target[e], Cause(e)>> \in Tears
      BY <1>0, <1>2, <2>1, <2>2 DEF Tears
    <2> QED BY <2>3
  <1>4. ASSUME NEW x \in Lost \ Own, NEW y \in Lost \ Own, g[x] = g[y] PROVE x = y
    <2>1. Target[x] = Target[y] /\ Cause(x) = Cause(y) /\ Target[x] \in File
      BY <1>0, <1>4
    <2> DEFINE q == file[Target[x]]
    <2>2. PICK i \in 1..Len(q) :
            i > 1 /\ q[i].ev = x /\ ~Ends(q[i - 1]) /\ q[i - 1].ev = Cause(x)
      BY <1>2
    <2>3. PICK j \in 1..Len(q) :
            j > 1 /\ q[j].ev = y /\ ~Ends(q[j - 1]) /\ q[j - 1].ev = Cause(x)
      BY <1>2, <2>1
    <2>4. i - 1 \in 1..Len(q) /\ j - 1 \in 1..Len(q) /\ i \in Int /\ j \in Int
      BY <1>0, <2>1, <2>2, <2>3
    <2>5. i - 1 = j - 1
      BY <2>1, <2>2, <2>3, <2>4 DEF OneTear, TornOnce
    <2> QED BY <2>2, <2>3, <2>4, <2>5
  <1>5. f \in [Own -> Tears] /\ \A x, y \in Own : f[x] = f[y] => x = y
    OBVIOUS
  <1>6. g \in [Lost \ Own -> Tears]
    BY <1>3
  <1>7. Own \in SUBSET Lost
    OBVIOUS
  <1>8. \A x, y \in Lost \ Own : g[x] = g[y] => x = y
    BY <1>4
  <1> HIDE DEF Own, f, g
  <1> QED BY <1>5, <1>6, <1>7, <1>8, TwoEach

-----------------------------------------------------------------------------
(* The invariant. *)

LEMMA StoreInvInit == Init => StoreInv
  <1> SUFFICES ASSUME Init PROVE StoreInv
    OBVIOUS
  <1>1. LogInv
    BY LogInvInit
  <1>2. \A f \in File : file[f] = <<>> /\ Len(file[f]) = 0 /\ DOMAIN file[f] = {}
    BY EmptySeq, LenProperties DEF Init
  <1>3. PiecesBegun /\ Unwritten /\ OneTear
    BY <1>2 DEF PiecesBegun, Unwritten, OneTear, TornOnce
  <1>4. Tears = {} /\ acked = {}
    BY <1>2 DEF Tears, Init
  <1> QED BY <1>1, <1>3, <1>4, FS_EmptySet DEF StoreInv, Finite

\* A session puts the next piece of its record on disk.
LEMMA PutStep ==
    ASSUME StoreInv, LogInv', NEW s \in Session, NEW k \in Part, pc[s] # "idle",
           k \in {"head", "body"} => pc[s] = "write",
           Put(cur[s], k), cur' = cur, begun' = begun,
           acked' = acked \/ acked' = acked \cup {cur[s]},
           pc'[s] # "write", \A t \in Session \ {s} : pc'[t] = pc[t]
    PROVE  StoreInv'
  <1> DEFINE e == cur[s]
  <1>0. TypeOK /\ e \in Event /\ e \in begun
    BY DEF StoreInv, LogInv, TypeOK, WritersApart
  <1>1. \A f \in File :
          /\ Len(file[f]) \in Nat /\ Len(file'[f]) \in Nat
          /\ \A j \in 1..Len(file[f]) : file'[f][j] = file[f][j]
          /\ f = Target[e] => /\ Len(file'[f]) = Len(file[f]) + 1
                              /\ file'[f][Len(file'[f])] = [ev |-> e, part |-> k]
          /\ f # Target[e] => file'[f] = file[f]
    BY <1>0, PutKeepsPieces
  <1>2. \A f \in File : \A j \in 1..Len(file'[f]) :
          \/ j \in 1..Len(file[f]) /\ file'[f][j] = file[f][j]
          \/ j = Len(file[f]) + 1 /\ file'[f][j] = [ev |-> e, part |-> k]
    BY <1>1
  <1>3. PiecesBegun'
    BY <1>0, <1>2 DEF StoreInv, PiecesBegun
  <1>4. Unwritten'
    <2> SUFFICES ASSUME NEW t \in Session, pc'[t] = "write", NEW f \in File,
                        NEW j \in 1..Len(file'[f])
                 PROVE  file'[f][j].ev # cur[t]
      BY DEF Unwritten
    <2>1. t # s /\ pc[t] = "write"
      OBVIOUS
    <2>2. cur[t] # e
      BY <2>1 DEF StoreInv, LogInv, WritersApart
    <2> QED BY <1>2, <2>1, <2>2 DEF StoreInv, Unwritten
  <1>5. OneTear'
    <2> SUFFICES ASSUME NEW f \in File, NEW i \in 1..Len(file'[f]), NEW j \in 1..Len(file'[f]),
                        file'[f][i].ev = file'[f][j].ev,
                        ~Ends(file'[f][i]), ~Ends(file'[f][j])
                 PROVE  i = j
      BY DEF OneTear, TornOnce
    <2>1. CASE k \in {"head", "body"}
      <3>1. \A n \in 1..Len(file[f]) : file[f][n].ev # e
        BY <2>1 DEF StoreInv, Unwritten
      <3> QED BY <1>2, <3>1 DEF StoreInv, OneTear, TornOnce
    <2>2. CASE k \notin {"head", "body"}
      <3>1. Ends([ev |-> e, part |-> k])
        BY <2>2 DEF Ends, Part
      <3> QED BY <1>2, <3>1 DEF StoreInv, OneTear, TornOnce
    <2> QED BY <2>1, <2>2
  <1>6. Finite'
    <2>1. \E t : Tears' = Tears \/ Tears' = Tears \cup {t}
      BY <1>0, PutTears DEF StoreInv
    <2>2. IsFiniteSet(Tears')
      BY <2>1, FS_AddElement DEF StoreInv, Finite
    <2>3. IsFiniteSet(acked')
      BY FS_AddElement DEF StoreInv, Finite
    <2> QED BY <2>2, <2>3 DEF Finite
  <1> QED BY <1>3, <1>4, <1>5, <1>6 DEF StoreInv

LEMMA StoreInvStep == StoreInv /\ [Next]_vars => StoreInv'
  <1> SUFFICES ASSUME StoreInv, [Next]_vars PROVE StoreInv'
    OBVIOUS
  <1>0. LogInv' /\ TypeOK /\ \A s \in Session : cur[s] \in Event
    BY LogInvStep DEF StoreInv, LogInv, TypeOK
  <1>1. ASSUME NEW s \in Session, NEW e \in Event, Call(s, e) PROVE StoreInv'
    <2> USE <1>1 DEF Call
    <2>1. PiecesBegun' /\ OneTear'
      BY DEF StoreInv, PiecesBegun, OneTear
    <2>2. Unwritten'
      <3> SUFFICES ASSUME NEW t \in Session, pc'[t] = "write", NEW f \in File,
                          NEW j \in 1..Len(file[f])
                   PROVE  file[f][j].ev # cur'[t]
        BY DEF Unwritten
      <3>1. CASE t = s
        BY <1>0, <3>1 DEF TypeOK, StoreInv, PiecesBegun
      <3>2. CASE t # s
        BY <1>0, <3>2 DEF TypeOK, StoreInv, Unwritten
      <3> QED BY <3>1, <3>2
    <2>3. Finite'
      BY DEF StoreInv, Finite, Tears
    <2> QED BY <1>0, <2>1, <2>2, <2>3 DEF StoreInv
  <1>2. ASSUME NEW s \in Session, WriteLine(s) PROVE StoreInv'
    <2>1. /\ pc'[s] # "write" /\ \A t \in Session \ {s} : pc'[t] = pc[t]
          /\ pc[s] # "idle" /\ Put(cur[s], "whole") /\ "whole" \in Part
          /\ cur' = cur /\ begun' = begun /\ acked' = acked \cup {cur[s]}
      BY <1>0, <1>2 DEF WriteLine, Return, TypeOK, Part
    <2> QED BY <1>0, <2>1, PutStep
  <1>3. ASSUME NEW s \in Session, NEW k \in {"head", "body"}, ShortWrite(s, k) PROVE StoreInv'
    <2>1. /\ pc'[s] # "write" /\ \A t \in Session \ {s} : pc'[t] = pc[t]
          /\ pc[s] = "write" /\ Put(cur[s], k) /\ k \in Part
          /\ cur' = cur /\ begun' = begun /\ acked' = acked
      BY <1>0, <1>3 DEF ShortWrite, TypeOK, Part
    <2> QED BY <1>0, <2>1, PutStep
  <1>4. ASSUME NEW s \in Session, WriteRest(s) PROVE StoreInv'
    <2>1. /\ pc'[s] # "write" /\ \A t \in Session \ {s} : pc'[t] = pc[t]
          /\ pc[s] # "idle" /\ cur' = cur /\ begun' = begun /\ acked' = acked \cup {cur[s]}
      BY <1>0, <1>4 DEF WriteRest, Return, TypeOK
    <2>2. PICK k \in {"tail", "nl"} : Put(cur[s], k)
      BY <1>4 DEF WriteRest
    <2>3. k \in Part
      BY DEF Part
    <2> QED BY <1>0, <2>1, <2>2, <2>3, PutStep
  <1>5. ASSUME NEW s \in Session, Abort(s) PROVE StoreInv'
    <2> USE <1>5 DEF Abort
    <2>1. PiecesBegun' /\ OneTear'
      BY DEF StoreInv, PiecesBegun, OneTear
    <2>2. Unwritten'
      BY <1>0 DEF TypeOK, StoreInv, Unwritten
    <2>3. Finite'
      BY DEF StoreInv, Finite, Tears
    <2> QED BY <1>0, <2>1, <2>2, <2>3 DEF StoreInv
  <1>6. CASE UNCHANGED logVars
    <2> USE <1>6 DEF logVars
    <2>1. PiecesBegun' /\ OneTear' /\ Unwritten'
      BY DEF StoreInv, PiecesBegun, OneTear, Unwritten
    <2>2. Finite'
      BY DEF StoreInv, Finite, Tears
    <2> QED BY <1>0, <2>1, <2>2 DEF StoreInv
  <1>7. StartRead \/ ReadFile \/ UNCHANGED vars => UNCHANGED logVars
    BY DEF StartRead, ReadFile, vars
  <1> QED BY <1>1, <1>2, <1>3, <1>4, <1>5, <1>6, <1>7 DEF Next

-----------------------------------------------------------------------------
(* The simulation. *)

LEMMA Allowed ==
    ASSUME StoreInv
    PROVE  /\ IsFiniteSet(Lost) /\ IsFiniteSet(Tears)
           /\ Cardinality(Lost) \in Nat /\ Cardinality(Tears) \in Nat
           /\ Cardinality(Lost) <= 2 * Cardinality(Tears)
  BY LossesCounted, FS_CardinalityType DEF StoreInv, Finite

Covered == Cardinality(Lost) <= 2 * Cardinality(Tears)

LEMMA CoveredNow == StoreInv => Covered
  BY Allowed DEF Covered

LEMMA CoveredNext == StoreInv' => Covered'
  BY CoveredNow, PTL

\* A record whose append returns is kept or lost there and then.
LEMMA ReturnMaps ==
    ASSUME StoreInv, StoreInv', NEW e \in begun \ acked, NEW k \in {"whole", "tail", "nl"},
           Put(e, k), begun' = begun, acked' = acked \cup {e}
    PROVE  Store!Keep(e) \/ Store!Lose(e)
  <1>0. LogInv /\ e \in Event /\ k \in Part
    BY DEF StoreInv, LogInv, TypeOK, Part
  <1>1. \A x \in acked : Readable(x)' <=> Readable(x)
    BY <1>0, PutKeepsLost
  <1>2. Tears' = Tears
    BY <1>0, PutTears
  <1>3. CASE Readable(e)'
    <2>1. Lost' = Lost
      BY <1>1, <1>3 DEF Lost
    <2>2. (acked \ Lost)' = (acked \ Lost) \cup {e}
      BY <2>1 DEF Lost
    <2>3. Store!Keep(e)
      BY <1>2, <2>1, <2>2 DEF Store!Keep
    <2> QED BY <2>3
  <1>4. CASE ~Readable(e)'
    <2>1. Lost' = Lost \cup {e} /\ e \notin Lost
      BY <1>1, <1>4 DEF Lost
    <2>2. Cardinality(Lost') = Cardinality(Lost) + 1
      BY <2>1, Allowed, FS_AddElement
    <2>3. Cardinality(Lost') <= 2 * Cardinality(Tears) /\ Cardinality(Lost) \in Nat /\ Cardinality(Tears) \in Nat
      BY <1>2, Allowed, CoveredNext DEF Covered
    <2>4. (acked \ Lost)' = acked \ Lost
      BY <2>1 DEF Lost
    <2>5. Store!Lose(e)
      BY <1>2, <2>2, <2>3, <2>4 DEF Store!Lose
    <2> QED BY <2>5
  <1> QED BY <1>3, <1>4

\* The files, the sessions and the reader implement the store their callers see:
\* an append is kept for good or lost when it returns, each short write costs two
\* acknowledged records at most, and nothing else costs any (memory.py:22-35,
\* cost.py:15-43, jsonl.py:22-54).
THEOREM StoreImplemented == Spec => ImplementsStore
  <1>1. Init => Store!StoreInit
    <2> SUFFICES ASSUME Init PROVE Store!StoreInit
      OBVIOUS
    <2>1. \A f \in File : file[f] = <<>> /\ DOMAIN file[f] = {}
      BY EmptySeq, LenProperties DEF Init
    <2>2. Tears = {} /\ acked = {} /\ begun = {}
      BY <2>1 DEF Tears, Init
    <2>3. Lost = {}
      BY <2>2 DEF Lost
    <2> QED BY <2>2, <2>3, FS_EmptySet DEF Store!StoreInit
  <1>2. StoreInv /\ StoreInv' /\ [Next]_vars => [Store!StoreNext]_(Store!storeVars)
    <2> SUFFICES ASSUME StoreInv, StoreInv', [Next]_vars
                 PROVE  Store!StoreNext \/ UNCHANGED Store!storeVars
      OBVIOUS
    <2>0. LogInv /\ TypeOK /\ \A s \in Session : cur[s] \in Event
      BY DEF StoreInv, LogInv, TypeOK
    <2>w. \A s \in Session : pc[s] # "idle" => cur[s] \in begun \ acked
      BY <2>0 DEF LogInv, WritersApart
    <2>1. ASSUME NEW s \in Session, NEW e \in Event, Call(s, e) PROVE Store!Offer(e)
      <3>1. Tears' = Tears /\ Lost' = Lost
        BY <2>1 DEF Call, Tears, Lost, Readable
      <3> QED BY <2>1, <3>1 DEF Call, Store!Offer
    <2>2. ASSUME NEW s \in Session, WriteLine(s) PROVE Store!Keep(cur[s]) \/ Store!Lose(cur[s])
      BY <2>w, <2>2, ReturnMaps DEF WriteLine, Return
    <2>3. ASSUME NEW s \in Session, NEW k \in {"head", "body"}, ShortWrite(s, k) PROVE Store!Fault
      <3> DEFINE t == <<Target[cur[s]], cur[s]>>
      <3>1. /\ pc[s] = "write" /\ Put(cur[s], k) /\ k \in Part
            /\ begun' = begun /\ acked' = acked /\ cur[s] \notin acked
        BY <2>w, <2>3 DEF ShortWrite, Part
      <3>2. \A x \in acked : Readable(x)' <=> Readable(x)
        BY <2>0, <3>1, PutKeepsLost
      <3>3. Lost' = Lost /\ (acked \ Lost)' = acked \ Lost
        BY <3>1, <3>2 DEF Lost
      <3>4. Tears' = Tears \cup {t}
        BY <2>0, <3>1, PutTears
      <3>5. t \notin Tears
        <4>1. \A f \in File : DOMAIN file[f] = 1..Len(file[f])
          BY <2>0, LenProperties DEF TypeOK
        <4> QED BY <2>0, <3>1, <4>1, TargetAssumption DEF StoreInv, Unwritten, Tears
      <3>6. Cardinality(Tears') = Cardinality(Tears) + 1
        BY <3>4, <3>5, Allowed, FS_AddElement
      <3> QED BY <3>1, <3>3, <3>6, Allowed DEF Store!Fault
    <2>4. ASSUME NEW s \in Session, WriteRest(s) PROVE Store!Keep(cur[s]) \/ Store!Lose(cur[s])
      <3>1. pc[s] # "idle" /\ begun' = begun /\ acked' = acked \cup {cur[s]}
        BY <2>4 DEF WriteRest, Return
      <3>2. PICK k \in {"tail", "nl"} : Put(cur[s], k)
        BY <2>4 DEF WriteRest
      <3> QED BY <2>w, <3>1, <3>2, ReturnMaps
    <2>5. ASSUME UNCHANGED <<file, begun, acked>> PROVE UNCHANGED Store!storeVars
      BY <2>5 DEF Store!storeVars, Tears, Lost, Readable
    <2>6. (\E s \in Session : Abort(s)) \/ StartRead \/ ReadFile \/ UNCHANGED vars
            => UNCHANGED <<file, begun, acked>>
      BY DEF Abort, StartRead, ReadFile, vars, logVars
    <2> QED BY <2>0, <2>1, <2>2, <2>3, <2>4, <2>5, <2>6 DEF Next, Store!StoreNext
  <1>3. Spec => []StoreInv
    BY StoreInvInit, StoreInvStep, PTL DEF Spec
  <1> QED BY <1>1, <1>2, <1>3, PTL DEF Spec, ImplementsStore, Store!StoreSpec
=============================================================================
