--------------------------- MODULE MycoLogProofs ---------------------------
(***************************************************************************)
(* What TLAPS proves of the JSONL stores, for every set of sessions,       *)
(* records and files.                                                      *)
(*                                                                         *)
(* The safety properties of MycoLog are not inductive: whether a record    *)
(* can be read depends on its neighbours in the file.  LogInv adds what    *)
(* is: where the pieces of acknowledged and unfinished records lie, and    *)
(* that every piece stands on a line that is closed somewhere.             *)
(***************************************************************************)
EXTENDS MycoLog, TLAPS, SequenceTheorems

\* A record being appended is begun and not acknowledged, and no other session
\* appends it.
WritersApart ==
    \A s \in Session : pc[s] # "idle" =>
        /\ cur[s] \in begun \ acked
        /\ \A t \in Session : pc[t] # "idle" /\ cur[t] = cur[s] => t = s

\* What a session has left on disk after a short write.
PartsWritten ==
    \A s \in Session : pc[s] \in {"head", "body"} =>
        \E j \in 1..Len(file[Target[cur[s]]]) :
            file[Target[cur[s]]][j] = [ev |-> cur[s], part |-> pc[s]]

\* What the file holds of an acknowledged record.
HasAll(q, e) ==
    \E j \in 1..Len(q) :
        /\ q[j].ev = e
        /\ \/ q[j].part \in {"whole", "body"}
           \/ q[j].part = "tail" /\ \E k \in 1..Len(q) : q[k].ev = e /\ q[k].part = "head"

AckedPlaced == \A e \in acked : HasAll(file[Target[e]], e)

\* The last piece of a file is not an unfinished piece of an acknowledged record.
AckedFinished ==
    \A e \in acked : \A j \in 1..Len(file[Target[e]]) :
        file[Target[e]][j].ev = e /\ ~Ends(file[Target[e]][j])
            => j < Len(file[Target[e]])

\* Every piece stands on a line.
Placed(q) == \A j \in 1..Len(q) : \E i \in 1..Len(q) : OnLine(q, j, i)
AllPlaced == \A f \in File : Placed(file[f])

LogInv ==
    /\ TypeOK
    /\ acked \subseteq begun
    /\ WritersApart
    /\ PartsWritten
    /\ AckedPlaced
    /\ AckedFinished
    /\ AllPlaced

-----------------------------------------------------------------------------
(* Sequences of pieces. *)

\* Appending a piece keeps every piece where it was.
LEMMA AppendKeeps ==
    ASSUME NEW q \in Seq(Piece), NEW p \in Piece
    PROVE  /\ Append(q, p) \in Seq(Piece)
           /\ Len(q) \in Nat
           /\ Len(Append(q, p)) = Len(q) + 1
           /\ \A i \in 1..Len(q) : Append(q, p)[i] = q[i]
           /\ Append(q, p)[Len(q) + 1] = p
  BY AppendProperties, LenProperties

\* Whether a line that is ended, and a piece before it, parse does not change.
LEMMA ParsesStable ==
    ASSUME NEW q \in Seq(Piece), NEW p \in Piece, NEW i \in 1..Len(q)
    PROVE  Parses(Append(q, p), i) <=> Parses(q, i)
  <1> DEFINE r == Append(q, p)
  <1>1. /\ Len(q) \in Nat /\ r[i] = q[i]
        /\ i > 1 => r[i - 1] = q[i - 1]
        /\ i > 2 => r[i - 2] = q[i - 2]
    BY AppendKeeps
  <1>2. /\ Opens(r, i) <=> Opens(q, i)
        /\ i > 1 => (Opens(r, i - 1) <=> Opens(q, i - 1))
    BY <1>1 DEF Opens
  <1> QED
    BY <1>1, <1>2 DEF Parses

\* Appending a piece leaves every piece on a line.
LEMMA PlacedAppend ==
    ASSUME NEW q \in Seq(Piece), NEW p \in Piece, Placed(q)
    PROVE  Placed(Append(q, p))
  <1> DEFINE r == Append(q, p)
  <1>1. Len(q) \in Nat /\ Len(r) = Len(q) + 1 /\ \A i \in 1..Len(q) : r[i] = q[i]
    BY AppendKeeps
  <1> SUFFICES ASSUME NEW j \in 1..Len(r)
               PROVE  \E i \in 1..Len(r) : OnLine(r, j, i)
    BY DEF Placed
  <1> HIDE DEF r
  <1>2. CASE j = Len(r)
    <2>1. OnLine(r, j, j)
      BY <1>1, <1>2 DEF OnLine, Closes
    <2> QED BY <2>1
  <1>3. CASE j # Len(r)
    <2>1. PICK i \in 1..Len(q) : OnLine(q, j, i)
      BY <1>1, <1>3 DEF Placed
    <2>2. CASE Ends(q[i])
      <3>1. OnLine(r, j, i)
        BY <1>1, <2>1, <2>2 DEF OnLine, Closes
      <3> QED BY <1>1, <3>1
    <2>3. CASE ~Ends(q[i])
      <3>1. i = Len(q)
        BY <2>1, <2>3 DEF OnLine, Closes
      <3>2. \A k \in j..(Len(r) - 1) : ~Ends(r[k])
        BY <1>1, <2>1, <2>3, <3>1 DEF OnLine
      <3>3. OnLine(r, j, Len(r))
        BY <1>1, <2>1, <3>2 DEF OnLine, Closes
      <3> QED BY <1>1, <3>3
    <2> QED BY <2>2, <2>3
  <1> QED BY <1>2, <1>3

\* What the file holds of a record, it still holds after an append.
LEMMA HasAllAppend ==
    ASSUME NEW q \in Seq(Piece), NEW p \in Piece, NEW e, HasAll(q, e)
    PROVE  HasAll(Append(q, p), e)
  <1> DEFINE r == Append(q, p)
  <1>1. Len(q) \in Nat /\ Len(r) = Len(q) + 1 /\ \A i \in 1..Len(q) : r[i] = q[i]
    BY AppendKeeps
  <1> HIDE DEF r
  <1>2. 1..Len(q) \subseteq 1..Len(r)
    BY <1>1
  <1>3. HasAll(r, e)
    BY <1>1, <1>2 DEF HasAll
  <1> QED BY <1>3 DEF r

-----------------------------------------------------------------------------
(* Type correctness. *)

LEMMA PutType ==
    ASSUME TypeOK, NEW e \in Event, NEW k \in Part, Put(e, k)
    PROVE  file' \in [File -> Seq(Piece)]
  <1>1. Target[e] \in File
    BY TargetAssumption
  <1>2. [ev |-> e, part |-> k] \in Piece
    BY DEF Piece
  <1>3. Append(file[Target[e]], [ev |-> e, part |-> k]) \in Seq(Piece)
    BY <1>1, <1>2, AppendKeeps DEF TypeOK
  <1> QED BY <1>1, <1>3 DEF TypeOK, Put

LEMMA RecordsType ==
    ASSUME NEW q \in Seq(Piece)
    PROVE  Records(q) \subseteq Event
  <1>1. \A i \in 1..Len(q) : q[i] \in Piece
    BY ElementOfSeq
  <1>2. \A i \in 1..Len(q) : q[i].ev \in Event
    BY <1>1 DEF Piece
  <1> QED BY <1>2 DEF Records

LEMMA TypeInit == Init => TypeOK
  BY ReadOrderAssumption, LenProperties, EmptySeq DEF Init, TypeOK

LEMMA TypeStep == TypeOK /\ [Next]_vars => TypeOK'
  <1> SUFFICES ASSUME TypeOK, [Next]_vars PROVE TypeOK'
    OBVIOUS
  <1> USE DEF TypeOK, readerVars, logVars
  <1>1. ASSUME NEW s \in Session, NEW e \in Event, Call(s, e) PROVE TypeOK'
    BY <1>1 DEF Call
  <1>2. ASSUME NEW s \in Session, WriteLine(s) PROVE TypeOK'
    <2>1. file' \in [File -> Seq(Piece)]
      BY <1>2, PutType DEF WriteLine, Part
    <2> QED BY <1>2, <2>1 DEF WriteLine, Return
  <1>3. ASSUME NEW s \in Session, NEW k \in {"head", "body"}, ShortWrite(s, k) PROVE TypeOK'
    <2>1. file' \in [File -> Seq(Piece)]
      BY <1>3, PutType DEF ShortWrite, Part
    <2> QED BY <1>3, <2>1 DEF ShortWrite
  <1>4. ASSUME NEW s \in Session, WriteRest(s) PROVE TypeOK'
    <2>1. file' \in [File -> Seq(Piece)]
      <3>1. PICK k \in {"tail", "nl"} : Put(cur[s], k)
        BY <1>4 DEF WriteRest
      <3> QED BY <3>1, PutType DEF Part
    <2> QED BY <1>4, <2>1 DEF WriteRest, Return
  <1>5. ASSUME NEW s \in Session, Abort(s) PROVE TypeOK'
    BY <1>5 DEF Abort
  <1>6. CASE StartRead
    BY <1>6, ReadOrderAssumption, LenProperties DEF StartRead
  <1>7. CASE ReadFile
    <2>1. Len(ReadOrder) \in Nat
      BY ReadOrderAssumption, LenProperties
    <2>2. ReadOrder[pos + 1] \in File
      BY <1>7, <2>1, ReadOrderAssumption, ElementOfSeq DEF ReadFile
    <2>3. Records(file[ReadOrder[pos + 1]]) \subseteq Event
      BY <2>2, RecordsType DEF TypeOK
    <2> QED BY <1>7, <2>1, <2>3 DEF ReadFile
  <1>8. CASE UNCHANGED vars
    BY <1>8 DEF vars
  <1> QED BY <1>1, <1>2, <1>3, <1>4, <1>5, <1>6, <1>7, <1>8 DEF Next

\* The variables keep their types (memory.py:22-35, cost.py:15-43).
THEOREM TypeCorrect == Spec => []TypeOK
  BY TypeInit, TypeStep, PTL DEF Spec

-----------------------------------------------------------------------------
(* What a write does to the files. *)

LEMMA PutEffect ==
    ASSUME TypeOK, NEW e \in Event, NEW k \in Part, Put(e, k)
    PROVE  /\ [ev |-> e, part |-> k] \in Piece
           /\ Target[e] \in File
           /\ file'[Target[e]] = Append(file[Target[e]], [ev |-> e, part |-> k])
           /\ \A f \in File \ {Target[e]} : file'[f] = file[f]
           /\ \A f \in File : file[f] \in Seq(Piece) /\ file'[f] \in Seq(Piece)
  <1>1. Target[e] \in File
    BY TargetAssumption
  <1> QED BY <1>1, PutType DEF Put, Piece, TypeOK

\* No piece moves, and none is taken away.
LEMMA PutKeepsPieces ==
    ASSUME TypeOK, NEW e \in Event, NEW k \in Part, Put(e, k), NEW f \in File
    PROVE  /\ Len(file[f]) \in Nat /\ Len(file'[f]) \in Nat
           /\ Len(file[f]) <= Len(file'[f])
           /\ \A j \in 1..Len(file[f]) : file'[f][j] = file[f][j]
           /\ f = Target[e] => /\ Len(file'[f]) = Len(file[f]) + 1
                               /\ file'[f][Len(file'[f])] = [ev |-> e, part |-> k]
           /\ f # Target[e] => file'[f] = file[f]
  <1> DEFINE p == [ev |-> e, part |-> k]
  <1>0. p \in Piece /\ file[f] \in Seq(Piece)
    BY PutEffect
  <1>1. CASE f = Target[e]
    <2>1. file'[f] = Append(file[f], p)
      BY <1>1, PutEffect
    <2>2. /\ Len(file[f]) \in Nat
          /\ Len(Append(file[f], p)) = Len(file[f]) + 1
          /\ \A i \in 1..Len(file[f]) : Append(file[f], p)[i] = file[f][i]
          /\ Append(file[f], p)[Len(file[f]) + 1] = p
      BY <1>0, AppendKeeps
    <2> QED BY <1>1, <2>1, <2>2
  <1>2. CASE f # Target[e]
    <2>1. file'[f] = file[f]
      BY <1>2, PutEffect
    <2> QED BY <1>0, <1>2, <2>1, LenProperties
  <1> QED BY <1>1, <1>2

LEMMA PutKeepsPlaced ==
    ASSUME TypeOK, AllPlaced, NEW e \in Event, NEW k \in Part, Put(e, k)
    PROVE  AllPlaced'
  <1> SUFFICES ASSUME NEW f \in File PROVE Placed(file'[f])
    BY DEF AllPlaced
  <1>1. CASE f = Target[e]
    BY <1>1, PutEffect, PlacedAppend DEF AllPlaced
  <1>2. CASE f # Target[e]
    BY <1>2, PutEffect DEF AllPlaced
  <1> QED BY <1>1, <1>2

LEMMA PutKeepsHasAll ==
    ASSUME TypeOK, NEW e \in Event, NEW k \in Part, Put(e, k),
           NEW f \in File, NEW x, HasAll(file[f], x)
    PROVE  HasAll(file'[f], x)
  <1>1. CASE f = Target[e]
    BY <1>1, PutEffect, HasAllAppend
  <1>2. CASE f # Target[e]
    BY <1>2, PutEffect
  <1> QED BY <1>1, <1>2

\* The only piece a write can spoil is an unfinished last piece.
LEMMA PutKeepsReadable ==
    ASSUME TypeOK, NEW e \in Event, NEW k \in Part, Put(e, k),
           NEW x \in Event, Readable(x),
           \A j \in 1..Len(file[Target[x]]) :
               file[Target[x]][j].ev = x /\ ~Ends(file[Target[x]][j]) => j < Len(file[Target[x]])
    PROVE  Readable(x)'
  <1> DEFINE q == file[Target[x]]
             r == file'[Target[x]]
  <1>0. Target[x] \in File /\ q \in Seq(Piece)
    BY TargetAssumption DEF TypeOK
  <1>1. PICK i \in 1..Len(q) : Closes(q, i) /\ Parses(q, i) /\ q[i].ev = x
    BY DEF Readable, Records
  <1>2. CASE Target[x] # Target[e]
    <2>1. r = q
      BY <1>0, <1>2, PutEffect
    <2> QED BY <2>1, <1>1 DEF Readable, Records
  <1>3. CASE Target[x] = Target[e]
    <2>1. r = Append(q, [ev |-> e, part |-> k]) /\ [ev |-> e, part |-> k] \in Piece
      BY <1>3, PutEffect
    <2>2. /\ Len(q) \in Nat /\ Len(r) = Len(q) + 1 /\ r[i] = q[i]
      BY <1>0, <2>1, AppendKeeps
    <2>3. Ends(q[i])
      BY <1>1, <2>2 DEF Closes
    <2>4. Parses(r, i)
      BY <1>0, <1>1, <2>1, ParsesStable
    <2>5. i \in 1..Len(r) /\ Closes(r, i) /\ Parses(r, i) /\ r[i].ev = x
      BY <1>1, <2>2, <2>3, <2>4 DEF Closes
    <2>6. x \in Records(r)
      BY <2>5 DEF Records
    <2> QED BY <2>6 DEF Readable
  <1> QED BY <1>2, <1>3

-----------------------------------------------------------------------------
(* The inductive invariant. *)

\* A step that puts a piece of s's record on disk and either returns or leaves
\* the session in the middle of its append.
LEMMA WriteStep ==
    ASSUME LogInv, TypeOK', NEW s \in Session, NEW k \in Part,
           pc[s] # "idle", Put(cur[s], k), cur' = cur, begun' = begun,
           \/ /\ k \in {"head", "body"}
              /\ pc' = [pc EXCEPT ![s] = k]
              /\ acked' = acked
           \/ /\ \/ k = "whole"
                 \/ k = "tail" /\ pc[s] = "head"
                 \/ k = "nl" /\ pc[s] = "body"
              /\ pc' = [pc EXCEPT ![s] = "idle"]
              /\ acked' = acked \cup {cur[s]}
    PROVE  LogInv'
  <1> DEFINE e == cur[s]
  <1>0. TypeOK /\ e \in Event /\ e \in begun \ acked
    BY DEF LogInv, TypeOK, WritersApart
  <1>t. \A x \in Event : Target[x] \in File
    BY TargetAssumption
  <1>1. WritersApart'
    <2> SUFFICES ASSUME NEW t \in Session, pc'[t] # "idle"
                 PROVE  /\ cur[t] \in begun \ acked'
                        /\ \A u \in Session : pc'[u] # "idle" /\ cur[u] = cur[t] => u = t
      BY DEF WritersApart
    <2>1. \A u \in Session : pc'[u] # "idle" => pc[u] # "idle"
      BY <1>0 DEF TypeOK
    <2>2. cur[t] \in begun \ acked
      BY <2>1 DEF LogInv, WritersApart
    <2>3. cur[t] \notin acked' \/ cur[t] = e
      BY <2>2
    <2>4. cur[t] = e => t = s
      BY <2>1 DEF LogInv, WritersApart
    <2>5. t = s => acked' = acked
      BY <1>0 DEF TypeOK
    <2> QED BY <2>1, <2>2, <2>3, <2>4, <2>5 DEF LogInv, WritersApart
  <1>2. PartsWritten'
    <2> SUFFICES ASSUME NEW t \in Session, pc'[t] \in {"head", "body"}
                 PROVE  \E j \in 1..Len(file'[Target[cur[t]]]) :
                            file'[Target[cur[t]]][j] = [ev |-> cur[t], part |-> pc'[t]]
      BY DEF PartsWritten
    <2> DEFINE f == Target[cur[t]]
    <2>0. f \in File
      BY <1>0, <1>t DEF TypeOK
    <2>1. CASE t = s
      <3>1. pc'[s] = k
        BY <2>1, <1>0 DEF TypeOK
      <3>2. /\ Len(file'[f]) = Len(file[f]) + 1 /\ Len(file[f]) \in Nat
            /\ file'[f][Len(file'[f])] = [ev |-> e, part |-> k]
        BY <2>0, <2>1, <1>0, PutKeepsPieces
      <3> QED BY <2>1, <3>1, <3>2
    <2>2. CASE t # s
      <3>1. pc'[t] = pc[t]
        BY <2>2, <1>0 DEF TypeOK
      <3>2. PICK j \in 1..Len(file[f]) : file[f][j] = [ev |-> cur[t], part |-> pc[t]]
        BY <3>1 DEF LogInv, PartsWritten
      <3>3. /\ Len(file[f]) \in Nat /\ Len(file'[f]) \in Nat
            /\ Len(file[f]) <= Len(file'[f])
            /\ \A i \in 1..Len(file[f]) : file'[f][i] = file[f][i]
        BY <2>0, <1>0, PutKeepsPieces
      <3> QED BY <3>1, <3>2, <3>3
    <2> QED BY <2>1, <2>2
  <1>3. AckedPlaced'
    <2> SUFFICES ASSUME NEW x \in acked' PROVE HasAll(file'[Target[x]], x)
      BY DEF AckedPlaced
    <2>1. CASE x \in acked
      <3>1. Target[x] \in File /\ HasAll(file[Target[x]], x)
        BY <2>1, <1>0, <1>t DEF LogInv, AckedPlaced, TypeOK
      <3> QED BY <3>1, <1>0, PutKeepsHasAll
    <2>2. CASE x \notin acked
      <3> DEFINE f == Target[e]
      <3>1. x = e /\ f \in File /\ (k \in {"whole", "tail", "nl"})
        BY <2>2, <1>0, <1>t
      <3>2. /\ Len(file'[f]) = Len(file[f]) + 1 /\ Len(file[f]) \in Nat
            /\ file'[f][Len(file'[f])] = [ev |-> e, part |-> k]
            /\ \A j \in 1..Len(file[f]) : file'[f][j] = file[f][j]
        BY <3>1, <1>0, PutKeepsPieces
      <3>3. CASE k = "whole"
        BY <3>1, <3>2, <3>3 DEF HasAll
      <3>4. CASE k = "tail" /\ pc[s] = "head"
        <4>1. PICK j \in 1..Len(file[f]) : file[f][j] = [ev |-> e, part |-> "head"]
          BY <3>4 DEF LogInv, PartsWritten
        <4>2. j \in 1..Len(file'[f]) /\ Len(file'[f]) \in 1..Len(file'[f])
          BY <3>2
        <4>3. file'[f][j] = [ev |-> e, part |-> "head"]
          <5>1. file'[f][j] = file[f][j]
            BY <3>2
          <5> QED BY <4>1, <5>1
        <4>4. file'[f][Len(file'[f])] = [ev |-> e, part |-> "tail"]
          BY <3>2, <3>4
        <4>5. /\ file'[f][j].ev = e /\ file'[f][j].part = "head"
              /\ file'[f][Len(file'[f])].ev = e /\ file'[f][Len(file'[f])].part = "tail"
          BY <4>3, <4>4
        <4> QED BY <3>1, <4>2, <4>5 DEF HasAll
      <3>5. CASE k = "nl" /\ pc[s] = "body"
        <4>1. PICK j \in 1..Len(file[f]) : file[f][j] = [ev |-> e, part |-> "body"]
          BY <3>5 DEF LogInv, PartsWritten
        <4>2. j \in 1..Len(file'[f]) /\ file'[f][j] = file[f][j]
          BY <3>2
        <4>3. file'[f][j].ev = e /\ file'[f][j].part = "body"
          BY <4>1, <4>2
        <4> QED BY <3>1, <4>2, <4>3 DEF HasAll
      <3> QED BY <3>1, <3>3, <3>4, <3>5, <2>2
    <2> QED BY <2>1, <2>2
  <1>4. AckedFinished'
    <2> SUFFICES ASSUME NEW x \in acked', NEW j \in 1..Len(file'[Target[x]]),
                        file'[Target[x]][j].ev = x, ~Ends(file'[Target[x]][j])
                 PROVE  j < Len(file'[Target[x]])
      BY DEF AckedFinished
    <2> DEFINE f == Target[x]
    <2>0. x \in Event /\ f \in File
      BY <1>0, <1>t DEF TypeOK
    <2>1. /\ Len(file[f]) \in Nat /\ Len(file'[f]) \in Nat
          /\ \A i \in 1..Len(file[f]) : file'[f][i] = file[f][i]
          /\ f = Target[e] => /\ Len(file'[f]) = Len(file[f]) + 1
                              /\ file'[f][Len(file'[f])] = [ev |-> e, part |-> k]
          /\ f # Target[e] => file'[f] = file[f]
      BY <2>0, <1>0, PutKeepsPieces
    <2>2. CASE f # Target[e]
      <3>1. x \in acked
        BY <2>2
      <3> QED BY <2>1, <2>2, <3>1 DEF LogInv, AckedFinished
    <2>3. CASE f = Target[e] /\ j = Len(file'[f])
      <3>1. x = e /\ k \in {"head", "body"}
        BY <2>1, <2>3 DEF Ends, Part
      <3> QED BY <3>1, <1>0
    <2>4. CASE f = Target[e] /\ j # Len(file'[f])
      BY <2>1, <2>4
    <2> QED BY <2>2, <2>3, <2>4
  <1>5. AllPlaced'
    BY <1>0, PutKeepsPlaced DEF LogInv
  <1>6. acked' \subseteq begun
    BY <1>0 DEF LogInv
  <1> QED BY <1>1, <1>2, <1>3, <1>4, <1>5, <1>6 DEF LogInv

LEMMA LogInvInit == Init => LogInv
  <1> SUFFICES ASSUME Init PROVE LogInv
    OBVIOUS
  <1>1. TypeOK
    BY TypeInit
  <1>2. acked \subseteq begun /\ WritersApart /\ PartsWritten /\ AckedPlaced /\ AckedFinished
    BY DEF Init, WritersApart, PartsWritten, AckedPlaced, AckedFinished
  <1>3. AllPlaced
    BY EmptySeq DEF Init, AllPlaced, Placed
  <1> QED BY <1>1, <1>2, <1>3 DEF LogInv

LEMMA LogInvStep == LogInv /\ [Next]_vars => LogInv'
  <1> SUFFICES ASSUME LogInv, [Next]_vars PROVE LogInv'
    OBVIOUS
  <1>t. TypeOK /\ TypeOK'
    BY TypeStep DEF LogInv
  <1>1. ASSUME NEW s \in Session, NEW e \in Event, Call(s, e) PROVE LogInv'
    <2> USE <1>1 DEF Call
    <2>1. WritersApart'
      BY <1>t DEF LogInv, WritersApart, TypeOK
    <2>2. PartsWritten'
      BY <1>t DEF LogInv, PartsWritten, TypeOK
    <2>3. AckedPlaced' /\ AckedFinished' /\ AllPlaced'
      BY DEF LogInv, AckedPlaced, AckedFinished, AllPlaced
    <2> QED BY <1>t, <2>1, <2>2, <2>3 DEF LogInv
  <1>2. ASSUME NEW s \in Session, WriteLine(s) PROVE LogInv'
    BY <1>2, <1>t, WriteStep DEF WriteLine, Return, Part
  <1>3. ASSUME NEW s \in Session, NEW k \in {"head", "body"}, ShortWrite(s, k) PROVE LogInv'
    BY <1>3, <1>t, WriteStep DEF ShortWrite, Part
  <1>4. ASSUME NEW s \in Session, WriteRest(s) PROVE LogInv'
    BY <1>4, <1>t, WriteStep DEF WriteRest, Return, Part
  <1>5. ASSUME NEW s \in Session, Abort(s) PROVE LogInv'
    <2> USE <1>5 DEF Abort
    <2>1. WritersApart' /\ PartsWritten'
      BY <1>t DEF LogInv, WritersApart, PartsWritten, TypeOK
    <2>2. AckedPlaced' /\ AckedFinished' /\ AllPlaced'
      BY DEF LogInv, AckedPlaced, AckedFinished, AllPlaced
    <2> QED BY <1>t, <2>1, <2>2 DEF LogInv
  <1>6. CASE UNCHANGED logVars
    BY <1>6, <1>t DEF LogInv, logVars, WritersApart, PartsWritten, AckedPlaced, AckedFinished, AllPlaced
  <1>7. StartRead \/ ReadFile \/ UNCHANGED vars => UNCHANGED logVars
    BY DEF StartRead, ReadFile, vars
  <1> QED BY <1>1, <1>2, <1>3, <1>4, <1>5, <1>6, <1>7 DEF Next

LEMMA LogInvariant == Spec => []LogInv
  BY LogInvInit, LogInvStep, PTL DEF Spec

-----------------------------------------------------------------------------
(* The properties. *)

\* No silent loss (docs/safety.md:57): in every reachable state an acknowledged
\* record that readers do not return stands on a line that the audit reports,
\* so a loss always shows in `myco doctor`.
THEOREM LossIsDiagnosed == Spec => []LostIsDiagnosed
  <1>1. LogInv => LostIsDiagnosed
    <2> SUFFICES ASSUME LogInv, NEW e \in acked, ~Readable(e)
                 PROVE  LET q == file[Target[e]] IN
                        \E i \in Issues(q), j \in 1..Len(q) : q[j].ev = e /\ OnLine(q, j, i)
      BY DEF LostIsDiagnosed
    <2> DEFINE q == file[Target[e]]
    <2>0. Target[e] \in File /\ q \in Seq(Piece) /\ Len(q) \in Nat
      BY TargetAssumption, LenProperties DEF LogInv, TypeOK
    <2>1. PICK j \in 1..Len(q) : q[j].ev = e /\ q[j].part \in {"whole", "body", "tail"}
      BY DEF LogInv, AckedPlaced, HasAll
    <2>2. PICK i \in 1..Len(q) : OnLine(q, j, i)
      BY <2>0, <2>1 DEF LogInv, AllPlaced, Placed
    <2>3. j <= i /\ Closes(q, i) /\ \A k \in j..(i - 1) : ~Ends(q[k])
      BY <2>2 DEF OnLine
    <2>4. q[i].ev # e \/ ~Parses(q, i)
      BY <2>3 DEF Readable, Records
    <2>5. CASE j = i
      <3>1. ~Parses(q, i) /\ ~Blank(q, i)
        BY <2>1, <2>4, <2>5 DEF Blank
      <3> QED BY <2>1, <2>2, <2>3, <3>1 DEF Issues
    <2>6. CASE j < i
      <3>1. ~Ends(q[i - 1]) /\ i > 1
        BY <2>3, <2>6
      <3>2. ~Opens(q, i)
        BY <3>1 DEF Opens
      <3>3. i - 1 > j => ~Opens(q, i - 1)
        BY <2>3, <2>6 DEF Opens
      <3>4. ~Parses(q, i)
        BY <2>1, <2>4, <2>6, <3>2, <3>3 DEF Parses
      <3>5. ~Blank(q, i)
        BY <3>2 DEF Blank
      <3> QED BY <2>1, <2>2, <2>3, <3>4, <3>5 DEF Issues
    <2> QED BY <2>3, <2>5, <2>6
  <1> QED BY <1>1, LogInvariant, PTL

LEMMA BesideTear == LogInv => LostBesideTear
  <1> SUFFICES ASSUME LogInv, NEW e \in acked, ~Readable(e)
               PROVE  LET q == file[Target[e]] IN
                      \E j \in 1..Len(q) :
                          /\ q[j].ev = e
                          /\ ~Ends(q[j]) \/ (j > 1 /\ ~Ends(q[j - 1]) /\ q[j - 1].ev # e)
    BY DEF LostBesideTear
  <1> DEFINE q == file[Target[e]]
  <1>0. Len(q) \in Nat
    BY TargetAssumption, LenProperties DEF LogInv, TypeOK
  <1>1. PICK j \in 1..Len(q) :
          /\ q[j].ev = e
          /\ \/ q[j].part \in {"whole", "body"}
             \/ \E k \in 1..Len(q) : q[k].ev = e /\ q[k].part = "head"
    BY DEF LogInv, AckedPlaced, HasAll
  <1>2. CASE q[j].part = "whole"
    <2>1. Closes(q, j) /\ ~Parses(q, j)
      BY <1>1, <1>2 DEF Closes, Ends, Readable, Records
    <2>2. j > 1 /\ ~Ends(q[j - 1])
      BY <1>2, <2>1, <1>0 DEF Parses, Opens
    <2>3. CASE q[j - 1].ev = e
      BY <1>0, <2>2, <2>3
    <2>4. CASE q[j - 1].ev # e
      BY <1>1, <2>2, <2>4
    <2> QED BY <2>3, <2>4
  <1>3. CASE q[j].part = "body"
    BY <1>1, <1>3 DEF Ends
  <1>4. CASE \E k \in 1..Len(q) : q[k].ev = e /\ q[k].part = "head"
    BY <1>4 DEF Ends
  <1> QED BY <1>1, <1>2, <1>3, <1>4

\* Damage stays local: an acknowledged record is unreadable only beside a piece
\* that a short write left unfinished (memory.py:33-34, cost.py:41-42).
THEOREM LossBesideTear == Spec => []LostBesideTear
  BY BesideTear, LogInvariant, PTL

LEMMA StepKeepsReadable ==
    ASSUME LogInv, [Next]_vars, NEW e \in acked, Readable(e)
    PROVE  Readable(e)'
  <1>0. TypeOK /\ e \in Event /\ cur \in [Session -> Event]
    BY DEF LogInv, TypeOK
  <1>1. \A j \in 1..Len(file[Target[e]]) :
          file[Target[e]][j].ev = e /\ ~Ends(file[Target[e]][j]) => j < Len(file[Target[e]])
    BY DEF LogInv, AckedFinished
  <1>2. ASSUME NEW x \in Event, NEW k \in Part, Put(x, k) PROVE Readable(e)'
    BY <1>0, <1>1, <1>2, PutKeepsReadable
  <1>3. ASSUME UNCHANGED file PROVE Readable(e)'
    BY <1>3 DEF Readable
  <1>4. ASSUME NEW s \in Session, WriteLine(s) PROVE Readable(e)'
    BY <1>0, <1>2, <1>4 DEF WriteLine, Part
  <1>5. ASSUME NEW s \in Session, NEW k \in {"head", "body"}, ShortWrite(s, k) PROVE Readable(e)'
    BY <1>0, <1>2, <1>5 DEF ShortWrite, Part
  <1>6. ASSUME NEW s \in Session, WriteRest(s) PROVE Readable(e)'
    BY <1>0, <1>2, <1>6 DEF WriteRest, Part
  <1>7. ASSUME NEW s \in Session, Abort(s) \/ \E x \in Event : Call(s, x) PROVE Readable(e)'
    BY <1>3, <1>7 DEF Abort, Call
  <1>8. CASE StartRead \/ ReadFile \/ UNCHANGED vars
    BY <1>3, <1>8 DEF StartRead, ReadFile, vars, logVars
  <1> QED BY <1>4, <1>5, <1>6, <1>7, <1>8 DEF Next

\* Durability: once an acknowledged record can be read, no append, short write
\* or crash of any session makes it unreadable (memory.py:33-34).
THEOREM AckedDurable == Spec => AckedStaysReadable
  <1>1. LogInv /\ [Next]_vars => [\A e \in acked : Readable(e) => Readable(e)']_vars
    BY StepKeepsReadable
  <1> QED BY <1>1, LogInvariant, PTL DEF Spec, AckedStaysReadable

-----------------------------------------------------------------------------
(* The reader.  What it still owes: each record readable at its start is in *)
(* what it has collected or in a file it has yet to open.                   *)

Owes ==
    \A e \in floor :
        /\ e \in acked /\ Readable(e) /\ Target[e] \in listed
        /\ e \in seen \/ \E i \in (pos + 1)..Len(ReadOrder) : ReadOrder[i] = Target[e]

\* A read misses no record that was acknowledged and readable when it began,
\* whatever is appended while it goes from file to file (memory.py:38-45).
THEOREM ReadComplete == Spec => []ReaderMissesNothing
  <1>0. Len(ReadOrder) \in Nat
    BY ReadOrderAssumption, LenProperties
  <1>1. Init => Owes
    BY DEF Init, Owes
  <1>2. LogInv /\ Owes /\ [Next]_vars => Owes'
    <2> SUFFICES ASSUME LogInv, Owes, [Next]_vars, NEW e \in floor'
                 PROVE  /\ e \in acked' /\ Readable(e)' /\ Target[e] \in listed'
                        /\ \/ e \in seen'
                           \/ \E i \in (pos' + 1)..Len(ReadOrder) : ReadOrder[i] = Target[e]
      BY DEF Owes
    <2>1. CASE StartRead
      <3>1. e \in acked /\ Readable(e) /\ \E i \in DOMAIN ReadOrder : ReadOrder[i] = Target[e]
        BY <2>1 DEF StartRead
      <3>2. acked' = acked /\ pos' = 0 /\ Target[e] \in listed'
        BY <2>1, <3>1, TargetAssumption DEF StartRead, logVars, LogInv, TypeOK, Exists
      <3>3. DOMAIN ReadOrder = 1..Len(ReadOrder)
        BY ReadOrderAssumption, LenProperties
      <3> QED BY <3>1, <3>2, <3>3, StepKeepsReadable
    <2>2. CASE ReadFile
      <3>1. /\ e \in acked /\ Readable(e) /\ Target[e] \in listed
            /\ e \in seen \/ \E i \in (pos + 1)..Len(ReadOrder) : ReadOrder[i] = Target[e]
        BY <2>2 DEF ReadFile, Owes
      <3>2. /\ acked' = acked /\ listed' = listed /\ pos' = pos + 1 /\ pos \in Nat
            /\ seen \subseteq seen'
            /\ ReadOrder[pos + 1] = Target[e] => e \in seen'
        BY <1>0, <2>2, <3>1 DEF ReadFile, logVars, LogInv, TypeOK, Readable
      <3>3. CASE e \in seen
        BY <3>1, <3>2, <3>3, StepKeepsReadable
      <3>4. ASSUME NEW i \in (pos + 1)..Len(ReadOrder), ReadOrder[i] = Target[e]
            PROVE  e \in seen' \/ \E n \in (pos' + 1)..Len(ReadOrder) : ReadOrder[n] = Target[e]
        <4>1. CASE i = pos + 1
          BY <3>2, <3>4, <4>1
        <4>2. CASE i # pos + 1
          BY <1>0, <3>2, <3>4, <4>2
        <4> QED BY <4>1, <4>2
      <3> QED BY <3>1, <3>2, <3>3, <3>4, StepKeepsReadable
    <2>3. CASE UNCHANGED readerVars
      <3>1. e \in acked /\ Readable(e) /\ Target[e] \in listed
        BY <2>3 DEF Owes, readerVars
      <3>2. acked \subseteq acked'
        BY DEF Next, vars, logVars, Call, WriteLine, ShortWrite, WriteRest, Return, Abort, StartRead, ReadFile
      <3> QED BY <2>3, <3>1, <3>2, StepKeepsReadable DEF Owes, readerVars
    <2>4. StartRead \/ ReadFile \/ UNCHANGED readerVars
      BY DEF Next, vars, Call, WriteLine, ShortWrite, WriteRest, Return, Abort
    <2> QED BY <2>1, <2>2, <2>3, <2>4
  <1>3. Owes /\ LogInv => ReaderMissesNothing
    BY <1>0 DEF Owes, ReaderMissesNothing
  <1> QED BY <1>1, <1>2, <1>3, LogInvariant, PTL DEF Spec
=============================================================================
