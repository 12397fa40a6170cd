---------------------------- MODULE LayoutProofs ----------------------------
(***************************************************************************)
(* What TLAPS proves of `myco init` and of `myco doctor` beside it, for    *)
(* every set of sessions, every order of files and every number of runs    *)
(* and of the owner's interventions.                                       *)
(***************************************************************************)
EXTENDS Doctor, TLAPS

AtWork == {"check", "open", "fill"}

\* A session writes only where there is a file left to write.
InOrder ==
    \A s \in Session : pc[s] \in {"open", "fill"} => at[s] \in DOMAIN Order

\* Behind a session each file is there, or the owner has removed it since.
BehindLaidOut ==
    \A s \in Session :
        /\ pc[s] \in AtWork => \A i \in DOMAIN Order :
             i < at[s] => Order[i] \in Present \cup removed[s]
        /\ pc[s] = "fill" => Order[at[s]] \in Present \cup removed[s]

\* A file that is not there has been missed by all who are at work, and one
\* that is about to be written by the one who writes it.
AbsentMissed ==
    /\ \A s \in Session : pc[s] \in {"mkdir"} \cup AtWork => File \ Present \subseteq missed[s]
    /\ \A s \in Session : pc[s] \in {"open", "fill"} => Order[at[s]] \in missed[s]

\* As long as nobody has died, one who found no directory is still on the way
\* to the event that says so.
EventOnTheWay ==
    /\ \A s \in Session : pc[s] = "mkdir" /\ ~first[s] => dir
    /\ dir /\ ~died /\ events = 0 => \E s \in Session : pc[s] \in AtWork /\ first[s]

\* A file is cut short only under the hands of a process, or when one died.
CutUnderWay ==
    \A f \in File : disk[f] = "cut" =>
        f \in torn \/ \E s \in Session : pc[s] = "fill" /\ Order[at[s]] = f

LayoutInv ==
    /\ TypeOK /\ InOrder /\ LaidOut /\ BehindLaidOut
    /\ AbsentMissed /\ EventOnTheWay /\ CutUnderWay

LEMMA BoundFacts == Len(Order) \in Nat /\ MaxRuns \in Nat /\ MaxEdits \in Nat
  BY LayoutAssumption

LEMMA OrderFacts ==
    /\ DOMAIN Order = 1..Len(Order)
    /\ \A i \in DOMAIN Order : Order[i] \in File
    /\ \A f \in File : \E i \in DOMAIN Order : Order[i] = f
  BY LayoutAssumption

LEMMA InitHolds == Init => LayoutInv
  <1> SUFFICES ASSUME Init PROVE LayoutInv
    OBVIOUS
  <1>1. TypeOK
    <2>1. at \in [Session -> 1..(Len(Order) + 1)]
      BY BoundFacts DEF Init
    <2>2. first \in [Session -> BOOLEAN] /\ dir \in BOOLEAN /\ died \in BOOLEAN
      BY DEF Init
    <2> QED BY <2>1, <2>2, BoundFacts DEF Init, TypeOK
  <1>2. InOrder /\ LaidOut /\ BehindLaidOut /\ AbsentMissed
    BY DEF Init, InOrder, LaidOut, BehindLaidOut, AbsentMissed, AtWork
  <1>3. EventOnTheWay /\ CutUnderWay
    BY DEF Init, EventOnTheWay, CutUnderWay
  <1> QED BY <1>1, <1>2, <1>3 DEF LayoutInv

-----------------------------------------------------------------------------
(* Each step preserves the type invariant, and then the rest. *)

LEMMA TypeStep == TypeOK /\ InOrder /\ [Next]_vars => TypeOK'
  <1> SUFFICES ASSUME TypeOK, InOrder, [Next]_vars PROVE TypeOK'
    OBVIOUS
  <1> USE DEF TypeOK
  <1>1. ASSUME NEW s \in Session, Start(s) PROVE TypeOK'
    BY <1>1, BoundFacts DEF Start, Goto, Present
  <1>2. ASSUME NEW s \in Session, MakeDirs(s) PROVE TypeOK'
    BY <1>2, BoundFacts DEF MakeDirs, Goto, history
  <1>3. ASSUME NEW s \in Session, Check(s) PROVE TypeOK'
    <2>1. at' \in [Session -> 1..(Len(Order) + 1)]
      <3>1. at[s] + 1 \in 1..(Len(Order) + 1)
        BY <1>3, BoundFacts DEF Check
      <3> QED BY <1>3, <3>1 DEF Check
    <2> QED BY <1>3, <2>1 DEF Check, Goto, history
  <1>4. ASSUME NEW s \in Session, Open(s) PROVE TypeOK'
    BY <1>4, OrderFacts DEF Open, Goto, runVars, history, InOrder
  <1>5. ASSUME NEW s \in Session, Fill(s) PROVE TypeOK'
    <2>1. at[s] \in DOMAIN Order /\ Order[at[s]] \in File
      BY <1>5, OrderFacts DEF Fill, InOrder
    <2>2. disk' \in [File -> {"absent", "cut", "default", "own"}]
      BY <1>5, <2>1 DEF Fill
    <2>3. at' \in [Session -> 1..(Len(Order) + 1)]
      BY <1>5, <2>1, OrderFacts, BoundFacts DEF Fill
    <2> QED BY <1>5, <2>2, <2>3 DEF Fill, Goto, history
  <1>6. ASSUME NEW s \in Session, Return(s) PROVE TypeOK'
    BY <1>6 DEF Return, Goto, runVars, history
  <1>7. ASSUME NEW s \in Session, Leave(s) PROVE TypeOK'
    BY <1>7 DEF Leave, Goto, runVars, history
  <1>8. ASSUME NEW s \in Session, Die(s) PROVE TypeOK'
    BY <1>8, OrderFacts DEF Die, Goto, runVars, InOrder
  <1>9. CASE Edit
    <2>1. PICK f \in Present :
              \/ disk' = [disk EXCEPT ![f] = "own"] /\ UNCHANGED <<missed, removed>>
              \/ /\ disk' = [disk EXCEPT ![f] = "absent"]
                 /\ missed' = [s \in Session |-> missed[s] \cup {f}]
                 /\ removed' = [s \in Session |-> removed[s] \cup {f}]
      BY <1>9 DEF Edit
    <2>2. f \in File
      BY DEF Present
    <2>3. disk' \in [File -> {"absent", "cut", "default", "own"}]
      BY <2>1, <2>2
    <2>4. missed' \in [Session -> SUBSET File] /\ removed' \in [Session -> SUBSET File]
      BY <2>1, <2>2
    <2>5. edits' \in 0..MaxEdits
      BY <1>9, BoundFacts DEF Edit
    <2> QED BY <1>9, <2>3, <2>4, <2>5 DEF Edit, runVars
  <1>10. CASE UNCHANGED vars
    BY <1>10 DEF vars, runVars, history
  <1> QED BY <1>1, <1>2, <1>3, <1>4, <1>5, <1>6, <1>7, <1>8, <1>9, <1>10 DEF Next

\* What the files become in a step: none that is there disappears but by the
\* owner's hand, who leaves a note of it in missed and removed.
LEMMA FileStep ==
    ASSUME TypeOK, InOrder, [Next]_vars
    PROVE  /\ \A f \in File : disk[f] # "absent" /\ disk'[f] = "absent" =>
                /\ \A s \in Session : f \in missed'[s] /\ f \in removed'[s]
                /\ edits' > edits
           /\ \A s \in Session : ~Start(s) =>
                missed[s] \subseteq missed'[s] /\ removed[s] \subseteq removed'[s]
  <1> USE DEF TypeOK
  <1>1. ASSUME NEW s \in Session, Start(s) \/ MakeDirs(s) \/ Check(s) \/ Return(s) \/ Leave(s) \/ Die(s)
        PROVE  disk' = disk
    BY <1>1 DEF Start, MakeDirs, Check, Return, Leave, Die
  <1>2. ASSUME NEW s \in Session, Open(s) \/ Fill(s)
        PROVE  /\ \A f \in File : disk[f] # "absent" => disk'[f] # "absent"
               /\ UNCHANGED <<missed, removed>>
    BY <1>2, OrderFacts DEF Open, Fill, InOrder, history
  <1>3. CASE Edit
    BY <1>3 DEF Edit, Present
  <1>4. ASSUME NEW s \in Session, Start(s), NEW t \in Session, t # s
        PROVE  missed[t] \subseteq missed'[t] /\ removed[t] \subseteq removed'[t]
    BY <1>4 DEF Start
  <1>5. ASSUME NEW s \in Session, MakeDirs(s) \/ Check(s) \/ Return(s) \/ Leave(s) \/ Die(s)
        PROVE  UNCHANGED <<missed, removed>>
    BY <1>5 DEF MakeDirs, Check, Return, Leave, Die, history
  <1>6. CASE UNCHANGED vars
    BY <1>6 DEF vars, history
  <1> QED BY <1>1, <1>2, <1>3, <1>4, <1>5, <1>6 DEF Next

\* What is there, or was removed under a session's eyes, stays so for it.
LEMMA KeptStep ==
    ASSUME TypeOK, InOrder, [Next]_vars, NEW t \in Session, ~Start(t),
           NEW f \in File, f \in Present \cup removed[t]
    PROVE  f \in (Present \cup removed[t])'
  BY FileStep DEF Present

\* How far a session gets in a step of its own, and in one of another.
LEMMA SessionStep ==
    ASSUME TypeOK, InOrder, [Next]_vars, NEW t \in Session
    PROVE  \/ /\ UNCHANGED <<pc[t], at[t], first[t]>> /\ ~Start(t)
           \/ Start(t) \/ MakeDirs(t) \/ Check(t) \/ Open(t) \/ Fill(t)
           \/ Return(t) \/ Leave(t) \/ Die(t)
  <1> USE DEF TypeOK
  <1>1. ASSUME NEW s \in Session, s # t,
               \/ Start(s) \/ MakeDirs(s) \/ Check(s) \/ Open(s) \/ Fill(s)
               \/ Return(s) \/ Leave(s) \/ Die(s)
        PROVE  UNCHANGED <<pc[t], at[t], first[t]>>
    BY <1>1 DEF Start, MakeDirs, Check, Open, Fill, Return, Leave, Die, Goto, runVars
  <1>2. CASE Edit \/ UNCHANGED vars
    BY <1>2 DEF Edit, vars, runVars
  <1> QED BY <1>1, <1>2 DEF Next

LEMMA OrderStep == TypeOK /\ InOrder /\ [Next]_vars => InOrder'
  <1> SUFFICES ASSUME TypeOK, InOrder, [Next]_vars, NEW t \in Session,
                      pc'[t] \in {"open", "fill"}
               PROVE  at'[t] \in DOMAIN Order
    BY DEF InOrder
  <1>1. CASE Check(t)
    BY <1>1, OrderFacts, BoundFacts DEF Check, Goto, TypeOK
  <1>2. CASE Open(t)
    BY <1>2 DEF Open, Goto, TypeOK, InOrder, runVars
  <1>3. CASE Start(t) \/ MakeDirs(t) \/ Fill(t) \/ Return(t) \/ Leave(t) \/ Die(t)
    BY <1>3 DEF Start, MakeDirs, Fill, Return, Leave, Die, Goto, TypeOK
  <1>4. CASE UNCHANGED <<pc[t], at[t], first[t]>>
    BY <1>4 DEF InOrder
  <1> QED BY <1>1, <1>2, <1>3, <1>4, SessionStep

LEMMA LaidOutStep ==
    ASSUME TypeOK, TypeOK', InOrder, InOrder', LaidOut, BehindLaidOut, [Next]_vars
    PROVE  LaidOut' /\ BehindLaidOut'
  <1> SUFFICES ASSUME NEW t \in Session
               PROVE  /\ pc'[t] = "returned" => \A f \in File : f \in (Present \cup removed[t])'
                      /\ pc'[t] \in AtWork => \A i \in DOMAIN Order :
                           i < at'[t] => Order[i] \in (Present \cup removed[t])'
                      /\ pc'[t] = "fill" => Order[at'[t]] \in (Present \cup removed[t])'
    BY DEF LaidOut, BehindLaidOut
  <1> USE DEF AtWork
  <1>k. ~Start(t) => \A f \in File : f \in Present \cup removed[t] => f \in (Present \cup removed[t])'
    BY KeptStep
  <1>o. \A i \in DOMAIN Order : Order[i] \in File
    BY OrderFacts
  <1>1. CASE UNCHANGED <<pc[t], at[t], first[t]>> /\ ~Start(t)
    <2>1. pc[t] = "returned" => \A f \in File : f \in Present \cup removed[t]
      BY DEF LaidOut
    <2>2. pc[t] \in AtWork => \A i \in DOMAIN Order : i < at[t] => Order[i] \in Present \cup removed[t]
      BY DEF BehindLaidOut
    <2>3. pc[t] = "fill" => Order[at[t]] \in Present \cup removed[t] /\ at[t] \in DOMAIN Order
      BY DEF BehindLaidOut, InOrder
    <2> QED BY <1>1, <1>k, <1>o, <2>1, <2>2, <2>3
  <1>2. CASE Start(t) \/ Leave(t) \/ Die(t)
    BY <1>2 DEF Start, Leave, Die, Goto, TypeOK
  <1>3. CASE MakeDirs(t)
    <2>1. pc'[t] = "check" /\ at'[t] = 1
      BY <1>3 DEF MakeDirs, Goto, TypeOK
    <2> QED BY <2>1, OrderFacts, BoundFacts
  <1>4. CASE Check(t)
    <2>0. ~Start(t) /\ pc[t] = "check" /\ at[t] \in DOMAIN Order /\ at[t] \in Int
      BY <1>4, OrderFacts, BoundFacts DEF Check, Start, TypeOK
    <2>1. \A i \in DOMAIN Order : i < at[t] => Order[i] \in Present \cup removed[t]
      BY <2>0 DEF BehindLaidOut
    <2>2. CASE disk[Order[at[t]]] = "absent"
      <3>1. pc'[t] = "open" /\ at'[t] = at[t]
        BY <1>4, <2>2 DEF Check, Goto, TypeOK
      <3> QED BY <3>1, <2>0, <2>1, <1>k, <1>o
    <2>3. CASE disk[Order[at[t]]] # "absent"
      <3>1. pc'[t] = "check" /\ at'[t] = at[t] + 1
        BY <1>4, <2>3 DEF Check, Goto, TypeOK
      <3>2. Order[at[t]] \in Present
        BY <2>0, <2>3, <1>o DEF Present
      <3>3. \A i \in DOMAIN Order : i < at[t] + 1 => i < at[t] \/ i = at[t]
        BY <2>0, OrderFacts, BoundFacts
      <3> QED BY <3>1, <3>2, <3>3, <2>0, <2>1, <1>k, <1>o
    <2> QED BY <2>2, <2>3
  <1>5. CASE Open(t)
    <2>0. /\ ~Start(t) /\ pc[t] = "open" /\ at[t] \in DOMAIN Order
          /\ pc'[t] = "fill" /\ at'[t] = at[t]
      BY <1>5 DEF Open, Start, Goto, InOrder, TypeOK, runVars
    <2>1. \A i \in DOMAIN Order : i < at[t] => Order[i] \in Present \cup removed[t]
      BY <2>0 DEF BehindLaidOut
    <2>2. Order[at[t]] \in Present'
      BY <1>5, <2>0, <1>o DEF Open, Present, TypeOK
    <2> QED BY <2>0, <2>1, <2>2, <1>k, <1>o
  <1>6. CASE Fill(t)
    <2>0. /\ ~Start(t) /\ pc[t] = "fill" /\ at[t] \in DOMAIN Order /\ at[t] \in Int
          /\ pc'[t] = "check" /\ at'[t] = at[t] + 1
      BY <1>6 DEF Fill, Start, Goto, InOrder, TypeOK
    <2>1. /\ \A i \in DOMAIN Order : i < at[t] => Order[i] \in Present \cup removed[t]
          /\ Order[at[t]] \in Present \cup removed[t]
      BY <2>0 DEF BehindLaidOut
    <2>2. \A i \in DOMAIN Order : i < at[t] + 1 => i < at[t] \/ i = at[t]
      BY <2>0, OrderFacts, BoundFacts
    <2> QED BY <2>0, <2>1, <2>2, <1>k, <1>o
  <1>7. CASE Return(t)
    <2>0. /\ ~Start(t) /\ pc[t] = "check" /\ at[t] > Len(Order)
          /\ pc'[t] = "returned"
      BY <1>7 DEF Return, Start, Goto, TypeOK
    <2>1. \A i \in DOMAIN Order : i < at[t]
      BY <2>0, OrderFacts, BoundFacts DEF TypeOK
    <2>2. \A f \in File : f \in Present \cup removed[t]
      BY <2>0, <2>1, OrderFacts DEF BehindLaidOut
    <2> QED BY <2>0, <2>2, <1>k
  <1> QED BY <1>1, <1>2, <1>3, <1>4, <1>5, <1>6, <1>7, SessionStep

LEMMA MissedStep ==
    ASSUME TypeOK, TypeOK', InOrder, InOrder', AbsentMissed, [Next]_vars
    PROVE  AbsentMissed'
  <1> SUFFICES ASSUME NEW t \in Session
               PROVE  /\ pc'[t] \in {"mkdir"} \cup AtWork =>
                           \A f \in File : disk'[f] = "absent" => f \in missed'[t]
                      /\ pc'[t] \in {"open", "fill"} => Order[at'[t]] \in missed'[t]
    BY DEF AbsentMissed, Present
  <1> USE DEF AtWork
  <1>1. CASE Start(t)
    <2>1. pc'[t] = "mkdir" /\ missed'[t] = File \ Present /\ disk' = disk
      BY <1>1 DEF Start, Goto, TypeOK
    <2> QED BY <2>1 DEF Present
  <1>2. CASE ~Start(t)
    <2>1. \A f \in File : disk'[f] = "absent" => disk[f] = "absent" \/ f \in missed'[t]
      BY FileStep
    <2>2. missed[t] \subseteq missed'[t]
      BY <1>2, FileStep
    <2>3. pc[t] \in {"mkdir"} \cup AtWork =>
            \A f \in File : disk[f] = "absent" => f \in missed[t]
      BY DEF AbsentMissed, Present
    <2>4. pc'[t] \in {"mkdir"} \cup AtWork => pc[t] \in {"mkdir"} \cup AtWork
      BY <1>2, SessionStep
         DEF MakeDirs, Check, Open, Fill, Return, Leave, Die, Goto, TypeOK
    <2>5. pc'[t] \in {"open", "fill"} => Order[at'[t]] \in missed[t]
      <3>1. CASE Check(t)
        BY <1>2, <2>3, <3>1, OrderFacts, BoundFacts DEF Check, Goto, TypeOK, Present
      <3>2. CASE Open(t)
        BY <3>2 DEF Open, Goto, TypeOK, AbsentMissed, runVars
      <3>3. CASE MakeDirs(t) \/ Fill(t) \/ Return(t) \/ Leave(t) \/ Die(t)
        BY <3>3 DEF MakeDirs, Fill, Return, Leave, Die, Goto, TypeOK
      <3>4. CASE UNCHANGED <<pc[t], at[t], first[t]>>
        BY <3>4 DEF AbsentMissed
      <3> QED BY <1>2, <3>1, <3>2, <3>3, <3>4, SessionStep
    <2> QED BY <2>1, <2>2, <2>3, <2>4, <2>5
  <1> QED BY <1>1, <1>2

LEMMA EventStep ==
    ASSUME TypeOK, TypeOK', EventOnTheWay, [Next]_vars
    PROVE  EventOnTheWay'
  <1> USE DEF TypeOK, AtWork, EventOnTheWay
  <1>1. ASSUME NEW s \in Session, Start(s) PROVE EventOnTheWay'
    BY <1>1 DEF Start, Goto
  <1>2. ASSUME NEW s \in Session, MakeDirs(s) PROVE EventOnTheWay'
    <2>1. CASE dir
      BY <1>2, <2>1 DEF MakeDirs, Goto, history
    <2>2. CASE ~dir
      <3>1. first[s] /\ pc'[s] = "check" /\ first' = first
        BY <1>2, <2>2 DEF MakeDirs, Goto
      <3>2. dir'
        BY <1>2 DEF MakeDirs
      <3> QED BY <3>1, <3>2
    <2> QED BY <2>1, <2>2
  <1>3. ASSUME NEW s \in Session, Check(s) \/ Open(s) \/ Fill(s) PROVE EventOnTheWay'
    <2>1. /\ UNCHANGED <<dir, died, events, first>>
          /\ \A t \in Session : /\ pc[t] \in AtWork => pc'[t] \in AtWork
                                /\ pc'[t] = "mkdir" => pc[t] = "mkdir"
      BY <1>3 DEF Check, Open, Fill, Goto, runVars, history
    <2> QED BY <2>1
  <1>4. ASSUME NEW s \in Session, Return(s) PROVE EventOnTheWay'
    <2>1. CASE first[s]
      BY <1>4, <2>1 DEF Return, Goto, runVars, history
    <2>2. CASE ~first[s]
      BY <1>4, <2>2 DEF Return, Goto, runVars, history
    <2> QED BY <2>1, <2>2
  <1>5. ASSUME NEW s \in Session, Leave(s) PROVE EventOnTheWay'
    BY <1>5 DEF Leave, Goto, runVars, history
  <1>6. ASSUME NEW s \in Session, Die(s) PROVE EventOnTheWay'
    BY <1>6 DEF Die, Goto, runVars
  <1>7. CASE Edit \/ UNCHANGED vars
    BY <1>7 DEF Edit, vars, runVars, history
  <1> QED BY <1>1, <1>2, <1>3, <1>4, <1>5, <1>6, <1>7 DEF Next

LEMMA CutStep ==
    ASSUME TypeOK, TypeOK', InOrder, CutUnderWay, [Next]_vars
    PROVE  CutUnderWay'
  <1> SUFFICES ASSUME NEW f \in File, disk'[f] = "cut"
               PROVE  f \in torn' \/ \E s \in Session : pc'[s] = "fill" /\ Order[at'[s]] = f
    BY DEF CutUnderWay
  <1> USE DEF TypeOK
  <1>1. ASSUME NEW s \in Session, Start(s) \/ MakeDirs(s) \/ Check(s) \/ Return(s) \/ Leave(s)
        PROVE  f \in torn' \/ \E t \in Session : pc'[t] = "fill" /\ Order[at'[t]] = f
    <2>1. disk' = disk /\ torn' = torn
      BY <1>1 DEF Start, MakeDirs, Check, Return, Leave, history
    <2>2. \A t \in Session : pc[t] = "fill" => pc'[t] = "fill" /\ at'[t] = at[t]
      BY <1>1 DEF Start, MakeDirs, Check, Return, Leave, Goto, runVars
    <2>3. f \in torn \/ \E t \in Session : pc[t] = "fill" /\ Order[at[t]] = f
      BY <2>1 DEF CutUnderWay
    <2> QED BY <2>1, <2>2, <2>3
  <1>2. ASSUME NEW s \in Session, Open(s)
        PROVE  f \in torn' \/ \E t \in Session : pc'[t] = "fill" /\ Order[at'[t]] = f
    <2>1. CASE Order[at[s]] = f
      BY <1>2, <2>1 DEF Open, Goto, runVars
    <2>2. CASE Order[at[s]] # f
      BY <1>2, <2>2 DEF Open, Goto, runVars, history, CutUnderWay
    <2> QED BY <2>1, <2>2
  <1>3. ASSUME NEW s \in Session, Fill(s)
        PROVE  f \in torn' \/ \E t \in Session : pc'[t] = "fill" /\ Order[at'[t]] = f
    <2>1. Order[at[s]] # f
      BY <1>3, OrderFacts DEF Fill, InOrder
    <2>2. disk[f] = "cut" /\ torn' = torn
      BY <1>3, <2>1 DEF Fill, history
    <2>3. \A t \in Session : t # s => pc'[t] = pc[t] /\ at'[t] = at[t]
      BY <1>3 DEF Fill, Goto
    <2>4. f \in torn \/ \E t \in Session : pc[t] = "fill" /\ Order[at[t]] = f
      BY <2>2 DEF CutUnderWay
    <2> QED BY <2>1, <2>2, <2>3, <2>4
  <1>4. ASSUME NEW s \in Session, Die(s)
        PROVE  f \in torn' \/ \E t \in Session : pc'[t] = "fill" /\ Order[at'[t]] = f
    BY <1>4 DEF Die, Goto, runVars, CutUnderWay
  <1>5. CASE Edit
    <2>1. UNCHANGED <<torn, pc, at>> /\ disk[f] = "cut"
      BY <1>5 DEF Edit, runVars, Present
    <2> QED BY <2>1 DEF CutUnderWay
  <1>6. CASE UNCHANGED vars
    BY <1>6 DEF vars, runVars, history, CutUnderWay
  <1> QED BY <1>1, <1>2, <1>3, <1>4, <1>5, <1>6 DEF Next

LEMMA LayoutStep == LayoutInv /\ [Next]_vars => LayoutInv'
  BY TypeStep, OrderStep, LaidOutStep, MissedStep, EventStep, CutStep DEF LayoutInv

LEMMA LayoutInvariant == Spec => []LayoutInv
  BY InitHolds, LayoutStep, PTL DEF Spec

-----------------------------------------------------------------------------
(* The theorems of `myco init`. *)

\* The state of the files, of the processes and of the history keeps its type.
THEOREM TypeCorrect == Spec => []TypeOK
  <1>1. LayoutInv => TypeOK
    BY DEF LayoutInv
  <1> QED BY <1>1, LayoutInvariant, PTL

\* Whenever an init reports success, every file of the layout is there but for
\* those the owner removed meanwhile (paths.py:144-164).
THEOREM Installed == Spec => []LaidOut
  <1>1. LayoutInv => LaidOut
    BY DEF LayoutInv
  <1> QED BY <1>1, LayoutInvariant, PTL

\* Only a death can leave the event of the first init out (cli.py:70-77).
THEOREM FirstInitRecorded == Spec => []InitRecorded
  <1>1. LayoutInv => InitRecorded
    <2> SUFFICES ASSUME LayoutInv, dir, ~died, \A s \in Session : pc[s] \in {"idle", "returned"}
                 PROVE  events > 0
      BY DEF InitRecorded
    <2>1. events # 0
      BY DEF LayoutInv, EventOnTheWay, AtWork
    <2> QED BY <2>1 DEF LayoutInv, TypeOK
  <1> QED BY <1>1, LayoutInvariant, PTL

\* "Safe to run again" (README.en.md:57): no init writes a file that was there
\* ever since it started (paths.py:154-175).
THEOREM Harmless == Spec => SafeToRunAgain
  <1> DEFINE A == \A f \in File : disk'[f] # disk[f] /\ edits' = edits =>
                    \E s \in Session : pc[s] \in {"open", "fill"} /\ f \in missed[s]
  <1>1. LayoutInv /\ [Next]_vars => [A]_vars
    <2> SUFFICES ASSUME LayoutInv, Next, NEW f \in File, disk'[f] # disk[f], edits' = edits
                 PROVE  \E s \in Session : pc[s] \in {"open", "fill"} /\ f \in missed[s]
      OBVIOUS
    <2>1. ~Edit
      BY DEF Edit, LayoutInv, TypeOK
    <2>2. PICK s \in Session : Open(s) \/ Fill(s)
      BY <2>1 DEF Next, Start, MakeDirs, Check, Return, Leave, Die
    <2>3. pc[s] \in {"open", "fill"} /\ f = Order[at[s]]
      BY <2>2 DEF Open, Fill, LayoutInv, TypeOK
    <2> QED BY <2>3 DEF LayoutInv, AbsentMissed
  <1> QED BY <1>1, LayoutInvariant, PTL DEF Spec, SafeToRunAgain

-----------------------------------------------------------------------------
(* The theorems of `myco doctor`. *)

\* What was listed was there then: it is gone only by the owner's hand since.
ListedWasThere ==
    /\ doctor \in [pc : {"idle", "read", "failed"}, todo : SUBSET Spores, since : Nat]
    /\ doctor.since <= edits
    /\ doctor.pc = "read" =>
         \A f \in doctor.todo : disk[f] = "absent" => edits > doctor.since

LEMMA EditsStep == TypeOK /\ TypeOK' /\ [Next]_vars => edits' >= edits /\ edits \in Nat /\ edits' \in Nat
  <1> SUFFICES ASSUME TypeOK, TypeOK', [Next]_vars
               PROVE  edits' >= edits /\ edits \in Nat /\ edits' \in Nat
    OBVIOUS
  <1>0. edits \in Nat /\ edits' \in Nat
    BY BoundFacts DEF TypeOK
  <1>1. edits' = edits \/ edits' = edits + 1
    BY DEF Next, Start, MakeDirs, Check, Open, Fill, Return, Leave, Die, Edit, vars
  <1> QED BY <1>0, <1>1

LEMMA ListedStep ==
    ASSUME LayoutInv, LayoutInv', ListedWasThere, [DoctorNext]_doctorVars
    PROVE  ListedWasThere'
  <1>0. edits \in Nat /\ Spores \subseteq File
    BY BoundFacts, DoctorAssumption DEF LayoutInv, TypeOK
  <1>1. CASE [Next]_vars /\ UNCHANGED doctor
    <2>1. edits' >= edits /\ edits' \in Nat
      BY <1>1, EditsStep DEF LayoutInv
    <2>2. \A f \in File : disk[f] # "absent" /\ disk'[f] = "absent" => edits' > edits
      BY <1>1, FileStep DEF LayoutInv
    <2>3. doctor.todo \subseteq File /\ doctor.since \in Nat
      BY <1>0 DEF ListedWasThere
    <2>4. doctor.pc = "read" => \A f \in doctor.todo : disk'[f] = "absent" => edits' > doctor.since
      BY <1>0, <2>1, <2>2, <2>3 DEF ListedWasThere
    <2> QED BY <1>0, <1>1, <2>1, <2>3, <2>4 DEF ListedWasThere
  <1>2. CASE List
    BY <1>0, <1>2 DEF List, ListedWasThere, Present, vars
  <1>3. ASSUME NEW f \in Spores, ReadSpore(f) \/ Fail(f) PROVE ListedWasThere'
    BY <1>0, <1>3 DEF ReadSpore, Fail, ListedWasThere, vars
  <1>4. CASE End
    BY <1>0, <1>4 DEF End, Away, ListedWasThere, vars
  <1>5. CASE UNCHANGED doctorVars
    BY <1>5 DEF doctorVars, ListedWasThere, vars
  <1> QED BY <1>1, <1>2, <1>3, <1>4, <1>5 DEF DoctorNext

LEMMA DoctorVarsStep == [DoctorNext]_doctorVars => [Next]_vars
  BY DEF DoctorNext, doctorVars, List, ReadSpore, Fail, End

\* A doctor only reads: whatever is true of `myco init` is true beside it.
LEMMA DoctorStutters == DoctorSpec => Spec
  <1>1. DoctorInit => Init
    BY DEF DoctorInit
  <1> QED BY <1>1, DoctorVarsStep, PTL DEF Spec, DoctorSpec

\* The inits that run beside a doctor, or have ended, never take it down: it
\* fails only at a spore that is being written, was died upon or is the owner's
\* (spore_loader.py:20-38, cli.py:546-552).
THEOREM DoctorUnharmed == DoctorSpec => DoctorAnswers
  <1> DEFINE Answers ==
        (doctor.pc = "read" /\ doctor'.pc = "failed") =>
            \E f \in doctor.todo :
                \/ disk[f] = "cut" /\ (f \in torn \/ \E s \in Session : pc[s] = "fill" /\ Order[at[s]] = f)
                \/ disk[f] = "own"
                \/ disk[f] = "absent" /\ edits > doctor.since
  <1>1. DoctorInit => ListedWasThere
    BY DEF DoctorInit, Init, Away, ListedWasThere
  <1>2. LayoutInv /\ LayoutInv' /\ ListedWasThere /\ [DoctorNext]_doctorVars => ListedWasThere'
    BY ListedStep
  <1>3. LayoutInv /\ ListedWasThere /\ [DoctorNext]_doctorVars => [Answers]_doctorVars
    <2> SUFFICES ASSUME LayoutInv, ListedWasThere, DoctorNext, doctor.pc = "read", doctor'.pc = "failed"
                 PROVE  Answers
      OBVIOUS
    <2>1. PICK f \in Spores : Fail(f)
      BY DEF DoctorNext, List, ReadSpore, End, Away, ListedWasThere
    <2>2. f \in doctor.todo /\ f \in File /\ disk[f] # "default"
      BY <2>1, DoctorAssumption DEF Fail
    <2>3. disk[f] \in {"absent", "cut", "own"}
      BY <2>2 DEF LayoutInv, TypeOK
    <2>4. disk[f] = "absent" => edits > doctor.since
      BY <2>2 DEF ListedWasThere
    <2>5. disk[f] = "cut" => f \in torn \/ \E s \in Session : pc[s] = "fill" /\ Order[at[s]] = f
      BY <2>2 DEF LayoutInv, CutUnderWay
    <2> QED BY <2>2, <2>3, <2>4, <2>5
  <1> QED BY <1>1, <1>2, <1>3, DoctorStutters, LayoutInvariant, PTL DEF DoctorSpec, DoctorAnswers

=============================================================================
