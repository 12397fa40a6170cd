------------------------- MODULE PatchDraftsProofs -------------------------
(***************************************************************************)
(* What TLAPS proves of `myco patch`, for every set of sessions and files, *)
(* every naming of the artifacts, and every number of failures, edits and  *)
(* runs.                                                                   *)
(***************************************************************************)
EXTENDS PatchDrafts, TLAPS

Drafting == {"open_patch", "patch", "open_rollback", "rollback", "event"}

\* A session looks at failures that were recorded, and drafts from a text that
\* can be transformed.
Bounded ==
    /\ Len(failures) <= MaxFailures
    /\ \A s \in Session :
         /\ read[s] <= Len(failures)
         /\ at[s] <= read[s] + 1
         /\ pc[s] \in Drafting \cup {"draft_text"} => at[s] <= read[s]
         /\ pc[s] \in Drafting => held[s] \in {"v1", "v2"}

\* A call without its recommendation is the first of the two.
CallsPaired ==
    \A s \in Session :
        /\ pc[s] = "draft_text" => calls[s] = 2 * count[s] + 1
        /\ pc[s] \notin {"idle", "draft_text"} => calls[s] = 2 * count[s]

\* What a session has met and what it has decided differ by the one in hand.
Keys(s) == {Key(failures[i]) : i \in 1..(at[s] - 1)}
DecidedSoFar ==
    \A s \in Session :
        /\ pc[s] \in {"recommend", "draft_text"} => seen[s] = {} /\ done[s] = {}
        /\ pc[s] = "draft" => seen[s] = done[s] /\ Keys(s) = done[s]
        /\ pc[s] \in Drafting => Keys(s) = done[s] /\ seen[s] = done[s] \cup {Key(Current(s))}

\* An artifact bears the name of its file, is not taken away, and is there from
\* the moment it is opened.
ArtifactsNamed ==
    /\ \A p \in DOMAIN patches : SlugOf[patches[p].target] = p
    /\ \A p \in DOMAIN rollbacks : SlugOf[rollbacks[p].target] = p
    /\ \A s \in Session :
         /\ pc[s] \in Drafting \ {"open_patch"} => SlugOf[Current(s).target] \in DOMAIN patches
         /\ pc[s] \in {"rollback", "event"} => SlugOf[Current(s).target] \in DOMAIN rollbacks
    /\ \A d \in drafted : SlugOf[d.failure.target] \in DOMAIN patches \cap DOMAIN rollbacks

\* A session that has been alone still is, and what is on disk is its own.
Undisturbed(s) ==
    LET t == Current(s).target
        p == SlugOf[t]
    IN  /\ \A u \in Session \ {s} : pc[u] = "idle"
        /\ pc[s] = "patch" => patches[p] = [target |-> t, of |-> "empty"]
        /\ pc[s] \in {"open_rollback", "rollback", "event"} => patches[p] = [target |-> t, of |-> held[s]]
        /\ pc[s] = "rollback" => rollbacks[p] = [target |-> t, of |-> "empty"]
        /\ pc[s] = "event" => rollbacks[p] = [target |-> t, of |-> held[s]]
AloneUndisturbed == \A s \in Session : pc[s] # "idle" /\ alone[s] => Undisturbed(s)

PatchInv ==
    /\ TypeOK /\ Bounded /\ CallsPaired /\ DecidedSoFar /\ ArtifactsNamed /\ AloneUndisturbed

LEMMA Bounds == MaxFailures \in Nat /\ MaxEdits \in Nat /\ MaxRuns \in Nat
  BY PatchAssumption

LEMMA Constants ==
    /\ \A t \in Target : SlugOf[t] \in Slug
    /\ Kinds \subseteq Failure /\ Initial \subseteq Content
  BY PatchAssumption

LEMMA FailuresType ==
    ASSUME TypeOK
    PROVE  /\ Len(failures) \in Nat
           /\ \A i \in 1..Len(failures) : failures[i] \in Failure
  BY Constants DEF TypeOK

\* The failure in hand is one that was recorded.
LEMMA CurrentType ==
    ASSUME TypeOK, Bounded, NEW s \in Session, at[s] <= read[s]
    PROVE  /\ at[s] \in 1..Len(failures)
           /\ Current(s) \in Failure /\ Current(s).target \in Target
           /\ SlugOf[Current(s).target] \in Slug
  <1>1. at[s] \in 1..Len(failures)
    BY FailuresType, Bounds DEF TypeOK, Bounded
  <1>2. Current(s) \in Failure
    BY <1>1, FailuresType DEF Current
  <1> QED BY <1>1, <1>2, Constants DEF Failure

\* Failures are recorded and stay.
LEMMA FailuresStep ==
    ASSUME TypeOK, [Next]_vars
    PROVE  /\ Len(failures) <= Len(failures') /\ Len(failures') \in Nat
           /\ \A i \in 1..Len(failures) : failures'[i] = failures[i]
           /\ (\E s \in Session : Start(s) \/ Step(s) \/ Die(s)) => failures' = failures
  <1>0. failures \in Seq(Kinds) /\ Len(failures) \in Nat
    BY DEF TypeOK
  <1>1. ASSUME NEW s \in Session, Start(s) \/ Step(s) \/ Die(s) PROVE failures' = failures
    BY <1>1 DEF Start, Step, Die, Summarise, DraftText, BadConfig, Recommended, Skip, Consider,
                OpenPatch, WritePatch, OpenRollback, WriteRollback, Drafted, Finish, envVars
  <1>2. CASE HuntFails
    <2>1. PICK f \in Kinds : failures' = Append(failures, f)
      BY <1>2 DEF HuntFails
    <2>2. /\ Len(failures') = Len(failures) + 1
          /\ \A i \in 1..Len(failures) : failures'[i] = failures[i]
      BY <1>0, <2>1
    <2>3. \A s \in Session : ~(Start(s) \/ Step(s) \/ Die(s))
      BY <1>0, <1>1, <2>2
    <2> QED BY <1>0, <2>2, <2>3
  <1>3. CASE Edit \/ UNCHANGED vars
    BY <1>3 DEF Edit, vars, envVars
  <1> QED BY <1>0, <1>1, <1>2, <1>3 DEF Next

\* What a step means for one session: one of its own, or nothing but that it is
\* no longer alone.
LEMMA SessionStep ==
    ASSUME TypeOK, [Next]_vars, NEW t \in Session
    PROVE  \/ UNCHANGED <<pc[t], runs[t], read[t], at[t], calls[t], count[t], seen[t], done[t], held[t]>>
           \/ Start(t) \/ Step(t) \/ Die(t)
  <1> USE DEF TypeOK
  <1>1. ASSUME NEW s \in Session, s # t, Start(s) \/ Die(s)
        PROVE  UNCHANGED <<pc[t], runs[t], read[t], at[t], calls[t], count[t], seen[t], done[t], held[t]>>
    <2>1. CASE Start(s)
      <3>1. /\ pc' = [pc EXCEPT ![s] = IF config THEN "recommend" ELSE "idle"]
            /\ at' = [at EXCEPT ![s] = 1]
        BY <2>1 DEF Start, Goto, TurnTo
      <3>2. pc'[t] = pc[t] /\ at'[t] = at[t]
        BY <1>1, <3>1
      <3> QED BY <1>1, <2>1, <3>2 DEF Start
    <2>2. CASE Die(s)
      BY <1>1, <2>2 DEF Die, Goto
    <2> QED BY <1>1, <2>1, <2>2
  <1>2. ASSUME NEW s \in Session, s # t,
               Summarise(s) \/ DraftText(s) \/ BadConfig(s) \/ Recommended(s) \/ Skip(s) \/ Consider(s)
        PROVE  UNCHANGED <<pc[t], runs[t], read[t], at[t], calls[t], count[t], seen[t], done[t], held[t]>>
    BY <1>2, Bounds DEF Summarise, DraftText, BadConfig, Recommended, Skip, Consider, Goto, TurnTo
  <1>3. ASSUME NEW s \in Session, s # t,
               \/ OpenPatch(s) \/ WritePatch(s) \/ OpenRollback(s) \/ WriteRollback(s)
               \/ Drafted(s) \/ Finish(s)
        PROVE  UNCHANGED <<pc[t], runs[t], read[t], at[t], calls[t], count[t], seen[t], done[t], held[t]>>
    BY <1>3, Bounds DEF OpenPatch, WritePatch, OpenRollback, WriteRollback, Drafted, Finish, Goto, TurnTo
  <1>4. CASE HuntFails \/ Edit \/ UNCHANGED vars
    BY <1>4 DEF HuntFails, Edit, vars, runVars
  <1> QED BY <1>1, <1>2, <1>3, <1>4 DEF Next, Step

\* An emptied or filled artifact keeps the type.
LEMMA WriteType ==
    ASSUME NEW disk, DOMAIN disk \subseteq Slug, \A p \in DOMAIN disk : disk[p] \in Artifact,
           NEW f \in Failure, NEW text \in {"v1", "v2"},
           NEW new, new = Emptied(disk, f) \/ new \in Filled(disk, f, text)
    PROVE  DOMAIN new \subseteq Slug /\ \A p \in DOMAIN new : new[p] \in Artifact
  <1>1. f.target \in Target
    BY DEF Failure
  <1>2. PICK x \in {"v1", "v2", "empty", "mixed"} : new = Put(disk, SlugOf[f.target], f.target, x)
    BY DEF Emptied, Filled
  <1>3. DOMAIN disk \subseteq Slug /\ \A p \in DOMAIN disk : disk[p] \in Artifact
    OBVIOUS
  <1> QED BY <1>1, <1>2, <1>3, Constants DEF Put, Artifact

LEMMA InitHolds == Init => PatchInv
  <1> SUFFICES ASSUME Init PROVE PatchInv
    OBVIOUS
  <1>1. failures = <<>> /\ failures \in Seq(Kinds) /\ Len(failures) = 0
    BY DEF Init
  <1>2. source \in [Target -> Content]
    BY Constants DEF Init
  <1>3. alone \in [Session -> BOOLEAN] /\ config \in BOOLEAN
    BY DEF Init
  <1>4. TypeOK
    BY <1>1, <1>2, <1>3, Bounds DEF Init, TypeOK, Content
  <1>5. Bounded /\ CallsPaired /\ AloneUndisturbed
    BY <1>1, Bounds DEF Init, Bounded, CallsPaired, AloneUndisturbed, Drafting
  <1>6. DecidedSoFar /\ ArtifactsNamed
    BY <1>1 DEF Init, DecidedSoFar, ArtifactsNamed, Drafting
  <1> QED BY <1>4, <1>5, <1>6 DEF PatchInv

LEMMA TypeStep == TypeOK /\ Bounded /\ DecidedSoFar /\ [Next]_vars => TypeOK'
  <1> SUFFICES ASSUME TypeOK, Bounded, DecidedSoFar, [Next]_vars PROVE TypeOK'
    OBVIOUS
  <1>c. \A s \in Session : pc[s] \in Drafting => Current(s) \in Failure /\ held[s] \in {"v1", "v2"}
    BY CurrentType DEF Bounded
  <1>l. Len(failures) \in 0..MaxFailures
    BY FailuresType, Bounds DEF Bounded
  <1>1. ASSUME NEW s \in Session, Start(s) PROVE TypeOK'
    <2>1. alone' \in [Session -> BOOLEAN]
      BY <1>1 DEF Start
    <2>2. runs' \in [Session -> 0..MaxRuns]
      BY <1>1, Bounds DEF Start, TypeOK
    <2>3. read' \in [Session -> 0..MaxFailures] /\ at' \in [Session -> 1..(MaxFailures + 1)]
      BY <1>1, <1>l, Bounds DEF Start, TurnTo, TypeOK
    <2>4. pc' \in [Session -> {"idle", "recommend", "draft_text", "draft", "open_patch", "patch",
                               "open_rollback", "rollback", "event"}]
      BY <1>1 DEF Start, Goto, TypeOK
    <2>5. /\ seen' \in [Session -> SUBSET {Key(f) : f \in Failure}]
          /\ done' \in [Session -> SUBSET {Key(f) : f \in Failure}]
          /\ \A t \in Session : done'[t] \subseteq seen'[t]
      BY <1>1 DEF Start, TypeOK
    <2> QED BY <1>1, <2>1, <2>2, <2>3, <2>4, <2>5, Bounds DEF Start, TypeOK, envVars, diskVars
  <1>2. ASSUME NEW s \in Session, Summarise(s) \/ BadConfig(s) \/ Finish(s) \/ Die(s) PROVE TypeOK'
    <2>1. pc' \in [Session -> {"idle", "recommend", "draft_text", "draft", "open_patch", "patch",
                               "open_rollback", "rollback", "event"}]
      BY <1>2 DEF Summarise, BadConfig, Finish, Die, Goto, TypeOK
    <2>2. calls' \in [Session -> Nat]
      BY <1>2 DEF Summarise, BadConfig, Finish, Die, TypeOK
    <2> QED BY <1>2, <2>1, <2>2, Bounds DEF Summarise, BadConfig, Finish, Die, TypeOK, envVars, diskVars
  <1>3. ASSUME NEW s \in Session, DraftText(s) PROVE TypeOK'
    <2>1. at'[s] \in 1..(MaxFailures + 1)
      BY <1>3, <1>l, Bounds DEF DraftText, TurnTo, TypeOK, Bounded
    <2> QED BY <1>3, <2>1, Bounds DEF DraftText, Goto, TurnTo, TypeOK, envVars, diskVars
  <1>4. ASSUME NEW s \in Session, Recommended(s) PROVE TypeOK'
    BY <1>4, <1>l, Bounds DEF Recommended, Goto, TurnTo, TypeOK, envVars, diskVars
  <1>5. ASSUME NEW s \in Session, Skip(s) PROVE TypeOK'
    <2>1. at'[s] \in 1..(MaxFailures + 1)
      BY <1>5, <1>l, Bounds DEF Skip, More, TurnTo, TypeOK, Bounded
    <2> QED BY <1>5, <2>1, Bounds DEF Skip, TurnTo, TypeOK, envVars, diskVars
  <1>6. ASSUME NEW s \in Session, Consider(s) PROVE TypeOK'
    <2>1. Current(s) \in Failure
      BY <1>6, CurrentType DEF Consider, More
    <2>2. Key(Current(s)) \in {Key(f) : f \in Failure}
      BY <2>1
    <2>3. /\ seen' \in [Session -> SUBSET {Key(f) : f \in Failure}]
          /\ done' \in [Session -> SUBSET {Key(f) : f \in Failure}]
          /\ \A t \in Session : done'[t] \subseteq seen'[t]
      <3> DEFINE k == Key(Current(s))
                 K == {Key(f) : f \in Failure}
      <3>1. /\ seen \in [Session -> SUBSET K] /\ done \in [Session -> SUBSET K]
            /\ \A t \in Session : done[t] \subseteq seen[t]
        BY DEF TypeOK
      <3>2. seen' = [seen EXCEPT ![s] = @ \cup {k}]
        BY <1>6 DEF Consider
      <3>3. done' = done \/ done' = [done EXCEPT ![s] = @ \cup {k}]
        BY <1>6 DEF Consider
      <3>4. k \in K
        BY <2>2
      <3> HIDE DEF k, K
      <3>5. seen' \in [Session -> SUBSET K] /\ done' \in [Session -> SUBSET K]
        BY <3>1, <3>2, <3>3, <3>4
      <3>6. \A t \in Session : done'[t] \subseteq seen'[t]
        BY <3>1, <3>2, <3>3
      <3> QED BY <3>5, <3>6 DEF K
    <2>4. held' \in [Session -> Content]
      <3>1. held' = held \/ held' = [held EXCEPT ![s] = source[Current(s).target]]
        BY <1>6 DEF Consider
      <3>2. source[Current(s).target] \in Content
        BY <2>1 DEF TypeOK, Failure
      <3>3. held \in [Session -> Content]
        BY DEF TypeOK
      <3> QED BY <3>1, <3>2, <3>3
    <2>5. at' \in [Session -> 1..(MaxFailures + 1)]
      <3>1. at[s] + 1 \in 1..(MaxFailures + 1)
        BY <1>6, <1>l, Bounds DEF Consider, More, TypeOK, Bounded
      <3>2. at' = at \/ at' = [at EXCEPT ![s] = at[s] + 1]
        BY <1>6 DEF Consider, TurnTo
      <3> QED BY <3>1, <3>2 DEF TypeOK
    <2>6. pc' = pc \/ pc' = [pc EXCEPT ![s] = "open_patch"]
      BY <1>6 DEF Consider, Goto
    <2>7. UNCHANGED <<envVars, diskVars, runs, read, calls, count, alone>>
      BY <1>6 DEF Consider
    <2> QED BY <2>3, <2>4, <2>5, <2>6, <2>7, Bounds DEF TypeOK, envVars, diskVars
  <1>7. ASSUME NEW s \in Session, OpenPatch(s) \/ WritePatch(s) PROVE TypeOK'
    <2>1. DOMAIN patches' \subseteq Slug /\ \A p \in DOMAIN patches' : patches'[p] \in Artifact
      <3>1. DOMAIN patches \subseteq Slug /\ \A p \in DOMAIN patches : patches[p] \in Artifact
        BY DEF TypeOK
      <3>2. patches' = Emptied(patches, Current(s)) \/ patches' \in Filled(patches, Current(s), held[s])
        BY <1>7 DEF OpenPatch, WritePatch
      <3>3. Current(s) \in Failure /\ held[s] \in {"v1", "v2"}
        BY <1>7, <1>c DEF OpenPatch, WritePatch, Drafting
      <3> QED BY <3>1, <3>2, <3>3, WriteType
    <2> QED BY <1>7, <2>1, Bounds DEF OpenPatch, WritePatch, Goto, TypeOK, envVars
  <1>8. ASSUME NEW s \in Session, OpenRollback(s) \/ WriteRollback(s) PROVE TypeOK'
    <2>1. DOMAIN rollbacks' \subseteq Slug /\ \A p \in DOMAIN rollbacks' : rollbacks'[p] \in Artifact
      <3>1. DOMAIN rollbacks \subseteq Slug /\ \A p \in DOMAIN rollbacks : rollbacks[p] \in Artifact
        BY DEF TypeOK
      <3>2. rollbacks' = Emptied(rollbacks, Current(s)) \/ rollbacks' \in Filled(rollbacks, Current(s), held[s])
        BY <1>8 DEF OpenRollback, WriteRollback
      <3>3. Current(s) \in Failure /\ held[s] \in {"v1", "v2"}
        BY <1>8, <1>c DEF OpenRollback, WriteRollback, Drafting
      <3> QED BY <3>1, <3>2, <3>3, WriteType
    <2> QED BY <1>8, <2>1, Bounds DEF OpenRollback, WriteRollback, Goto, TypeOK, envVars
  <1>9. ASSUME NEW s \in Session, Drafted(s) PROVE TypeOK'
    <2>1. Current(s) \in Failure /\ held[s] \in {"v1", "v2"}
      BY <1>9, <1>c DEF Drafted, Drafting
    <2>2. drafted' \subseteq [failure : Failure, sha256 : {"v1", "v2"}]
      BY <1>9, <2>1 DEF Drafted, TypeOK
    <2>3. at' \in [Session -> 1..(MaxFailures + 1)]
      <3>1. at[s] + 1 \in 1..(MaxFailures + 1)
        BY <1>9, <1>l, Bounds DEF Drafted, TypeOK, Bounded, Drafting
      <3> QED BY <1>9, <3>1 DEF Drafted, TurnTo, TypeOK
    <2>4. /\ done' \in [Session -> SUBSET {Key(f) : f \in Failure}]
          /\ \A t \in Session : done'[t] \subseteq seen'[t]
      <3> DEFINE k == Key(Current(s))
                 K == {Key(f) : f \in Failure}
      <3>1. /\ seen \in [Session -> SUBSET K] /\ done \in [Session -> SUBSET K]
            /\ \A t \in Session : done[t] \subseteq seen[t]
        BY DEF TypeOK
      <3>2. done' = [done EXCEPT ![s] = @ \cup {k}] /\ seen' = seen
        BY <1>9 DEF Drafted
      <3>3. k \in K /\ k \in seen[s]
        BY <1>9, <2>1 DEF Drafted, DecidedSoFar, Drafting
      <3> HIDE DEF k, K
      <3>4. done' \in [Session -> SUBSET K] /\ \A t \in Session : done'[t] \subseteq seen'[t]
        BY <3>1, <3>2, <3>3
      <3> QED BY <3>4 DEF K
    <2> QED BY <1>9, <2>2, <2>3, <2>4, Bounds DEF Drafted, Goto, TypeOK, envVars
  <1>10. CASE HuntFails
    <2>1. PICK f \in Kinds : failures' = Append(failures, f)
      BY <1>10 DEF HuntFails
    <2>2. failures' \in Seq(Kinds)
      BY <2>1 DEF TypeOK
    <2> QED BY <1>10, <2>2, Bounds DEF HuntFails, TypeOK, runVars, diskVars
  <1>11. CASE Edit
    <2>1. source' \in [Target -> Content]
      BY <1>11 DEF Edit, TypeOK
    <2>2. config' \in BOOLEAN
      BY <1>11 DEF Edit, TypeOK
    <2> QED BY <1>11, <2>1, <2>2, Bounds DEF Edit, TypeOK, runVars, diskVars
  <1>12. CASE UNCHANGED vars
    BY <1>12 DEF vars, runVars, diskVars, envVars, TypeOK
  <1> QED BY <1>1, <1>2, <1>3, <1>4, <1>5, <1>6, <1>7, <1>8, <1>9, <1>10, <1>11, <1>12 DEF Next, Step

LEMMA BoundedStep == TypeOK /\ TypeOK' /\ Bounded /\ [Next]_vars => Bounded'
  <1> SUFFICES ASSUME TypeOK, TypeOK', Bounded, [Next]_vars PROVE Bounded'
    OBVIOUS
  <1>1. Len(failures') <= MaxFailures
    <2>1. CASE HuntFails
      <3>1. Len(failures') = Len(failures) + 1 /\ Len(failures) < MaxFailures
        BY <2>1 DEF HuntFails, TypeOK
      <3> QED BY <3>1, FailuresType, Bounds
    <2>2. CASE ~HuntFails
      <3>1. failures' = failures
        BY <2>2, FailuresStep DEF Next, Edit, vars, envVars
      <3> QED BY <3>1 DEF Bounded
    <2> QED BY <2>1, <2>2
  <1>2. ASSUME NEW t \in Session
        PROVE  /\ read'[t] <= Len(failures')
               /\ at'[t] <= read'[t] + 1
               /\ pc'[t] \in Drafting \cup {"draft_text"} => at'[t] <= read'[t]
               /\ pc'[t] \in Drafting => held'[t] \in {"v1", "v2"}
    <2>0. /\ read[t] \in Nat /\ at[t] \in Nat
          /\ Len(failures) \in Nat /\ Len(failures') \in Nat /\ Len(failures) <= Len(failures')
          /\ read[t] <= Len(failures) /\ at[t] <= read[t] + 1
          /\ pc[t] \in Drafting \cup {"draft_text"} => at[t] <= read[t]
          /\ pc[t] \in Drafting => held[t] \in {"v1", "v2"}
      BY FailuresType, FailuresStep, Bounds, SMTT(20) DEF TypeOK, Bounded
    <2> USE DEF Drafting
    <2>1. CASE UNCHANGED <<pc[t], runs[t], read[t], at[t], calls[t], count[t], seen[t], done[t], held[t]>>
      BY <2>0, <2>1
    <2>2. CASE Start(t)
      <3>1. /\ read'[t] = Len(failures) /\ at'[t] = 1 /\ pc'[t] \in {"idle", "recommend"}
        BY <2>2, Bounds DEF Start, TurnTo, Goto, TypeOK
      <3> QED BY <2>0, <3>1
    <2>3. CASE Summarise(t)
      <3>1. /\ read' = read /\ at' = at /\ pc'[t] = "draft_text" /\ at[t] <= read[t]
        BY <2>3, Bounds DEF Summarise, More, Goto, TypeOK
      <3> QED BY <2>0, <3>1
    <2>4. CASE DraftText(t)
      <3>1. /\ read' = read /\ at'[t] = at[t] + 1 /\ pc'[t] = "recommend" /\ pc[t] = "draft_text"
        BY <2>4, Bounds DEF DraftText, Goto, TurnTo, TypeOK
      <3> QED BY <2>0, <3>1
    <2>5. CASE BadConfig(t) \/ Finish(t) \/ Die(t)
      <3>1. /\ read' = read /\ at' = at /\ pc'[t] = "idle"
        BY <2>5, Bounds DEF BadConfig, Finish, Die, Goto, TypeOK
      <3> QED BY <2>0, <3>1
    <2>6. CASE Recommended(t)
      <3>1. /\ read'[t] = Len(failures) /\ at'[t] = 1 /\ pc'[t] = "draft"
        BY <2>6, Bounds DEF Recommended, TurnTo, Goto, TypeOK
      <3> QED BY <2>0, <3>1
    <2>7. CASE Skip(t)
      <3>1. /\ read' = read /\ at'[t] = at[t] + 1 /\ pc' = pc /\ pc[t] = "draft" /\ at[t] <= read[t]
        BY <2>7, Bounds DEF Skip, More, TurnTo, TypeOK
      <3> QED BY <2>0, <3>1
    <2>8. CASE Consider(t)
      <3>1. read' = read /\ at[t] <= read[t] /\ pc[t] = "draft"
        BY <2>8 DEF Consider, More
      <3>2. \/ at' = at /\ pc'[t] = "open_patch" /\ held'[t] \in {"v1", "v2"}
            \/ at'[t] = at[t] + 1 /\ pc'[t] = "draft"
        BY <2>8, <3>1, Bounds DEF Consider, Eligible, Goto, TurnTo, TypeOK
      <3> QED BY <2>0, <3>1, <3>2
    <2>9. CASE OpenPatch(t) \/ WritePatch(t) \/ OpenRollback(t) \/ WriteRollback(t)
      <3>1. read' = read /\ at' = at /\ held' = held /\ pc[t] \in Drafting
        BY <2>9 DEF OpenPatch, WritePatch, OpenRollback, WriteRollback
      <3> QED BY <2>0, <3>1
    <2>10. CASE Drafted(t)
      <3>1. /\ read' = read /\ at'[t] = at[t] + 1 /\ pc'[t] = "draft" /\ pc[t] = "event"
        BY <2>10, Bounds DEF Drafted, Goto, TurnTo, TypeOK
      <3> QED BY <2>0, <3>1
    <2> QED BY <2>1, <2>2, <2>3, <2>4, <2>5, <2>6, <2>7, <2>8, <2>9, <2>10, SessionStep DEF Step
  <1> QED BY <1>1, <1>2 DEF Bounded

LEMMA CallsStep == TypeOK /\ CallsPaired /\ [Next]_vars => CallsPaired'
  <1> SUFFICES ASSUME TypeOK, CallsPaired, [Next]_vars, NEW t \in Session
               PROVE  /\ pc'[t] = "draft_text" => calls'[t] = 2 * count'[t] + 1
                      /\ pc'[t] \notin {"idle", "draft_text"} => calls'[t] = 2 * count'[t]
    BY DEF CallsPaired
  <1>0. /\ calls[t] \in Nat /\ count[t] \in Nat
        /\ pc[t] = "draft_text" => calls[t] = 2 * count[t] + 1
        /\ pc[t] \notin {"idle", "draft_text"} => calls[t] = 2 * count[t]
    BY Bounds DEF TypeOK, CallsPaired
  <1>1. CASE UNCHANGED <<pc[t], runs[t], read[t], at[t], calls[t], count[t], seen[t], done[t], held[t]>>
    BY <1>0, <1>1
  <1>2. CASE Start(t)
    <2>1. calls'[t] = 0 /\ count'[t] = 0 /\ pc'[t] \in {"idle", "recommend"}
      BY <1>2, Bounds DEF Start, Goto, TypeOK
    <2> QED BY <2>1
  <1>3. CASE Summarise(t)
    <2>1. calls'[t] = calls[t] + 1 /\ count' = count /\ pc[t] = "recommend" /\ pc'[t] = "draft_text"
      BY <1>3, Bounds DEF Summarise, Goto, TypeOK
    <2> QED BY <1>0, <2>1
  <1>4. CASE DraftText(t)
    <2>1. /\ calls'[t] = calls[t] + 1 /\ count'[t] = count[t] + 1
          /\ pc[t] = "draft_text" /\ pc'[t] = "recommend"
      BY <1>4, Bounds DEF DraftText, Goto, TypeOK
    <2> QED BY <1>0, <2>1
  <1>5. CASE BadConfig(t) \/ Finish(t) \/ Die(t)
    BY <1>5, Bounds DEF BadConfig, Finish, Die, Goto, TypeOK
  <1>6. CASE \/ Recommended(t) \/ Skip(t) \/ Consider(t) \/ OpenPatch(t) \/ WritePatch(t)
             \/ OpenRollback(t) \/ WriteRollback(t) \/ Drafted(t)
    <2>1. /\ calls' = calls /\ count' = count /\ pc[t] \notin {"idle", "draft_text"}
          /\ pc'[t] # "draft_text"
      BY <1>6, Bounds DEF Recommended, Skip, Consider, OpenPatch, WritePatch, OpenRollback,
                  WriteRollback, Drafted, Goto, TypeOK
    <2> QED BY <1>0, <2>1
  <1> QED BY <1>1, <1>2, <1>3, <1>4, <1>5, <1>6, SessionStep DEF Step

\* The keys behind a session, and the failure in hand, as it goes on.
LEMMA KeysStep ==
    ASSUME TypeOK, Bounded, [Next]_vars, NEW t \in Session
    PROVE  /\ at'[t] = at[t] => Keys(t)' = Keys(t)
           /\ at'[t] = at[t] + 1 /\ at[t] <= read[t] => Keys(t)' = Keys(t) \cup {Key(Current(t))}
           /\ at'[t] = 1 => Keys(t)' = {}
           /\ at'[t] = at[t] /\ at[t] <= read[t] => Current(t)' = Current(t)
  <1>0. /\ at[t] \in Nat /\ at[t] >= 1 /\ read[t] \in Nat /\ at[t] <= read[t] + 1
        /\ read[t] <= Len(failures) /\ Len(failures) \in Nat
    BY FailuresType, Bounds DEF TypeOK, Bounded
  <1>1. \A i \in 1..(at[t] - 1) : failures'[i] = failures[i]
    BY <1>0, FailuresStep
  <1>2. at[t] <= read[t] => failures'[at[t]] = failures[at[t]]
    BY <1>0, FailuresStep
  <1>3. at'[t] = at[t] => Keys(t)' = Keys(t)
    <2> SUFFICES ASSUME at'[t] = at[t] PROVE Keys(t)' = Keys(t)
      OBVIOUS
    <2>1. Keys(t)' = {Key(failures'[i]) : i \in 1..(at[t] - 1)}
      BY DEF Keys, Key
    <2> QED BY <1>1, <2>1 DEF Keys, Key
  <1>4. at'[t] = at[t] + 1 /\ at[t] <= read[t] => Keys(t)' = Keys(t) \cup {Key(Current(t))}
    <2> SUFFICES ASSUME at'[t] = at[t] + 1, at[t] <= read[t]
                 PROVE  Keys(t)' = Keys(t) \cup {Key(Current(t))}
      OBVIOUS
    <2>1. Keys(t)' = {Key(failures'[i]) : i \in 1..at[t]}
      BY <1>0 DEF Keys, Key
    <2>2. \A i \in 1..at[t] : failures'[i] = failures[i] /\ (i \in 1..(at[t] - 1) \/ i = at[t])
      BY <1>0, <1>1, <1>2
    <2>3. \A i \in 1..(at[t] - 1) : i \in 1..at[t]
      BY <1>0
    <2>4. at[t] \in 1..at[t]
      BY <1>0
    <2> QED BY <2>1, <2>2, <2>3, <2>4 DEF Keys, Key, Current
  <1>5. at'[t] = 1 => Keys(t)' = {}
    BY DEF Keys
  <1> QED BY <1>2, <1>3, <1>4, <1>5 DEF Current

LEMMA DecidedStep ==
    ASSUME TypeOK, TypeOK', Bounded, DecidedSoFar, [Next]_vars
    PROVE  DecidedSoFar'
  <1> SUFFICES ASSUME NEW t \in Session
               PROVE  /\ pc'[t] \in {"recommend", "draft_text"} => seen'[t] = {} /\ done'[t] = {}
                      /\ pc'[t] = "draft" => seen'[t] = done'[t] /\ Keys(t)' = done'[t]
                      /\ pc'[t] \in Drafting =>
                           Keys(t)' = done'[t] /\ seen'[t] = done'[t] \cup {Key(Current(t)')}
    BY DEF DecidedSoFar, Key
  <1> USE DEF Drafting
  <1>0. /\ pc[t] \in {"recommend", "draft_text"} => seen[t] = {} /\ done[t] = {}
        /\ pc[t] = "draft" => seen[t] = done[t] /\ Keys(t) = done[t]
        /\ pc[t] \in Drafting =>
             /\ Keys(t) = done[t] /\ seen[t] = done[t] \cup {Key(Current(t))}
             /\ at[t] <= read[t]
    BY DEF DecidedSoFar, Bounded
  <1>k. /\ at'[t] = at[t] => Keys(t)' = Keys(t)
        /\ at'[t] = at[t] + 1 /\ at[t] <= read[t] => Keys(t)' = Keys(t) \cup {Key(Current(t))}
        /\ at'[t] = 1 => Keys(t)' = {}
        /\ at'[t] = at[t] /\ at[t] <= read[t] => Current(t)' = Current(t)
    BY KeysStep
  <1>1. CASE UNCHANGED <<pc[t], runs[t], read[t], at[t], calls[t], count[t], seen[t], done[t], held[t]>>
    BY <1>0, <1>k, <1>1
  <1>2. CASE Start(t)
    <2>1. seen'[t] = {} /\ done'[t] = {} /\ pc'[t] \in {"idle", "recommend"}
      BY <1>2, Bounds DEF Start, Goto, TypeOK
    <2> QED BY <2>1
  <1>3. CASE Summarise(t) \/ DraftText(t)
    <2>1. /\ pc[t] \in {"recommend", "draft_text"} /\ pc'[t] \in {"recommend", "draft_text"}
          /\ seen' = seen /\ done' = done
      BY <1>3, Bounds DEF Summarise, DraftText, Goto, TypeOK
    <2> QED BY <1>0, <2>1
  <1>4. CASE BadConfig(t) \/ Finish(t) \/ Die(t)
    <2>1. pc'[t] = "idle"
      BY <1>4, Bounds DEF BadConfig, Finish, Die, Goto, TypeOK
    <2> QED BY <2>1
  <1>5. CASE Recommended(t)
    <2>1. /\ pc[t] = "recommend" /\ pc'[t] = "draft" /\ at'[t] = 1
          /\ seen' = seen /\ done' = done
      BY <1>5, Bounds DEF Recommended, Goto, TurnTo, TypeOK
    <2> QED BY <1>0, <1>k, <2>1
  <1>6. CASE Skip(t)
    <2>1. /\ pc[t] = "draft" /\ pc' = pc /\ at'[t] = at[t] + 1 /\ at[t] <= read[t]
          /\ seen' = seen /\ done' = done /\ Key(Current(t)) \in seen[t]
      BY <1>6, Bounds DEF Skip, More, TurnTo, TypeOK
    <2> QED BY <1>0, <1>k, <2>1
  <1>7. CASE Consider(t)
    <2> DEFINE k == Key(Current(t))
    <2>1. /\ pc[t] = "draft" /\ at[t] <= read[t] /\ seen'[t] = seen[t] \cup {k}
      BY <1>7 DEF Consider, More, TypeOK
    <2>2. \/ pc'[t] = "open_patch" /\ at' = at /\ done' = done
          \/ pc'[t] = "draft" /\ at'[t] = at[t] + 1 /\ done'[t] = done[t] \cup {k}
      BY <1>7, Bounds DEF Consider, Goto, TurnTo, TypeOK
    <2> HIDE DEF k
    <2>3. CASE pc'[t] = "open_patch" /\ at' = at /\ done' = done
      BY <1>0, <1>k, <2>1, <2>3 DEF k
    <2>4. CASE pc'[t] = "draft" /\ at'[t] = at[t] + 1 /\ done'[t] = done[t] \cup {k}
      BY <1>0, <1>k, <2>1, <2>4 DEF k
    <2> QED BY <2>2, <2>3, <2>4
  <1>8. CASE OpenPatch(t) \/ WritePatch(t) \/ OpenRollback(t) \/ WriteRollback(t)
    <2>1. /\ pc[t] \in Drafting /\ pc'[t] \in Drafting /\ at' = at
          /\ seen' = seen /\ done' = done
      BY <1>8, Bounds DEF OpenPatch, WritePatch, OpenRollback, WriteRollback, Goto, TypeOK
    <2> QED BY <1>0, <1>k, <2>1
  <1>9. CASE Drafted(t)
    <2>1. /\ pc[t] = "event" /\ pc'[t] = "draft" /\ at'[t] = at[t] + 1
          /\ seen' = seen /\ done'[t] = done[t] \cup {Key(Current(t))}
      BY <1>9, Bounds DEF Drafted, Goto, TurnTo, TypeOK
    <2> QED BY <1>0, <1>k, <2>1
  <1> QED BY <1>1, <1>2, <1>3, <1>4, <1>5, <1>6, <1>7, <1>8, <1>9, SessionStep DEF Step

\* The drafting steps write one artifact each, and no other step writes any.
LEMMA DiskStep ==
    ASSUME TypeOK, Bounded, [Next]_vars
    PROVE  /\ \A s \in Session : OpenPatch(s) \/ WritePatch(s) =>
                /\ rollbacks' = rollbacks
                /\ DOMAIN patches' = DOMAIN patches \cup {SlugOf[Current(s).target]}
                /\ patches'[SlugOf[Current(s).target]].target = Current(s).target
                /\ \A p \in DOMAIN patches : p # SlugOf[Current(s).target] => patches'[p] = patches[p]
           /\ \A s \in Session : OpenRollback(s) \/ WriteRollback(s) =>
                /\ patches' = patches
                /\ DOMAIN rollbacks' = DOMAIN rollbacks \cup {SlugOf[Current(s).target]}
                /\ rollbacks'[SlugOf[Current(s).target]].target = Current(s).target
                /\ \A p \in DOMAIN rollbacks : p # SlugOf[Current(s).target] => rollbacks'[p] = rollbacks[p]
           /\ (\A s \in Session : ~(OpenPatch(s) \/ WritePatch(s) \/ OpenRollback(s) \/ WriteRollback(s)))
                => UNCHANGED <<patches, rollbacks>>
  <1>1. ASSUME NEW s \in Session, OpenPatch(s) \/ WritePatch(s)
        PROVE  /\ rollbacks' = rollbacks
               /\ DOMAIN patches' = DOMAIN patches \cup {SlugOf[Current(s).target]}
               /\ patches'[SlugOf[Current(s).target]].target = Current(s).target
               /\ \A p \in DOMAIN patches : p # SlugOf[Current(s).target] => patches'[p] = patches[p]
    <2>1. Current(s) \in Failure /\ held[s] \in {"v1", "v2"}
      BY <1>1, CurrentType DEF OpenPatch, WritePatch, Bounded, Drafting
    <2>2. patches' = Emptied(patches, Current(s)) \/ patches' \in Filled(patches, Current(s), held[s])
      BY <1>1 DEF OpenPatch, WritePatch
    <2>3. rollbacks' = rollbacks
      BY <1>1 DEF OpenPatch, WritePatch
    <2> DEFINE f == Current(s)
    <2>5. f \in Failure /\ held[s] \in {"v1", "v2"}
      BY <2>1
    <2>6. patches' = Emptied(patches, f) \/ patches' \in Filled(patches, f, held[s])
      BY <2>2
    <2> HIDE DEF f
    <2>7. PICK x \in {"v1", "v2", "empty", "mixed"} : patches' = Put(patches, SlugOf[f.target], f.target, x)
      BY <2>5, <2>6 DEF Emptied, Filled
    <2>8. /\ DOMAIN patches' = DOMAIN patches \cup {SlugOf[f.target]}
          /\ patches'[SlugOf[f.target]].target = f.target
          /\ \A p \in DOMAIN patches : p # SlugOf[f.target] => patches'[p] = patches[p]
      BY <2>7 DEF Put
    <2> QED BY <2>3, <2>8 DEF f
  <1>2. ASSUME NEW s \in Session, OpenRollback(s) \/ WriteRollback(s)
        PROVE  /\ patches' = patches
               /\ DOMAIN rollbacks' = DOMAIN rollbacks \cup {SlugOf[Current(s).target]}
               /\ rollbacks'[SlugOf[Current(s).target]].target = Current(s).target
               /\ \A p \in DOMAIN rollbacks : p # SlugOf[Current(s).target] => rollbacks'[p] = rollbacks[p]
    <2>1. Current(s) \in Failure /\ held[s] \in {"v1", "v2"}
      BY <1>2, CurrentType DEF OpenRollback, WriteRollback, Bounded, Drafting
    <2>2. rollbacks' = Emptied(rollbacks, Current(s)) \/ rollbacks' \in Filled(rollbacks, Current(s), held[s])
      BY <1>2 DEF OpenRollback, WriteRollback
    <2>3. patches' = patches
      BY <1>2 DEF OpenRollback, WriteRollback
    <2> DEFINE f == Current(s)
    <2>5. f \in Failure /\ held[s] \in {"v1", "v2"}
      BY <2>1
    <2>6. rollbacks' = Emptied(rollbacks, f) \/ rollbacks' \in Filled(rollbacks, f, held[s])
      BY <2>2
    <2> HIDE DEF f
    <2>7. PICK x \in {"v1", "v2", "empty", "mixed"} : rollbacks' = Put(rollbacks, SlugOf[f.target], f.target, x)
      BY <2>5, <2>6 DEF Emptied, Filled
    <2>8. /\ DOMAIN rollbacks' = DOMAIN rollbacks \cup {SlugOf[f.target]}
          /\ rollbacks'[SlugOf[f.target]].target = f.target
          /\ \A p \in DOMAIN rollbacks : p # SlugOf[f.target] => rollbacks'[p] = rollbacks[p]
      BY <2>7 DEF Put
    <2> QED BY <2>3, <2>8 DEF f
  <1>3. (\A s \in Session : ~(OpenPatch(s) \/ WritePatch(s) \/ OpenRollback(s) \/ WriteRollback(s)))
            => UNCHANGED <<patches, rollbacks>>
    BY DEF Next, Step, Start, Die, Summarise, DraftText, BadConfig, Recommended, Skip, Consider,
           Drafted, Finish, HuntFails, Edit, vars, diskVars
  <1> QED BY <1>1, <1>2, <1>3

LEMMA ArtifactsStep ==
    ASSUME TypeOK, TypeOK', Bounded, ArtifactsNamed, [Next]_vars
    PROVE  ArtifactsNamed'
  <1> DEFINE slug(t) == SlugOf[Current(t).target]
  <1>d. /\ \A s \in Session : OpenPatch(s) \/ WritePatch(s) =>
              /\ rollbacks' = rollbacks
              /\ DOMAIN patches' = DOMAIN patches \cup {slug(s)}
              /\ SlugOf[patches'[slug(s)].target] = slug(s)
              /\ \A p \in DOMAIN patches : p # slug(s) => patches'[p] = patches[p]
        /\ \A s \in Session : OpenRollback(s) \/ WriteRollback(s) =>
              /\ patches' = patches
              /\ DOMAIN rollbacks' = DOMAIN rollbacks \cup {slug(s)}
              /\ SlugOf[rollbacks'[slug(s)].target] = slug(s)
              /\ \A p \in DOMAIN rollbacks : p # slug(s) => rollbacks'[p] = rollbacks[p]
        /\ (\A s \in Session : ~(OpenPatch(s) \/ WritePatch(s) \/ OpenRollback(s) \/ WriteRollback(s)))
              => UNCHANGED <<patches, rollbacks>>
    BY DiskStep
  <1>a. /\ \A p \in DOMAIN patches : SlugOf[patches[p].target] = p
        /\ \A p \in DOMAIN rollbacks : SlugOf[rollbacks[p].target] = p
        /\ \A t \in Session :
             /\ pc[t] \in Drafting \ {"open_patch"} => slug(t) \in DOMAIN patches
             /\ pc[t] \in {"rollback", "event"} => slug(t) \in DOMAIN rollbacks
        /\ \A d \in drafted : SlugOf[d.failure.target] \in DOMAIN patches \cap DOMAIN rollbacks
    BY DEF ArtifactsNamed
  <1> HIDE DEF slug
  <1>1. /\ \A p \in DOMAIN patches' : SlugOf[patches'[p].target] = p
        /\ \A p \in DOMAIN rollbacks' : SlugOf[rollbacks'[p].target] = p
        /\ DOMAIN patches \subseteq DOMAIN patches' /\ DOMAIN rollbacks \subseteq DOMAIN rollbacks'
    <2>1. CASE \E s \in Session : OpenPatch(s) \/ WritePatch(s)
      <3>1. PICK s \in Session : OpenPatch(s) \/ WritePatch(s)
        BY <2>1
      <3>2. /\ rollbacks' = rollbacks
            /\ DOMAIN patches' = DOMAIN patches \cup {slug(s)}
            /\ SlugOf[patches'[slug(s)].target] = slug(s)
            /\ \A p \in DOMAIN patches : p # slug(s) => patches'[p] = patches[p]
        BY <1>d, <3>1
      <3>3. \A p \in DOMAIN patches' : SlugOf[patches'[p].target] = p
        <4> SUFFICES ASSUME NEW p \in DOMAIN patches', p # slug(s) PROVE SlugOf[patches'[p].target] = p
          BY <3>2
        <4>1. p \in DOMAIN patches
          BY <3>2
        <4>2. patches'[p] = patches[p]
          BY <3>2, <4>1
        <4> QED BY <1>a, <4>1, <4>2
      <3>4. \A p \in DOMAIN rollbacks' : SlugOf[rollbacks'[p].target] = p
        BY <1>a, <3>2
      <3> QED BY <3>2, <3>3, <3>4
    <2>2. CASE \E s \in Session : OpenRollback(s) \/ WriteRollback(s)
      <3>1. PICK s \in Session : OpenRollback(s) \/ WriteRollback(s)
        BY <2>2
      <3>2. /\ patches' = patches
            /\ DOMAIN rollbacks' = DOMAIN rollbacks \cup {slug(s)}
            /\ SlugOf[rollbacks'[slug(s)].target] = slug(s)
            /\ \A p \in DOMAIN rollbacks : p # slug(s) => rollbacks'[p] = rollbacks[p]
        BY <1>d, <3>1
      <3>3. \A p \in DOMAIN rollbacks' : SlugOf[rollbacks'[p].target] = p
        <4> SUFFICES ASSUME NEW p \in DOMAIN rollbacks', p # slug(s) PROVE SlugOf[rollbacks'[p].target] = p
          BY <3>2
        <4>1. p \in DOMAIN rollbacks
          BY <3>2
        <4>2. rollbacks'[p] = rollbacks[p]
          BY <3>2, <4>1
        <4> QED BY <1>a, <4>1, <4>2
      <3>4. \A p \in DOMAIN patches' : SlugOf[patches'[p].target] = p
        BY <1>a, <3>2
      <3> QED BY <3>2, <3>3, <3>4
    <2>3. CASE \A s \in Session : ~(OpenPatch(s) \/ WritePatch(s) \/ OpenRollback(s) \/ WriteRollback(s))
      BY <1>a, <1>d, <2>3
    <2> QED BY <2>1, <2>2, <2>3
  <1>2. ASSUME NEW t \in Session
        PROVE  /\ pc'[t] \in Drafting \ {"open_patch"} => slug(t)' \in DOMAIN patches'
               /\ pc'[t] \in {"rollback", "event"} => slug(t)' \in DOMAIN rollbacks'
    <2> USE DEF Drafting
    <2>0. pc[t] \in Drafting /\ at'[t] = at[t] => slug(t)' = slug(t)
      BY KeysStep DEF Bounded, slug
    <2>1. CASE UNCHANGED <<pc[t], runs[t], read[t], at[t], calls[t], count[t], seen[t], done[t], held[t]>>
      BY <1>a, <1>1, <2>0, <2>1
    <2>2. CASE \/ Start(t) \/ Die(t) \/ Summarise(t) \/ DraftText(t) \/ BadConfig(t) \/ Recommended(t)
               \/ Skip(t) \/ Consider(t) \/ Drafted(t) \/ Finish(t)
      <3>1. pc'[t] \notin Drafting \ {"open_patch"}
        BY <2>2 DEF Start, Die, Summarise, DraftText, BadConfig, Recommended, Skip, Consider, Drafted,
                    Finish, Goto, TypeOK
      <3> QED BY <3>1
    <2>3. CASE OpenPatch(t)
      <3>1. pc[t] = "open_patch" /\ pc'[t] = "patch" /\ at' = at
        BY <2>3 DEF OpenPatch, Goto, TypeOK
      <3> QED BY <1>d, <2>0, <2>3, <3>1
    <2>4. CASE WritePatch(t)
      <3>1. pc[t] = "patch" /\ pc'[t] = "open_rollback" /\ at' = at
        BY <2>4 DEF WritePatch, Goto, TypeOK
      <3> QED BY <1>a, <1>1, <2>0, <3>1
    <2>5. CASE OpenRollback(t)
      <3>1. pc[t] = "open_rollback" /\ pc'[t] = "rollback" /\ at' = at
        BY <2>5 DEF OpenRollback, Goto, TypeOK
      <3>2. slug(t)' = slug(t)
        BY <2>0, <3>1
      <3>3. DOMAIN rollbacks' = DOMAIN rollbacks \cup {slug(t)}
        BY <1>d, <2>5
      <3>4. slug(t) \in DOMAIN patches
        BY <1>a, <3>1
      <3> QED BY <1>1, <3>1, <3>2, <3>3, <3>4
    <2>6. CASE WriteRollback(t)
      <3>1. pc[t] = "rollback" /\ pc'[t] = "event" /\ at' = at
        BY <2>6 DEF WriteRollback, Goto, TypeOK
      <3> QED BY <1>a, <1>1, <2>0, <3>1
    <2> QED BY <2>1, <2>2, <2>3, <2>4, <2>5, <2>6, SessionStep DEF Step
  <1>3. \A d \in drafted' : SlugOf[d.failure.target] \in DOMAIN patches' \cap DOMAIN rollbacks'
    <2>1. CASE \E s \in Session : Drafted(s)
      <3>1. PICK s \in Session : Drafted(s)
        BY <2>1
      <3>2. /\ drafted' = drafted \cup {[failure |-> Current(s), sha256 |-> held[s]]}
            /\ pc[s] = "event"
        BY <3>1 DEF Drafted
      <3>3. slug(s) \in DOMAIN patches /\ slug(s) \in DOMAIN rollbacks
        BY <1>a, <3>2 DEF Drafting
      <3>4. \A d \in drafted' : d \in drafted \/ d.failure = Current(s)
        BY <3>2
      <3> QED BY <1>a, <1>1, <3>3, <3>4 DEF slug
    <2>2. CASE ~ \E s \in Session : Drafted(s)
      <3>1. drafted' = drafted
        BY <2>2 DEF Next, Step, Start, Die, Summarise, DraftText, BadConfig, Recommended, Skip, Consider,
                    OpenPatch, WritePatch, OpenRollback, WriteRollback, Finish, HuntFails, Edit, vars, diskVars
      <3> QED BY <1>a, <1>1, <3>1
    <2> QED BY <2>1, <2>2
  <1> QED BY <1>1, <1>2, <1>3 DEF ArtifactsNamed, slug

LEMMA OpenedEmpty ==
    ASSUME NEW disk, NEW f
    PROVE  Emptied(disk, f)[SlugOf[f.target]] = [target |-> f.target, of |-> "empty"]
  BY DEF Emptied, Put

LEMMA AloneStep ==
    ASSUME TypeOK, TypeOK', Bounded, AloneUndisturbed, [Next]_vars
    PROVE  AloneUndisturbed'
  <1> SUFFICES ASSUME NEW t \in Session, pc'[t] # "idle", alone'[t]
               PROVE  Undisturbed(t)'
    BY DEF AloneUndisturbed
  <1>1. CASE Start(t)
    <2>1. /\ \A u \in Session \ {t} : pc[u] = "idle" /\ pc'[u] = pc[u]
          /\ pc'[t] = "recommend"
      BY <1>1 DEF Start, Goto, TypeOK
    <2> QED BY <2>1 DEF Undisturbed
  <1>2. ASSUME NEW u \in Session \ {t}, Start(u) PROVE FALSE
    <2>1. alone'[t] = (pc[t] = "idle") /\ pc'[t] = pc[t]
      BY <1>2 DEF Start, Goto, TypeOK
    <2> QED BY <2>1
  <1>s. ASSUME NEW u \in Session, Step(u) \/ Die(u) PROVE pc[u] # "idle" /\ alone' = alone
    BY <1>s DEF Step, Die, Summarise, DraftText, BadConfig, Recommended, Skip, Consider, OpenPatch,
                WritePatch, OpenRollback, WriteRollback, Drafted, Finish
  <1>3. ASSUME NEW u \in Session \ {t}, Step(u) \/ Die(u) PROVE FALSE
    <2>1. pc'[t] = pc[t]
      BY <1>3 DEF Step, Die, Summarise, DraftText, BadConfig, Recommended, Skip, Consider, OpenPatch,
                  WritePatch, OpenRollback, WriteRollback, Drafted, Finish, Goto, TypeOK
    <2>2. Undisturbed(t)
      BY <1>3, <1>s, <2>1 DEF AloneUndisturbed
    <2>3. pc[u] = "idle"
      BY <2>2 DEF Undisturbed
    <2> QED BY <1>3, <1>s, <2>3
  <1>4. CASE Die(t)
    <2>1. pc'[t] = "idle"
      BY <1>4 DEF Die, Goto, TypeOK
    <2> QED BY <2>1
  <1>5. CASE Step(t) \/ HuntFails \/ Edit \/ UNCHANGED vars
    <2>1. pc[t] # "idle" /\ alone[t] /\ \A u \in Session \ {t} : pc'[u] = pc[u]
      <3>1. CASE Step(t)
        BY <1>s, <3>1 DEF Step, Summarise, DraftText, BadConfig, Recommended, Skip, Consider, OpenPatch,
                      WritePatch, OpenRollback, WriteRollback, Drafted, Finish, Goto, TypeOK
      <3>2. CASE HuntFails \/ Edit \/ UNCHANGED vars
        BY <3>2 DEF HuntFails, Edit, vars, runVars
      <3> QED BY <1>5, <3>1, <3>2
    <2> DEFINE f == Current(t)
               p == SlugOf[Current(t).target]
               Is(text) == [target |-> Current(t).target, of |-> text]
    <2>2. /\ \A u \in Session \ {t} : pc[u] = "idle"
          /\ pc[t] = "patch" => patches[p] = Is("empty")
          /\ pc[t] \in {"open_rollback", "rollback", "event"} => patches[p] = Is(held[t])
          /\ pc[t] = "rollback" => rollbacks[p] = Is("empty")
          /\ pc[t] = "event" => rollbacks[p] = Is(held[t])
      BY <2>1 DEF AloneUndisturbed, Undisturbed
    <2>3. pc[t] \in Drafting /\ at'[t] = at[t] => Current(t)' = Current(t)
      BY KeysStep DEF Bounded
    <2>4. SUFFICES ASSUME pc'[t] \in Drafting \ {"open_patch"}, at'[t] = at[t], pc[t] \in Drafting
                   PROVE  /\ pc'[t] = "patch" => patches'[p] = Is("empty")
                          /\ pc'[t] \in {"open_rollback", "rollback", "event"} => patches'[p] = Is(held'[t])
                          /\ pc'[t] = "rollback" => rollbacks'[p] = Is("empty")
                          /\ pc'[t] = "event" => rollbacks'[p] = Is(held'[t])
      <3>1. pc'[t] \in Drafting \ {"open_patch"} => at'[t] = at[t] /\ pc[t] \in Drafting
        BY <1>5 DEF Drafting, Step, Summarise, DraftText, BadConfig, Recommended, Skip, Consider, OpenPatch,
               WritePatch, OpenRollback, WriteRollback, Drafted, Finish, HuntFails, Edit, vars, runVars,
               Goto, TypeOK
      <3>2. \A u \in Session \ {t} : pc'[u] = "idle"
        BY <2>1, <2>2
      <3> QED BY <2>3, <3>1, <3>2 DEF Undisturbed, Drafting
    <2>5. CASE OpenPatch(t)
      <3>1. patches' = Emptied(patches, f) /\ pc'[t] = "patch"
        BY <2>5 DEF OpenPatch, Goto, TypeOK
      <3> QED BY <3>1, OpenedEmpty
    <2>6. CASE WritePatch(t)
      <3>1. /\ patches' \in Filled(patches, f, held[t]) /\ held' = held
            /\ pc[t] = "patch" /\ pc'[t] = "open_rollback"
        BY <2>6 DEF WritePatch, Goto, TypeOK
      <3>2. patches[p].of = "empty"
        BY <2>2, <3>1
      <3>3. patches' \in Filled(patches, f, held[t]) /\ patches[SlugOf[f.target]].of = "empty"
        BY <3>1, <3>2
      <3>4. patches'[SlugOf[f.target]] = [target |-> f.target, of |-> held[t]]
        <4> HIDE DEF f
        <4> QED BY <3>3 DEF Filled, Put
      <3> QED BY <3>1, <3>4
    <2>7. CASE OpenRollback(t)
      <3>1. /\ rollbacks' = Emptied(rollbacks, f) /\ patches' = patches /\ held' = held
            /\ pc[t] = "open_rollback" /\ pc'[t] = "rollback"
        BY <2>7 DEF OpenRollback, Goto, TypeOK
      <3> QED BY <2>2, <3>1, OpenedEmpty
    <2>8. CASE WriteRollback(t)
      <3>1. /\ rollbacks' \in Filled(rollbacks, f, held[t]) /\ patches' = patches /\ held' = held
            /\ pc[t] = "rollback" /\ pc'[t] = "event"
        BY <2>8 DEF WriteRollback, Goto, TypeOK
      <3>2. rollbacks[p].of = "empty"
        BY <2>2, <3>1
      <3>3. rollbacks' \in Filled(rollbacks, f, held[t]) /\ rollbacks[SlugOf[f.target]].of = "empty"
        BY <3>1, <3>2
      <3>4. rollbacks'[SlugOf[f.target]] = [target |-> f.target, of |-> held[t]]
        <4> HIDE DEF f
        <4> QED BY <3>3 DEF Filled, Put
      <3> QED BY <2>2, <3>1, <3>4
    <2>9. CASE \/ Summarise(t) \/ DraftText(t) \/ BadConfig(t) \/ Recommended(t) \/ Skip(t)
               \/ Consider(t) \/ Drafted(t) \/ Finish(t)
      BY <2>4, <2>9 DEF Drafting, Summarise, DraftText, BadConfig, Recommended, Skip, Consider, Drafted,
                        Finish, Goto, TypeOK
    <2>10. CASE HuntFails \/ Edit \/ UNCHANGED vars
      BY <2>2, <2>10 DEF HuntFails, Edit, vars, runVars, diskVars
    <2> QED BY <1>5, <2>5, <2>6, <2>7, <2>8, <2>9, <2>10 DEF Step
  <1> QED BY <1>1, <1>2, <1>3, <1>4, <1>5 DEF Next

LEMMA PatchStep == PatchInv /\ [Next]_vars => PatchInv'
  BY TypeStep, BoundedStep, CallsStep, DecidedStep, ArtifactsStep, AloneStep DEF PatchInv

LEMMA PatchInvariant == Spec => []PatchInv
  BY InitHolds, PatchStep, PTL DEF Spec

(***************************************************************************)
(* The theorems.                                                           *)
(***************************************************************************)
\* The variables keep their types: what is on disk under a slug is an artifact,
\* what a session has decided it has met (patch_drafter.py:21-51).
THEOREM TypeCorrect == Spec => []TypeOK
  <1>1. PatchInv => TypeOK
    BY DEF PatchInv
  <1> QED BY <1>1, PatchInvariant, PTL

\* Every recorded draft has both its artifacts on disk, and under a slug of its
\* own they are its own, whichever session wrote last and whichever died
\* (patch_drafter.py:97-101, 49).
THEOREM DraftsBacked == Spec => []DraftsAreBacked
  <1>1. PatchInv => DraftsAreBacked
    <2> SUFFICES ASSUME PatchInv, NEW d \in drafted
                 PROVE  LET t == d.failure.target IN
                        /\ SlugOf[t] \in DOMAIN patches \cap DOMAIN rollbacks
                        /\ DistinctSlugs => /\ patches[SlugOf[t]].target = t
                                            /\ rollbacks[SlugOf[t]].target = t
      BY DEF DraftsAreBacked
    <2> DEFINE t == d.failure.target
    <2>1. t \in Target
      BY DEF PatchInv, TypeOK, Failure
    <2>2. SlugOf[t] \in DOMAIN patches /\ SlugOf[t] \in DOMAIN rollbacks
      BY DEF PatchInv, ArtifactsNamed
    <2>3. /\ SlugOf[patches[SlugOf[t]].target] = SlugOf[t] /\ patches[SlugOf[t]].target \in Target
          /\ SlugOf[rollbacks[SlugOf[t]].target] = SlugOf[t] /\ rollbacks[SlugOf[t]].target \in Target
      BY <2>2 DEF PatchInv, ArtifactsNamed, TypeOK, Artifact
    <2> QED BY <2>1, <2>2, <2>3 DEF DistinctSlugs
  <1> QED BY <1>1, PatchInvariant, PTL

\* No failure is dropped: what a drafting session has come past it has drafted
\* or rejected with a reason (patch_drafter.py:29-48).
THEOREM NoFailureDropped == Spec => []EveryKeyDecided
  <1>1. PatchInv => EveryKeyDecided
    BY DEF PatchInv, DecidedSoFar, EveryKeyDecided, Keys
  <1> QED BY <1>1, PatchInvariant, PTL

\* Each recommendation has its two records in the ledger, between any two
\* recommendations of any session (patch_recommender.py:30-55).
THEOREM LedgerCovers == Spec => []LedgerCoversRecommendations
  <1>1. PatchInv => LedgerCoversRecommendations
    BY DEF PatchInv, CallsPaired, LedgerCoversRecommendations
  <1> QED BY <1>1, PatchInvariant, PTL

\* A draft recorded by a session that was alone at work is the text it read, in
\* the diff and in the rollback, whatever dead sessions left and the owner edits
\* (patch_drafter.py:83-101).
THEOREM Sealed == Spec => []SealedTogether
  <1>1. PatchInv => SealedTogether
    <2> SUFFICES ASSUME PatchInv, NEW s \in Session, pc[s] = "event", alone[s]
                 PROVE  LET p == SlugOf[Current(s).target] IN
                        /\ patches[p] = [target |-> Current(s).target, of |-> held[s]]
                        /\ rollbacks[p] = patches[p]
      BY DEF SealedTogether
    <2>1. Undisturbed(s)
      BY DEF PatchInv, AloneUndisturbed
    <2> QED BY <2>1 DEF Undisturbed
  <1> QED BY <1>1, PatchInvariant, PTL
=============================================================================
