------------------------ MODULE BuildingLabelProofs ------------------------
(***************************************************************************)
(* For every set of runs, issues and pull requests, and every age bound:   *)
(* BuildingLabel's type invariant always holds, and when round trips do    *)
(* not overlap and failed calls are Benign a build always holds the label  *)
(* and no target is ever built by two runs.                                *)
(***************************************************************************)
EXTENDS BuildingLabel, TLAPS

USE TargetAssumption, AgeAssumption, ErrorAssumption

LEMMA InitInv == Init => IInv
<1> SUFFICES ASSUME Init PROVE IInv
    OBVIOUS
<1>1. TypeOK
    BY DEF Init, TypeOK, Ages, Old, Steps
<1>2. StepsMatch /\ OneInWindow
    BY DEF Init, StepsMatch, OneInWindow, Releasing, Clearing
<1>3. BuildsHoldLabel /\ Exclusive /\ BuildsAreYoung /\ StaleStaysOld
    BY DEF Init, BuildsHoldLabel, Exclusive, BuildsAreYoung, StaleStaysOld
<1>4. OneYoungHolder /\ HeldIsBacked
    BY DEF Init, OneYoungHolder, HeldIsBacked, Young
<1> QED
    BY <1>1, <1>2, <1>3, <1>4 DEF IInv

\* What Remember leaves in a run's memory.
LEMMA RememberType ==
    ASSUME TypeOK, NEW r \in Runs, NEW kept \in SUBSET Targets, Remember(r, kept)
    PROVE  /\ marked' \in [Runs -> SUBSET Targets]
           /\ heldAge' \in [Runs -> [Targets -> Ages]]
           /\ marked'[r] = kept
           /\ \A t \in kept : heldAge'[r][t] = heldAge[r][t]
           /\ \A q \in Runs \ {r} : marked'[q] = marked[q] /\ heldAge'[q] = heldAge[q]
    BY DEF TypeOK, Remember, Ages, Old

\* What the two gh edits do to the labels.
LEMMA EditTypes ==
    ASSUME TypeOK, NEW t \in Targets, PutLabel(t) \/ DropLabel(t) \/ KeepLabels
    PROVE  labelled' \subseteq Targets /\ labelAge' \in [Targets -> Ages]
    BY DEF TypeOK, PutLabel, DropLabel, KeepLabels, Ages, Old

LEMMA PutTypes ==
    ASSUME TypeOK, NEW t \in Targets, PutLabel(t)
    PROVE  stale' \in [Runs -> SUBSET Targets]
    BY DEF TypeOK, PutLabel

\* Release edits t's label and r's memory, and nothing else.
LEMMA ReleaseType ==
    ASSUME TypeOK, NEW r \in Runs, NEW t \in Targets, Release(r, t)
    PROVE  /\ labelled' \subseteq Targets /\ labelAge' \in [Targets -> Ages]
           /\ marked' \in [Runs -> SUBSET Targets]
           /\ heldAge' \in [Runs -> [Targets -> Ages]]
<1>1. DropLabel(t) \/ KeepLabels
    BY DEF Release
<1>2. marked[r] \ {t} \in SUBSET Targets
    BY DEF TypeOK
<1>3. Remember(r, marked[r] \ {t}) \/ UNCHANGED <<marked, heldAge>>
    BY DEF Release
<1>4. CASE Remember(r, marked[r] \ {t})
    BY <1>1, <1>2, <1>4, EditTypes, RememberType
<1>5. CASE UNCHANGED <<marked, heldAge>>
    BY <1>1, <1>5, EditTypes DEF TypeOK
<1> QED
    BY <1>3, <1>4, <1>5

LEMMA TypeStep == TypeOK /\ [Next]_vars => TypeOK'
<1> SUFFICES ASSUME TypeOK, [Next]_vars PROVE TypeOK'
    OBVIOUS
<1> DEFINE AtSet == \A q \in Runs : step[q] \in {"add", "undo"} => at[q] \in Targets
<1>0. AtSet
    BY DEF TypeOK
<1>1. ASSUME NEW r \in Runs, Start(r) PROVE TypeOK'
  <2>1. step' \in [Runs -> Steps]
    BY <1>1 DEF TypeOK, Start, Steps, Clearing
  <2>2. todo' \in [Runs -> SUBSET Targets] /\ stale' \in [Runs -> SUBSET Targets]
    BY <1>1 DEF TypeOK, Start
  <2>3. UNCHANGED <<labelled, labelAge, at, marked, heldAge, building>>
    BY <1>1 DEF Start
  <2>10. AtSet'
    BY <1>0, <1>1 DEF TypeOK, Start, Clearing
  <2> QED
    BY <2>1, <2>2, <2>3, <2>10 DEF TypeOK
<1>2. ASSUME NEW r \in Runs, NEW t \in Targets, CheckStale(r, t) PROVE TypeOK'
  <2>1. at' \in [Runs -> Targets \cup {None}]
    BY <1>2 DEF TypeOK, CheckStale
  <2>3. todo' \in [Runs -> SUBSET Targets]
    BY <1>2 DEF TypeOK, CheckStale
  <2>2. UNCHANGED <<labelled, labelAge, step, stale, marked, heldAge, building>>
    BY <1>2 DEF CheckStale
  <2>10. AtSet'
    BY <1>0, <1>2 DEF TypeOK, CheckStale, Clearing
  <2> QED
    BY <2>1, <2>2, <2>3, <2>10 DEF TypeOK
<1>3. ASSUME NEW r \in Runs, ClearStale(r) PROVE TypeOK'
  <2>1. at[r] \in Targets
    BY <1>3 DEF TypeOK, ClearStale
  <2>2. DropLabel(at[r]) \/ KeepLabels
    BY <1>3 DEF ClearStale
  <2>3. labelled' \subseteq Targets /\ labelAge' \in [Targets -> Ages]
    BY <2>1, <2>2, EditTypes
  <2>4. at' \in [Runs -> Targets \cup {None}] /\ todo' \in [Runs -> SUBSET Targets]
    BY <1>3 DEF TypeOK, ClearStale
  <2>5. step' \in [Runs -> Steps] /\ stale' \in [Runs -> SUBSET Targets]
    BY <1>3 DEF TypeOK, ClearStale, Steps
  <2>6. UNCHANGED <<marked, heldAge, building>>
    BY <1>3 DEF ClearStale
  <2>10. AtSet'
    BY <1>0, <1>3 DEF TypeOK, ClearStale, Clearing
  <2> QED
    BY <2>3, <2>4, <2>5, <2>6, <2>10 DEF TypeOK
<1>4. ASSUME NEW r \in Runs, EndClearing(r) PROVE TypeOK'
  <2>1. step' \in [Runs -> Steps]
    BY <1>4 DEF TypeOK, EndClearing, Steps, Clearing
  <2>0. labelled \cap PullRequests \in SUBSET Targets
    BY DEF TypeOK
  <2>2. todo' \in [Runs -> SUBSET Targets]
    <3>1. CASE todo' = [todo EXCEPT ![r] = labelled \cap PullRequests]
      BY <2>0, <3>1 DEF TypeOK
    <3> QED
      BY <1>4, <3>1 DEF TypeOK, EndClearing
  <2>12. stale' \in [Runs -> SUBSET Targets]
    BY <1>4 DEF TypeOK, EndClearing
  <2>3. UNCHANGED <<labelled, labelAge, at, marked, heldAge, building>>
    BY <1>4 DEF EndClearing
  <2>10. AtSet'
    BY <1>0, <1>4 DEF TypeOK, EndClearing, Clearing
  <2> QED
    BY <2>1, <2>2, <2>3, <2>12, <2>10 DEF TypeOK
<1>5. ASSUME NEW r \in Runs, NEW t \in Targets, ReadLabels(r, t) PROVE TypeOK'
  <2>1. step' \in [Runs -> Steps] /\ at' \in [Runs -> Targets \cup {None}]
    BY <1>5 DEF TypeOK, ReadLabels, Steps
  <2>2. marked' \in [Runs -> SUBSET Targets] /\ heldAge' \in [Runs -> [Targets -> Ages]]
    BY <1>5 DEF TypeOK, ReadLabels, Ages, Old
  <2>3. UNCHANGED <<labelled, labelAge, todo, stale, building>>
    BY <1>5 DEF ReadLabels
  <2>10. AtSet'
    BY <1>0, <1>5 DEF TypeOK, ReadLabels
  <2> QED
    BY <2>1, <2>2, <2>3, <2>10 DEF TypeOK
<1>6. ASSUME NEW r \in Runs, AddLabel(r) PROVE TypeOK'
  <2>0. at[r] \in Targets
    BY <1>6 DEF TypeOK, AddLabel
  <2>1. labelled' \subseteq Targets /\ labelAge' \in [Targets -> Ages]
    BY <1>6, <2>0, EditTypes DEF AddLabel
  <2>2. stale' \in [Runs -> SUBSET Targets]
    BY <1>6, <2>0, PutTypes DEF AddLabel, TypeOK
  <2>3. step' \in [Runs -> Steps]
    BY <1>6 DEF TypeOK, AddLabel, Steps
  <2>4. at' \in [Runs -> Targets \cup {None}]
    BY <1>6, <2>0 DEF TypeOK, AddLabel
  <2>14. building' \in [Runs -> SUBSET Targets]
    BY <1>6, <2>0 DEF TypeOK, AddLabel
  <2>5. UNCHANGED <<todo, marked, heldAge>>
    BY <1>6 DEF AddLabel
  <2>10. AtSet'
    BY <1>0, <1>6 DEF TypeOK, AddLabel
  <2> QED
    BY <2>1, <2>2, <2>3, <2>4, <2>5, <2>14, <2>10 DEF TypeOK
<1>7. ASSUME NEW r \in Runs, UndoClaim(r) PROVE TypeOK'
  <2>0. at[r] \in Targets
    BY <1>7 DEF TypeOK, UndoClaim
  <2>1. Release(r, at[r])
    BY <1>7 DEF UndoClaim
  <2>2. step' \in [Runs -> Steps] /\ at' \in [Runs -> Targets \cup {None}]
    BY <1>7 DEF TypeOK, UndoClaim, Steps
  <2>3. UNCHANGED <<todo, stale, building>>
    BY <1>7 DEF UndoClaim
  <2>10. AtSet'
    BY <1>0, <1>7 DEF TypeOK, UndoClaim
  <2> QED
    BY <2>0, <2>1, <2>2, <2>3, ReleaseType, <2>10 DEF TypeOK
<1>8. ASSUME NEW r \in Runs, NEW t \in Targets, EndBuild(r, t) PROVE TypeOK'
  <2>1. building' \in [Runs -> SUBSET Targets]
    BY <1>8 DEF TypeOK, EndBuild
  <2>2. Release(r, t) /\ UNCHANGED <<step, at, todo, stale>>
    BY <1>8 DEF EndBuild
  <2>10. AtSet'
    BY <1>0, <1>8 DEF TypeOK, EndBuild
  <2> QED
    BY <2>1, <2>2, ReleaseType, <2>10 DEF TypeOK
<1>9. ASSUME NEW r \in Runs, StartRound(r) \/ Exit(r) PROVE TypeOK'
  <2>1. Young(r) \in SUBSET Targets /\ Remember(r, Young(r))
    BY <1>9 DEF TypeOK, StartRound, Exit, Young
  <2>2. step' \in [Runs -> Steps]
    BY <1>9 DEF TypeOK, StartRound, Exit, Steps, Releasing
  <2>3. todo' \in [Runs -> SUBSET Targets]
    BY <1>9, <2>1 DEF TypeOK, StartRound, Exit
  <2>13. building' \in [Runs -> SUBSET Targets]
    BY <1>9, <2>1 DEF TypeOK, StartRound, Exit
  <2>4. UNCHANGED <<labelled, labelAge, at, stale>>
    BY <1>9 DEF StartRound, Exit
  <2>10. AtSet'
    BY <1>0, <1>9 DEF TypeOK, StartRound, Exit, Releasing
  <2> QED
    BY <2>1, <2>2, <2>3, <2>4, RememberType, <2>13, <2>10 DEF TypeOK
<1>10. ASSUME NEW r \in Runs, NEW t \in Targets, ReleaseHeld(r, t) PROVE TypeOK'
  <2>1. todo' \in [Runs -> SUBSET Targets]
    BY <1>10 DEF TypeOK, ReleaseHeld
  <2>2. Release(r, t) /\ UNCHANGED <<step, at, stale, building>>
    BY <1>10 DEF ReleaseHeld
  <2>10. AtSet'
    BY <1>0, <1>10 DEF TypeOK, ReleaseHeld, Releasing
  <2> QED
    BY <2>1, <2>2, ReleaseType, <2>10 DEF TypeOK
<1>11. ASSUME NEW r \in Runs, EndRelease(r) PROVE TypeOK'
  <2>1. step' \in [Runs -> Steps]
    BY <1>11 DEF TypeOK, EndRelease, Steps
  <2>2. Remember(r, {}) \/ UNCHANGED <<marked, heldAge>>
    BY <1>11 DEF EndRelease
  <2>3. marked' \in [Runs -> SUBSET Targets] /\ heldAge' \in [Runs -> [Targets -> Ages]]
    BY <2>2, RememberType DEF TypeOK
  <2>4. UNCHANGED <<labelled, labelAge, at, todo, stale, building>>
    BY <1>11 DEF EndRelease
  <2>10. AtSet'
    BY <1>0, <1>11 DEF TypeOK, EndRelease, Releasing
  <2> QED
    BY <2>1, <2>3, <2>4, <2>10 DEF TypeOK
<1>12. ASSUME NEW r \in Runs, Kill(r) PROVE TypeOK'
  <2>1. Remember(r, {}) /\ UNCHANGED <<labelled, labelAge>>
    BY <1>12 DEF Kill
  <2>2. step' \in [Runs -> Steps] /\ at' \in [Runs -> Targets \cup {None}]
    BY <1>12 DEF TypeOK, Kill, Steps
  <2>3. /\ todo' \in [Runs -> SUBSET Targets]
        /\ stale' \in [Runs -> SUBSET Targets]
        /\ building' \in [Runs -> SUBSET Targets]
    BY <1>12 DEF TypeOK, Kill
  <2>10. AtSet'
    BY <1>0, <1>12 DEF TypeOK, Kill
  <2> QED
    BY <2>1, <2>2, <2>3, RememberType, <2>10 DEF TypeOK
<1>13. ASSUME Tick PROVE TypeOK'
  <2>1. labelAge' \in [Targets -> Ages] /\ heldAge' \in [Runs -> [Targets -> Ages]]
    BY <1>13 DEF TypeOK, Tick, Inc, Ages, Old
  <2>2. UNCHANGED <<labelled, step, at, todo, stale, marked, building>>
    BY <1>13 DEF Tick
  <2>10. AtSet'
    BY <1>0, <1>13 DEF TypeOK, Tick
  <2> QED
    BY <2>1, <2>2, <2>10 DEF TypeOK
<1>14. CASE UNCHANGED vars
    BY <1>14 DEF TypeOK, vars
<1> QED
    BY <1>1, <1>2, <1>3, <1>4, <1>5, <1>6, <1>7, <1>8, <1>9, <1>10, <1>11, <1>12,
       <1>13, <1>14 DEF Next, RunStep

-----------------------------------------------------------------------------
(* What the invariant says of the labels a step takes off.                   *)

\* A benign release takes t's label off and forgets it, or changes nothing.
LEMMA ReleaseEffect ==
    ASSUME TypeOK, Benign, NEW r \in Runs, NEW t \in Targets, Release(r, t)
    PROVE  /\ \A q \in Runs \ {r} : marked'[q] = marked[q] /\ heldAge'[q] = heldAge[q]
           /\ \/ /\ labelled' = labelled \ {t}
                 /\ \A u \in Targets \ {t} : labelAge'[u] = labelAge[u]
                 /\ marked'[r] = marked[r] \ {t}
                 /\ \A u \in marked[r] \ {t} : heldAge'[r][u] = heldAge[r][u]
              \/ /\ "lost" \in RemoveErrors
                 /\ UNCHANGED <<labelled, labelAge, marked, heldAge>>
<1>1. marked[r] \ {t} \in SUBSET Targets
    BY DEF TypeOK
<1>2. CASE DropLabel(t) /\ Remember(r, marked[r] \ {t})
  <2>1. labelled' = labelled \ {t} /\ \A u \in Targets \ {t} : labelAge'[u] = labelAge[u]
    BY <1>2 DEF DropLabel, TypeOK
  <2> QED
    BY <1>1, <1>2, <2>1, RememberType
<1>3. CASE /\ "lost" \in RemoveErrors
           /\ UNCHANGED <<labelled, labelAge, marked, heldAge>>
    BY <1>3
<1> QED
    BY <1>2, <1>3 DEF Release, Benign, KeepLabels

\* A label found stale is no longer backed by anybody's young claim.
LEMMA StaleHasNoHolder ==
    ASSUME IInv, NEW r \in Runs, step[r] \in Clearing, at[r] # None, NEW q \in Runs, at[r] \in labelled
    PROVE  at[r] \notin Young(q)
<1>1. at[r] \in stale[r] /\ labelAge[at[r]] > MaxAge /\ at[r] \in Targets
    BY DEF IInv, TypeOK, StepsMatch, StaleStaysOld
<1>2. marked[r] = {} /\ (q # r => at[q] # at[r])
    BY DEF IInv, StepsMatch, OneInWindow
<1>3. SUFFICES ASSUME at[r] \in Young(q) PROVE FALSE
    OBVIOUS
<1>4. q # r /\ Backed(q, at[r]) /\ heldAge[q][at[r]] <= MaxAge
    BY <1>1, <1>2, <1>3 DEF IInv, HeldIsBacked, Young
<1> QED
    BY <1>1, <1>4 DEF Backed, IInv, TypeOK, Ages, Old

\* A build never outlasts its claim's right to release the label.
LEMMA BuildsSubsetYoung ==
    ASSUME IInv, NEW r \in Runs PROVE building[r] \subseteq Young(r)
    BY DEF IInv, BuildsAreYoung, BuildsHoldLabel, Young, TypeOK, Ages, Old

\* A target one run holds young is neither held young nor built by another.
LEMMA NotHeldByAnother ==
    ASSUME Benign, IInv, NEW r \in Runs, NEW q \in Runs \ {r}, NEW t \in Targets, t \in Young(r)
    PROVE  t \notin Young(q) /\ t \notin building[q]
<1>1. t \notin Young(q)
    BY DEF IInv, OneYoungHolder
<1>2. building[q] \subseteq Young(q)
    BY DEF IInv, BuildsAreYoung, BuildsHoldLabel, Young, TypeOK, Ages, Old
<1> QED
    BY <1>1, <1>2

\* A claim being made is young.
LEMMA YoungAtClaim ==
    ASSUME IInv, NEW r \in Runs, step[r] \in {"add", "undo"}
    PROVE  at[r] \in Young(r)
    BY DEF IInv, StepsMatch, Young, TypeOK, Ages, Old

\* Releasing a young claim disturbs no other run's build and nobody's claim.
LEMMA ReleaseKeepsRest ==
    ASSUME Benign, IInv, NEW r \in Runs, NEW t \in Young(r), Release(r, t)
    PROVE  /\ \A q \in Runs : \A u \in building[q] :
                 (q = r => u # t) => u \in labelled' \cap marked'[q] /\ heldAge'[q][u] = heldAge[q][u]
           /\ \A q \in Runs : Young(q)' \subseteq Young(q)
           /\ \A q \in Runs : \A u \in Young(q)' : Backed(q, u) => Backed(q, u)'
<1>1. t \in Targets /\ t \in marked[r]
    BY DEF Young, IInv, TypeOK
<1>2. \A q \in Runs \ {r} : marked'[q] = marked[q] /\ heldAge'[q] = heldAge[q]
    BY <1>1, ReleaseEffect DEF IInv
<1>3. \A q \in Runs \ {r} : t \notin Young(q) /\ t \notin building[q]
    BY <1>1, NotHeldByAnother
<1>4. \A q \in Runs : building[q] \subseteq labelled \cap marked[q]
    BY DEF IInv, BuildsHoldLabel
<1>5. \A q \in Runs : marked[q] \subseteq Targets
    BY DEF IInv, TypeOK
<1>6. CASE /\ labelled' = labelled \ {t}
           /\ \A u \in Targets \ {t} : labelAge'[u] = labelAge[u]
           /\ marked'[r] = marked[r] \ {t}
           /\ \A u \in marked[r] \ {t} : heldAge'[r][u] = heldAge[r][u]
  <2>1. \A q \in Runs : \A u \in building[q] : (q = r => u # t) =>
            u \in labelled' \cap marked'[q] /\ heldAge'[q][u] = heldAge[q][u]
    BY <1>2, <1>3, <1>4, <1>6
  <2>2. \A q \in Runs : Young(q)' \subseteq Young(q) \ {t}
    BY <1>2, <1>3, <1>6 DEF Young
  <2>3. \A q \in Runs : \A u \in Young(q)' :
            u \in Targets \ {t} /\ heldAge'[q][u] = heldAge[q][u]
    BY <1>2, <1>5, <1>6, <2>2 DEF Young
  <2>4. \A q \in Runs : \A u \in Young(q)' : Backed(q, u) => Backed(q, u)'
    BY <1>6, <2>3 DEF Backed
  <2> QED
    BY <2>1, <2>2, <2>4
<1>7. CASE UNCHANGED <<labelled, labelAge, marked, heldAge>>
    BY <1>4, <1>7 DEF Young, Backed
<1> QED
    BY <1>1, <1>6, <1>7, ReleaseEffect DEF IInv

-----------------------------------------------------------------------------
(* Every step preserves the invariant, one lemma per action: first the parts *)
(* that need an argument, then those that follow from the action alone.      *)

LEMMA StartStep ==
    ASSUME Benign, IInv, NEW r \in Runs, Start(r)
    PROVE  IInv'
<1>0. TypeOK'
    BY TypeStep DEF IInv, Next, RunStep
<1>1. BuildsHoldLabel'
    BY <1>0 DEF IInv, Benign, TypeOK, Start, Clearing, Releasing, BuildsHoldLabel,
       StepsMatch
<1>2. Exclusive'
    BY <1>0 DEF IInv, Benign, TypeOK, Start, Clearing, Releasing, Exclusive,
       BuildsHoldLabel, StepsMatch
<1>3. StepsMatch'
    BY <1>0 DEF IInv, Benign, TypeOK, Start, Clearing, Releasing, StepsMatch,
       OneInWindow, Young, StaleStaysOld, BuildsHoldLabel
<1>4. OneInWindow'
    BY <1>0 DEF IInv, Benign, TypeOK, Start, Clearing, Releasing, OneInWindow,
       StepsMatch
<1>5. StaleStaysOld'
    BY <1>0 DEF IInv, Benign, TypeOK, Start, Clearing, Releasing, StaleStaysOld,
       StepsMatch
<1>6. BuildsAreYoung'
    BY <1>0 DEF IInv, Benign, TypeOK, Start, Clearing, Releasing, BuildsAreYoung,
       StepsMatch, BuildsHoldLabel
<1>7. OneYoungHolder'
    BY <1>0 DEF IInv, Benign, TypeOK, Start, Clearing, Releasing, OneYoungHolder, Young,
       HeldIsBacked, Backed, StepsMatch
<1>8. HeldIsBacked'
    BY <1>0 DEF IInv, Benign, TypeOK, Start, Clearing, Releasing, HeldIsBacked, Backed,
       Young, OneYoungHolder, StepsMatch
<1> QED
    BY <1>0, <1>1, <1>2, <1>3, <1>4, <1>5, <1>6, <1>7, <1>8 DEF IInv

LEMMA CheckStaleStep ==
    ASSUME Benign, IInv, NEW r \in Runs, NEW t \in Targets, CheckStale(r, t)
    PROVE  IInv'
<1>0. TypeOK'
    BY TypeStep DEF IInv, Next, RunStep
<1>1. BuildsHoldLabel'
    BY <1>0 DEF IInv, Benign, TypeOK, CheckStale, MayEnter, InWindow, Clearing,
       Releasing, BuildsHoldLabel, StepsMatch
<1>2. Exclusive'
    BY <1>0 DEF IInv, Benign, TypeOK, CheckStale, MayEnter, InWindow, Clearing,
       Releasing, Exclusive, BuildsHoldLabel, StepsMatch
<1>3. StepsMatch'
    BY <1>0 DEF IInv, Benign, TypeOK, CheckStale, MayEnter, InWindow, Clearing,
       Releasing, StepsMatch, OneInWindow, Young, StaleStaysOld, BuildsHoldLabel
<1>4. OneInWindow'
    BY <1>0 DEF IInv, Benign, TypeOK, CheckStale, MayEnter, InWindow, Clearing,
       Releasing, OneInWindow, StepsMatch
<1>5. StaleStaysOld'
    BY <1>0 DEF IInv, Benign, TypeOK, CheckStale, MayEnter, InWindow, Clearing,
       Releasing, StaleStaysOld, StepsMatch
<1>6. BuildsAreYoung'
    BY <1>0 DEF IInv, Benign, TypeOK, CheckStale, MayEnter, InWindow, Clearing,
       Releasing, BuildsAreYoung, StepsMatch, BuildsHoldLabel
<1>7. OneYoungHolder'
    BY <1>0 DEF IInv, Benign, TypeOK, CheckStale, MayEnter, InWindow, Clearing,
       Releasing, OneYoungHolder, Young, HeldIsBacked, Backed, StepsMatch
<1>8. HeldIsBacked'
    BY <1>0 DEF IInv, Benign, TypeOK, CheckStale, MayEnter, InWindow, Clearing,
       Releasing, HeldIsBacked, Backed, Young, OneYoungHolder, StepsMatch
<1> QED
    BY <1>0, <1>1, <1>2, <1>3, <1>4, <1>5, <1>6, <1>7, <1>8 DEF IInv

LEMMA ClearStaleStep ==
    ASSUME Benign, IInv, NEW r \in Runs, ClearStale(r)
    PROVE  IInv'
<1>0. TypeOK'
    BY TypeStep DEF IInv, Next, RunStep
<1>1. BuildsHoldLabel'
  <2>1. at[r] # None /\ step[r] \in Clearing
    BY DEF ClearStale
  <2>2. UNCHANGED <<marked, building>> /\ labelled \ {at[r]} \subseteq labelled'
    BY DEF ClearStale, DropLabel, KeepLabels
  <2>3. \A q \in Runs : at[r] \notin building[q]
    BY <2>1, StaleHasNoHolder, BuildsSubsetYoung DEF IInv, BuildsHoldLabel
  <2> QED
    BY <2>2, <2>3 DEF BuildsHoldLabel, IInv
<1>2. HeldIsBacked'
  <2>1. at[r] # None /\ step[r] \in Clearing /\ at[r] \in Targets /\ marked[r] = {}
    BY DEF ClearStale, IInv, TypeOK, StepsMatch
  <2>2. UNCHANGED <<marked, heldAge>> /\ labelled \ {at[r]} \subseteq labelled' /\ \A u \in Targets \ {at[r]} : labelAge'[u] = labelAge[u]
    BY <2>1 DEF ClearStale, DropLabel, KeepLabels, IInv, TypeOK
  <2>3. \A q \in Runs \ {r} : at'[q] = at[q] /\ step'[q] = step[q]
    BY DEF ClearStale, IInv, TypeOK
  <2>4. SUFFICES ASSUME NEW q \in Runs, NEW t \in Young(q),
            (t # at[q] \/ (step[q] = "undo" /\ "lost" \in RemoveErrors)), q # r
        PROVE Backed(q, t)'
    BY <2>1, <2>2, <2>3 DEF HeldIsBacked, Young
  <2>5. Backed(q, t)
    BY <2>4 DEF HeldIsBacked, IInv
  <2>6. t # at[r]
    BY <2>1, <2>4, <2>5, StaleHasNoHolder DEF Backed
  <2> QED
    BY <2>2, <2>5, <2>6 DEF Backed, Young, IInv, TypeOK
<1>3. Exclusive'
    BY <1>0 DEF IInv, Benign, TypeOK, ClearStale, DropLabel, KeepLabels, Clearing,
       Releasing, Exclusive, BuildsHoldLabel, StepsMatch
<1>4. StepsMatch'
    BY <1>0 DEF IInv, Benign, TypeOK, ClearStale, DropLabel, KeepLabels, Clearing,
       Releasing, StepsMatch, OneInWindow, Young, StaleStaysOld, BuildsHoldLabel
<1>5. OneInWindow'
    BY <1>0 DEF IInv, Benign, TypeOK, ClearStale, DropLabel, KeepLabels, Clearing,
       Releasing, OneInWindow, StepsMatch
<1>6. StaleStaysOld'
    BY <1>0 DEF IInv, Benign, TypeOK, ClearStale, DropLabel, KeepLabels, Clearing,
       Releasing, StaleStaysOld, StepsMatch
<1>7. BuildsAreYoung'
    BY <1>0 DEF IInv, Benign, TypeOK, ClearStale, DropLabel, KeepLabels, Clearing,
       Releasing, BuildsAreYoung, StepsMatch, BuildsHoldLabel
<1>8. OneYoungHolder'
    BY <1>0 DEF IInv, Benign, TypeOK, ClearStale, DropLabel, KeepLabels, Clearing,
       Releasing, OneYoungHolder, Young, HeldIsBacked, Backed, StepsMatch
<1> QED
    BY <1>0, <1>1, <1>2, <1>3, <1>4, <1>5, <1>6, <1>7, <1>8 DEF IInv

LEMMA EndClearingStep ==
    ASSUME Benign, IInv, NEW r \in Runs, EndClearing(r)
    PROVE  IInv'
<1>0. TypeOK'
    BY TypeStep DEF IInv, Next, RunStep
<1>1. BuildsHoldLabel'
    BY <1>0 DEF IInv, Benign, TypeOK, EndClearing, Clearing, Releasing, BuildsHoldLabel,
       StepsMatch
<1>2. Exclusive'
    BY <1>0 DEF IInv, Benign, TypeOK, EndClearing, Clearing, Releasing, Exclusive,
       BuildsHoldLabel, StepsMatch
<1>3. StepsMatch'
    BY <1>0 DEF IInv, Benign, TypeOK, EndClearing, Clearing, Releasing, StepsMatch,
       OneInWindow, Young, StaleStaysOld, BuildsHoldLabel
<1>4. OneInWindow'
    BY <1>0 DEF IInv, Benign, TypeOK, EndClearing, Clearing, Releasing, OneInWindow,
       StepsMatch
<1>5. StaleStaysOld'
    BY <1>0 DEF IInv, Benign, TypeOK, EndClearing, Clearing, Releasing, StaleStaysOld,
       StepsMatch
<1>6. BuildsAreYoung'
    BY <1>0 DEF IInv, Benign, TypeOK, EndClearing, Clearing, Releasing, BuildsAreYoung,
       StepsMatch, BuildsHoldLabel
<1>7. OneYoungHolder'
    BY <1>0 DEF IInv, Benign, TypeOK, EndClearing, Clearing, Releasing, OneYoungHolder,
       Young, HeldIsBacked, Backed, StepsMatch
<1>8. HeldIsBacked'
    BY <1>0 DEF IInv, Benign, TypeOK, EndClearing, Clearing, Releasing, HeldIsBacked,
       Backed, Young, OneYoungHolder, StepsMatch
<1> QED
    BY <1>0, <1>1, <1>2, <1>3, <1>4, <1>5, <1>6, <1>7, <1>8 DEF IInv

LEMMA ReadLabelsStep ==
    ASSUME Benign, IInv, NEW r \in Runs, NEW t \in Targets, ReadLabels(r, t)
    PROVE  IInv'
<1>0. TypeOK'
    BY TypeStep DEF IInv, Next, RunStep
<1>1. BuildsHoldLabel'
    BY <1>0 DEF IInv, Benign, TypeOK, ReadLabels, MayEnter, InWindow, Clearing,
       Releasing, BuildsHoldLabel, StepsMatch
<1>2. Exclusive'
    BY <1>0 DEF IInv, Benign, TypeOK, ReadLabels, MayEnter, InWindow, Clearing,
       Releasing, Exclusive, BuildsHoldLabel, StepsMatch
<1>3. StepsMatch'
    BY <1>0 DEF IInv, Benign, TypeOK, ReadLabels, MayEnter, InWindow, Clearing,
       Releasing, StepsMatch, OneInWindow, Young, StaleStaysOld, BuildsHoldLabel
<1>4. OneInWindow'
    BY <1>0 DEF IInv, Benign, TypeOK, ReadLabels, MayEnter, InWindow, Clearing,
       Releasing, OneInWindow, StepsMatch
<1>5. StaleStaysOld'
    BY <1>0 DEF IInv, Benign, TypeOK, ReadLabels, MayEnter, InWindow, Clearing,
       Releasing, StaleStaysOld, StepsMatch
<1>6. BuildsAreYoung'
    BY <1>0 DEF IInv, Benign, TypeOK, ReadLabels, MayEnter, InWindow, Clearing,
       Releasing, BuildsAreYoung, StepsMatch, BuildsHoldLabel
<1>7. OneYoungHolder'
    BY <1>0 DEF IInv, Benign, TypeOK, ReadLabels, MayEnter, InWindow, Clearing,
       Releasing, OneYoungHolder, Young, HeldIsBacked, Backed, StepsMatch
<1>8. HeldIsBacked'
    BY <1>0 DEF IInv, Benign, TypeOK, ReadLabels, MayEnter, InWindow, Clearing,
       Releasing, HeldIsBacked, Backed, Young, OneYoungHolder, StepsMatch
<1> QED
    BY <1>0, <1>1, <1>2, <1>3, <1>4, <1>5, <1>6, <1>7, <1>8 DEF IInv

LEMMA AddLabelStep ==
    ASSUME Benign, IInv, NEW r \in Runs, AddLabel(r)
    PROVE  IInv'
<1>0. TypeOK'
    BY TypeStep DEF IInv, Next, RunStep
<1>1. BuildsAreYoung' /\ Exclusive' /\ HeldIsBacked' /\ BuildsHoldLabel' /\ StepsMatch'
  <2>1. at[r] \in Targets /\ at[r] \notin labelled /\ at[r] \in marked[r] /\ heldAge[r][at[r]] <= BuildMax
    BY DEF AddLabel, IInv, StepsMatch, TypeOK
  <2>2. UNCHANGED <<marked, heldAge>> /\ (KeepLabels \/ PutLabel(at[r]))
    BY DEF AddLabel
  <2>3. \A q \in Runs \ {r} : building'[q] = building[q] /\ step'[q] = step[q] /\ at'[q] = at[q]
    BY DEF AddLabel, IInv, TypeOK
  <2>4. building'[r] \subseteq building[r] \cup {at[r]}
    BY DEF AddLabel, IInv, TypeOK
  <2>5. \A q \in Runs : at[r] \notin building[q]
    BY <2>1 DEF IInv, BuildsHoldLabel
  <2>6. Exclusive'
    <3> SUFFICES ASSUME NEW p \in Runs, NEW q \in Runs, p # q PROVE building'[p] \cap building'[q] = {}
      BY DEF Exclusive
    <3>1. building[p] \cap building[q] = {}
      BY DEF Exclusive, IInv
    <3> QED
      BY <2>3, <2>4, <2>5, <3>1
  <2>7. BuildsAreYoung'
    BY <2>1, <2>2, <2>3, <2>4 DEF BuildsAreYoung, IInv
  <2>8. HeldIsBacked'
    <3> SUFFICES ASSUME NEW q \in Runs, NEW t \in Young(q),
            t # at'[q] \/ (step'[q] = "undo" /\ "lost" \in RemoveErrors)
        PROVE Backed(q, t)'
      BY <2>2 DEF HeldIsBacked, Young
    <3>1. t \in Targets /\ heldAge[q][t] \in Nat
      BY DEF Young, IInv, TypeOK, Ages, Old
    <3>2. CASE t = at[r] /\ q = r
      <4>1. PutLabel(t)
        BY <2>2, <3>2 DEF AddLabel, Benign, IInv, TypeOK
      <4> QED
        BY <2>1, <2>2, <3>1, <3>2, <4>1 DEF PutLabel, Backed, IInv, TypeOK
    <3>3. CASE t = at[r] /\ q # r
      <4>1. at[q] # t
        BY <2>1, <3>3 DEF IInv, OneInWindow
      <4>2. t \in labelled
        BY <4>1 DEF IInv, HeldIsBacked, Backed
      <4> QED
        BY <2>1, <3>3, <4>2
    <3>4. CASE t # at[r]
      <4>1. t # at[q] \/ (step[q] = "undo" /\ "lost" \in RemoveErrors)
        BY <2>3, <3>4
      <4>2. Backed(q, t)
        BY <4>1 DEF IInv, HeldIsBacked
      <4>3. t \in labelled' /\ labelAge'[t] = labelAge[t]
        BY <2>2, <3>1, <3>4, <4>2 DEF PutLabel, KeepLabels, Backed, IInv, TypeOK
      <4> QED
        BY <2>2, <4>2, <4>3 DEF Backed
    <3> QED
      BY <3>2, <3>3, <3>4
  <2>9. BuildsHoldLabel'
    <3>1. labelled \subseteq labelled' /\ (building'[r] # building[r] => at[r] \in labelled')
      BY <2>2 DEF AddLabel, PutLabel, KeepLabels, IInv, TypeOK
    <3> QED
      BY <2>1, <2>2, <2>3, <2>4, <3>1 DEF BuildsHoldLabel, IInv
  <2>10. StepsMatch'
    <3>1. labelled' \subseteq labelled \cup {at[r]} /\ UNCHANGED todo
      BY <2>2 DEF AddLabel, PutLabel, KeepLabels
    <3>2. \/ step'[r] = "idle" /\ at'[r] = None
          \/ step'[r] = "undo" /\ UNCHANGED <<at, building>>
      <4>1. CASE PutLabel(at[r]) /\ step' = [step EXCEPT ![r] = "idle"] /\ at' = [at EXCEPT ![r] = None]
        BY <4>1 DEF IInv, TypeOK
      <4>2. CASE step' = [step EXCEPT ![r] = "undo"] /\ UNCHANGED <<at, building>>
        BY <4>2 DEF IInv, TypeOK
      <4> QED
        BY <4>1, <4>2 DEF AddLabel
    <3>3. \A q \in Runs \ {r} : at[q] # at[r] /\ (step[q] \in Clearing => at'[q] = None \/ at'[q] \in stale'[q])
      BY <2>1, <2>3 DEF AddLabel, PutLabel, IInv, TypeOK, OneInWindow, StepsMatch
    <3> QED
      BY <2>1, <2>2, <2>3, <2>5, <3>1, <3>2, <3>3 DEF StepsMatch, IInv, Young, Clearing, Releasing
  <2> QED
    BY <2>6, <2>7, <2>8, <2>9, <2>10
<1>2. OneInWindow'
    BY <1>0 DEF IInv, Benign, TypeOK, AddLabel, PutLabel, KeepLabels, Clearing,
       Releasing, OneInWindow, StepsMatch
<1>3. StaleStaysOld'
    BY <1>0 DEF IInv, Benign, TypeOK, AddLabel, PutLabel, KeepLabels, Clearing,
       Releasing, StaleStaysOld, StepsMatch
<1>4. OneYoungHolder'
    BY <1>0 DEF IInv, Benign, TypeOK, AddLabel, PutLabel, KeepLabels, Clearing,
       Releasing, OneYoungHolder, Young, HeldIsBacked, Backed, StepsMatch
<1> QED
    BY <1>0, <1>1, <1>2, <1>3, <1>4 DEF IInv

LEMMA UndoClaimStep ==
    ASSUME Benign, IInv, NEW r \in Runs, UndoClaim(r)
    PROVE  IInv'
<1>0. TypeOK'
    BY TypeStep DEF IInv, Next, RunStep
<1>1. BuildsHoldLabel' /\ BuildsAreYoung' /\ HeldIsBacked'
  <2>1. at[r] \in Young(r) /\ at[r] \notin building[r] /\ Release(r, at[r])
    BY YoungAtClaim DEF UndoClaim, IInv, StepsMatch
  <2>2. building' = building /\ step[r] = "undo" /\ step'[r] = "idle"
    BY DEF UndoClaim, IInv, TypeOK
  <2>3. \A q \in Runs \ {r} : step'[q] = step[q] /\ at'[q] = at[q]
    BY DEF UndoClaim, IInv, TypeOK
  <2>4. BuildsHoldLabel'
    BY <2>1, <2>2, ReleaseKeepsRest DEF BuildsHoldLabel
  <2>5. BuildsAreYoung'
    BY <2>1, <2>2, ReleaseKeepsRest DEF BuildsAreYoung, IInv
  <2>6. HeldIsBacked'
    <3> SUFFICES ASSUME NEW q \in Runs, NEW t \in Young(q)',
            t # at'[q] \/ (step'[q] = "undo" /\ "lost" \in RemoveErrors)
        PROVE Backed(q, t)'
      BY DEF HeldIsBacked
    <3>1. t \in Young(q)
      BY <2>1, ReleaseKeepsRest
    <3>2. CASE q # r
      BY <2>1, <2>3, <3>1, <3>2, ReleaseKeepsRest DEF HeldIsBacked, IInv
    <3>3. CASE q = r /\ t # at[r]
      BY <2>1, <3>1, <3>3, ReleaseKeepsRest DEF HeldIsBacked, IInv
    <3>4. CASE q = r /\ t = at[r]
      <4>1. "lost" \in RemoveErrors
        BY <2>1, <3>4, ReleaseEffect DEF Young, IInv, TypeOK
      <4>2. Backed(q, t)
        BY <2>2, <3>1, <3>4, <4>1 DEF HeldIsBacked, IInv
      <4> QED
        BY <2>1, <4>2, ReleaseKeepsRest
    <3> QED
      BY <3>2, <3>3, <3>4
  <2> QED
    BY <2>4, <2>5, <2>6
<1>2. Exclusive'
    BY <1>0 DEF IInv, Benign, TypeOK, UndoClaim, Release, DropLabel, KeepLabels,
       Remember, Clearing, Releasing, Exclusive, BuildsHoldLabel, StepsMatch
<1>3. StepsMatch'
    BY <1>0 DEF IInv, Benign, TypeOK, UndoClaim, Release, DropLabel, KeepLabels,
       Remember, Clearing, Releasing, StepsMatch, OneInWindow, Young, StaleStaysOld,
       BuildsHoldLabel
<1>4. OneInWindow'
    BY <1>0 DEF IInv, Benign, TypeOK, UndoClaim, Release, DropLabel, KeepLabels,
       Remember, Clearing, Releasing, OneInWindow, StepsMatch
<1>5. StaleStaysOld'
    BY <1>0 DEF IInv, Benign, TypeOK, UndoClaim, Release, DropLabel, KeepLabels,
       Remember, Clearing, Releasing, StaleStaysOld, StepsMatch
<1>6. OneYoungHolder'
    BY <1>0 DEF IInv, Benign, TypeOK, UndoClaim, Release, DropLabel, KeepLabels,
       Remember, Clearing, Releasing, OneYoungHolder, Young, HeldIsBacked, Backed,
       StepsMatch
<1> QED
    BY <1>0, <1>1, <1>2, <1>3, <1>4, <1>5, <1>6 DEF IInv

LEMMA EndBuildStep ==
    ASSUME Benign, IInv, NEW r \in Runs, NEW t \in Targets, EndBuild(r, t)
    PROVE  IInv'
<1>0. TypeOK'
    BY TypeStep DEF IInv, Next, RunStep
<1>1. BuildsHoldLabel' /\ HeldIsBacked'
  <2>1. t \in Young(r) /\ Release(r, t) /\ UNCHANGED <<step, at>>
    BY BuildsSubsetYoung DEF EndBuild
  <2>2. \A q \in Runs : building'[q] \subseteq building[q] /\ t \notin building'[r]
    BY DEF EndBuild, IInv, TypeOK
  <2>3. BuildsHoldLabel'
    BY <2>1, <2>2, ReleaseKeepsRest DEF BuildsHoldLabel
  <2>4. HeldIsBacked'
    BY <2>1, ReleaseKeepsRest DEF HeldIsBacked, IInv
  <2> QED
    BY <2>3, <2>4
<1>2. Exclusive'
    BY <1>0 DEF IInv, Benign, TypeOK, EndBuild, Release, DropLabel, KeepLabels,
       Remember, Clearing, Releasing, Exclusive, BuildsHoldLabel, StepsMatch
<1>3. StepsMatch'
    BY <1>0 DEF IInv, Benign, TypeOK, EndBuild, Release, DropLabel, KeepLabels,
       Remember, Clearing, Releasing, StepsMatch, OneInWindow, Young, StaleStaysOld,
       BuildsHoldLabel
<1>4. OneInWindow'
    BY <1>0 DEF IInv, Benign, TypeOK, EndBuild, Release, DropLabel, KeepLabels,
       Remember, Clearing, Releasing, OneInWindow, StepsMatch
<1>5. StaleStaysOld'
    BY <1>0 DEF IInv, Benign, TypeOK, EndBuild, Release, DropLabel, KeepLabels,
       Remember, Clearing, Releasing, StaleStaysOld, StepsMatch
<1>6. BuildsAreYoung'
    BY <1>0 DEF IInv, Benign, TypeOK, EndBuild, Release, DropLabel, KeepLabels,
       Remember, Clearing, Releasing, BuildsAreYoung, StepsMatch, BuildsHoldLabel
<1>7. OneYoungHolder'
    BY <1>0 DEF IInv, Benign, TypeOK, EndBuild, Release, DropLabel, KeepLabels,
       Remember, Clearing, Releasing, OneYoungHolder, Young, HeldIsBacked, Backed,
       StepsMatch
<1> QED
    BY <1>0, <1>1, <1>2, <1>3, <1>4, <1>5, <1>6, <1>7 DEF IInv

LEMMA StartRoundExitStep ==
    ASSUME Benign, IInv, NEW r \in Runs, StartRound(r) \/ Exit(r)
    PROVE  IInv'
<1>0. TypeOK'
    BY TypeStep DEF IInv, Next, RunStep
<1>1. BuildsHoldLabel' /\ BuildsAreYoung' /\ Exclusive' /\ OneYoungHolder' /\ HeldIsBacked'
  <2>1. Young(r) \in SUBSET Targets /\ Remember(r, Young(r)) /\ UNCHANGED <<labelled, labelAge, at>>
    BY DEF StartRound, Exit, Young, IInv, TypeOK
  <2>2. building'[r] = {} /\ \A q \in Runs \ {r} : building'[q] = building[q] /\ step'[q] = step[q]
    BY DEF StartRound, Exit, IInv, TypeOK
  <2>3. \A q \in Runs \ {r} : marked'[q] = marked[q] /\ heldAge'[q] = heldAge[q]
    BY <2>1, RememberType DEF IInv
  <2>4. \A q \in Runs : Young(q)' = Young(q) /\ \A t \in Young(q) : heldAge'[q][t] = heldAge[q][t]
    BY <2>1, <2>3, RememberType DEF IInv, Young
  <2>5. BuildsHoldLabel' /\ BuildsAreYoung'
    BY <2>1, <2>2, <2>3 DEF BuildsHoldLabel, BuildsAreYoung, IInv
  <2>6. Exclusive'
    BY <2>2 DEF Exclusive, IInv
  <2>7. OneYoungHolder'
    BY <2>4 DEF OneYoungHolder, IInv
  <2>8. step[r] = "idle"
    BY DEF StartRound, Exit
  <2>9. HeldIsBacked'
    <3> SUFFICES ASSUME NEW q \in Runs, NEW t \in Young(q)',
            t # at'[q] \/ (step'[q] = "undo" /\ "lost" \in RemoveErrors)
        PROVE Backed(q, t)'
      BY DEF HeldIsBacked
    <3>1. t \in Young(q) /\ heldAge'[q][t] = heldAge[q][t]
      BY <2>4
    <3>2. step'[r] # "undo"
      BY DEF StartRound, Exit, IInv, TypeOK
    <3>3. Backed(q, t)
      BY <2>1, <2>2, <3>1, <3>2 DEF HeldIsBacked, IInv
    <3> QED
      BY <2>1, <3>1, <3>3 DEF Backed
  <2> QED
    BY <2>5, <2>6, <2>7, <2>9
<1>2. StepsMatch'
    BY <1>0 DEF IInv, Benign, TypeOK, StartRound, Exit, Remember, Clearing, Releasing,
       StepsMatch, OneInWindow, Young, StaleStaysOld, BuildsHoldLabel
<1>3. OneInWindow'
    BY <1>0 DEF IInv, Benign, TypeOK, StartRound, Exit, Remember, Clearing, Releasing,
       OneInWindow, StepsMatch
<1>4. StaleStaysOld'
    BY <1>0 DEF IInv, Benign, TypeOK, StartRound, Exit, Remember, Clearing, Releasing,
       StaleStaysOld, StepsMatch
<1> QED
    BY <1>0, <1>1, <1>2, <1>3, <1>4 DEF IInv

LEMMA ReleaseHeldStep ==
    ASSUME Benign, IInv, NEW r \in Runs, NEW t \in Targets, ReleaseHeld(r, t)
    PROVE  IInv'
<1>0. TypeOK'
    BY TypeStep DEF IInv, Next, RunStep
<1>1. BuildsHoldLabel' /\ HeldIsBacked'
  <2>1. t \in Young(r) /\ Release(r, t) /\ UNCHANGED <<step, at, building>> /\ building[r] = {}
    BY DEF ReleaseHeld, IInv, StepsMatch
  <2>3. BuildsHoldLabel'
    BY <2>1, ReleaseKeepsRest DEF BuildsHoldLabel
  <2>4. HeldIsBacked'
    BY <2>1, ReleaseKeepsRest DEF HeldIsBacked, IInv
  <2> QED
    BY <2>3, <2>4
<1>2. Exclusive'
    BY <1>0 DEF IInv, Benign, TypeOK, ReleaseHeld, Release, DropLabel, KeepLabels,
       Remember, Clearing, Releasing, Exclusive, BuildsHoldLabel, StepsMatch
<1>3. StepsMatch'
    BY <1>0 DEF IInv, Benign, TypeOK, ReleaseHeld, Release, DropLabel, KeepLabels,
       Remember, Clearing, Releasing, StepsMatch, OneInWindow, Young, StaleStaysOld,
       BuildsHoldLabel
<1>4. OneInWindow'
    BY <1>0 DEF IInv, Benign, TypeOK, ReleaseHeld, Release, DropLabel, KeepLabels,
       Remember, Clearing, Releasing, OneInWindow, StepsMatch
<1>5. StaleStaysOld'
    BY <1>0 DEF IInv, Benign, TypeOK, ReleaseHeld, Release, DropLabel, KeepLabels,
       Remember, Clearing, Releasing, StaleStaysOld, StepsMatch
<1>6. BuildsAreYoung'
    BY <1>0 DEF IInv, Benign, TypeOK, ReleaseHeld, Release, DropLabel, KeepLabels,
       Remember, Clearing, Releasing, BuildsAreYoung, StepsMatch, BuildsHoldLabel
<1>7. OneYoungHolder'
    BY <1>0 DEF IInv, Benign, TypeOK, ReleaseHeld, Release, DropLabel, KeepLabels,
       Remember, Clearing, Releasing, OneYoungHolder, Young, HeldIsBacked, Backed,
       StepsMatch
<1> QED
    BY <1>0, <1>1, <1>2, <1>3, <1>4, <1>5, <1>6, <1>7 DEF IInv

LEMMA EndReleaseStep ==
    ASSUME Benign, IInv, NEW r \in Runs, EndRelease(r)
    PROVE  IInv'
<1>0. TypeOK'
    BY TypeStep DEF IInv, Next, RunStep
<1>1. BuildsHoldLabel' /\ BuildsAreYoung'
  <2>1. building[r] = {} /\ UNCHANGED <<labelled, building>>
    BY DEF EndRelease, IInv, StepsMatch
  <2>2. \A q \in Runs \ {r} : marked'[q] = marked[q] /\ heldAge'[q] = heldAge[q]
    BY RememberType DEF EndRelease, IInv
  <2> QED
    BY <2>1, <2>2 DEF BuildsHoldLabel, BuildsAreYoung, IInv
<1>2. Exclusive'
    BY <1>0 DEF IInv, Benign, TypeOK, EndRelease, Remember, Clearing, Releasing,
       Exclusive, BuildsHoldLabel, StepsMatch
<1>3. StepsMatch'
    BY <1>0 DEF IInv, Benign, TypeOK, EndRelease, Remember, Clearing, Releasing,
       StepsMatch, OneInWindow, Young, StaleStaysOld, BuildsHoldLabel
<1>4. OneInWindow'
    BY <1>0 DEF IInv, Benign, TypeOK, EndRelease, Remember, Clearing, Releasing,
       OneInWindow, StepsMatch
<1>5. StaleStaysOld'
    BY <1>0 DEF IInv, Benign, TypeOK, EndRelease, Remember, Clearing, Releasing,
       StaleStaysOld, StepsMatch
<1>6. OneYoungHolder'
    BY <1>0 DEF IInv, Benign, TypeOK, EndRelease, Remember, Clearing, Releasing,
       OneYoungHolder, Young, HeldIsBacked, Backed, StepsMatch
<1>7. HeldIsBacked'
    BY <1>0 DEF IInv, Benign, TypeOK, EndRelease, Remember, Clearing, Releasing,
       HeldIsBacked, Backed, Young, OneYoungHolder, StepsMatch
<1> QED
    BY <1>0, <1>1, <1>2, <1>3, <1>4, <1>5, <1>6, <1>7 DEF IInv

LEMMA KillStep ==
    ASSUME Benign, IInv, NEW r \in Runs, Kill(r)
    PROVE  IInv'
<1>0. TypeOK'
    BY TypeStep DEF IInv, Next, RunStep
<1>1. BuildsHoldLabel'
    BY <1>0 DEF IInv, Benign, TypeOK, Kill, Remember, Clearing, Releasing,
       BuildsHoldLabel, StepsMatch
<1>2. Exclusive'
    BY <1>0 DEF IInv, Benign, TypeOK, Kill, Remember, Clearing, Releasing, Exclusive,
       BuildsHoldLabel, StepsMatch
<1>3. StepsMatch'
    BY <1>0 DEF IInv, Benign, TypeOK, Kill, Remember, Clearing, Releasing, StepsMatch,
       OneInWindow, Young, StaleStaysOld, BuildsHoldLabel
<1>4. OneInWindow'
    BY <1>0 DEF IInv, Benign, TypeOK, Kill, Remember, Clearing, Releasing, OneInWindow,
       StepsMatch
<1>5. StaleStaysOld'
    BY <1>0 DEF IInv, Benign, TypeOK, Kill, Remember, Clearing, Releasing,
       StaleStaysOld, StepsMatch
<1>6. BuildsAreYoung'
    BY <1>0 DEF IInv, Benign, TypeOK, Kill, Remember, Clearing, Releasing,
       BuildsAreYoung, StepsMatch, BuildsHoldLabel
<1>7. OneYoungHolder'
    BY <1>0 DEF IInv, Benign, TypeOK, Kill, Remember, Clearing, Releasing,
       OneYoungHolder, Young, HeldIsBacked, Backed, StepsMatch
<1>8. HeldIsBacked'
    BY <1>0 DEF IInv, Benign, TypeOK, Kill, Remember, Clearing, Releasing, HeldIsBacked,
       Backed, Young, OneYoungHolder, StepsMatch
<1> QED
    BY <1>0, <1>1, <1>2, <1>3, <1>4, <1>5, <1>6, <1>7, <1>8 DEF IInv

LEMMA TickStep ==
    ASSUME Benign, IInv, Tick
    PROVE  IInv'
<1>0. TypeOK'
    BY TypeStep DEF IInv, Next, RunStep
<1>1. BuildsHoldLabel'
    BY <1>0 DEF IInv, Benign, TypeOK, Tick, Inc, Old, Active, Ages, Clearing, Releasing,
       BuildsHoldLabel, StepsMatch
<1>2. Exclusive'
    BY <1>0 DEF IInv, Benign, TypeOK, Tick, Inc, Old, Active, Ages, Clearing, Releasing,
       Exclusive, BuildsHoldLabel, StepsMatch
<1>3. StepsMatch'
    BY <1>0 DEF IInv, Benign, TypeOK, Tick, Inc, Old, Active, Ages, Clearing, Releasing,
       StepsMatch, OneInWindow, Young, StaleStaysOld, BuildsHoldLabel
<1>4. OneInWindow'
    BY <1>0 DEF IInv, Benign, TypeOK, Tick, Inc, Old, Active, Ages, Clearing, Releasing,
       OneInWindow, StepsMatch
<1>5. StaleStaysOld'
    BY <1>0 DEF IInv, Benign, TypeOK, Tick, Inc, Old, Active, Ages, Clearing, Releasing,
       StaleStaysOld, StepsMatch
<1>6. BuildsAreYoung'
    BY <1>0 DEF IInv, Benign, TypeOK, Tick, Inc, Old, Active, Ages, Clearing, Releasing,
       BuildsAreYoung, StepsMatch, BuildsHoldLabel
<1>7. OneYoungHolder'
    BY <1>0 DEF IInv, Benign, TypeOK, Tick, Inc, Old, Active, Ages, Clearing, Releasing,
       OneYoungHolder, Young, HeldIsBacked, Backed, StepsMatch
<1>8. HeldIsBacked'
    BY <1>0 DEF IInv, Benign, TypeOK, Tick, Inc, Old, Active, Ages, Clearing, Releasing,
       HeldIsBacked, Backed, Young, OneYoungHolder, StepsMatch
<1> QED
    BY <1>0, <1>1, <1>2, <1>3, <1>4, <1>5, <1>6, <1>7, <1>8 DEF IInv

THEOREM StepInv ==
    ASSUME Benign
    PROVE  IInv /\ [Next]_vars => IInv'
<1> SUFFICES ASSUME IInv, [Next]_vars PROVE IInv'
    OBVIOUS
<1>1. ASSUME NEW r \in Runs, RunStep(r) PROVE IInv'
    BY <1>1, StartStep, CheckStaleStep, ClearStaleStep, EndClearingStep, ReadLabelsStep,
       AddLabelStep, UndoClaimStep, EndBuildStep, StartRoundExitStep, ReleaseHeldStep,
       EndReleaseStep, KillStep DEF RunStep
<1>2. CASE UNCHANGED vars
  <2>1. TypeOK' /\ StepsMatch' /\ OneInWindow'
    BY <1>2 DEF IInv, vars, TypeOK, StepsMatch, OneInWindow, Young
  <2>2. BuildsHoldLabel' /\ Exclusive' /\ StaleStaysOld' /\ BuildsAreYoung'
    BY <1>2 DEF IInv, vars, BuildsHoldLabel, Exclusive, StaleStaysOld, BuildsAreYoung
  <2>3. OneYoungHolder' /\ HeldIsBacked'
    BY <1>2 DEF IInv, vars, OneYoungHolder, HeldIsBacked, Young, Backed
  <2> QED
    BY <2>1, <2>2, <2>3 DEF IInv
<1> QED
    BY <1>1, <1>2, TickStep DEF Next

\* Whatever the failures and however the round trips overlap, the state stays
\* well formed, and a run that writes a label always has one to write.
THEOREM TypeCorrect == Spec => []TypeOK
<1>1. Init => TypeOK
    BY InitInv DEF IInv
<1> QED
    BY <1>1, TypeStep, PTL DEF Spec

\* Under Benign the inductive invariant always holds.
THEOREM InvHolds ==
    ASSUME Benign
    PROVE  Spec => []IInv
<1> QED
    BY InitInv, StepInv, PTL DEF Spec

\* No two runs build the same target, under Benign, for any number of runs.
THEOREM NeverBuiltTwice ==
    ASSUME Benign
    PROVE  Spec => []Exclusive
<1>1. IInv => Exclusive
    BY DEF IInv
<1> QED
    BY <1>1, InvHolds, PTL

\* Nothing takes the label off under a build, under Benign.
THEOREM LabelStaysUnderBuild ==
    ASSUME Benign
    PROVE  Spec => []BuildsHoldLabel
<1>1. IInv => BuildsHoldLabel
    BY DEF IInv
<1> QED
    BY <1>1, InvHolds, PTL

\* What a step makes a run forget: a label it took off, or, at a round's start
\* or at exit, a claim past MaxAge; ending, it forgets the rest.
LEMMA Forgets ==
    ASSUME IInv, NEW r \in Runs, RunStep(r), NEW t \in Targets, t \in labelled'
    PROVE  /\ \A q \in Runs \ {r} : marked'[q] = marked[q]
           /\ t \in marked[r] \ marked'[r] => step'[r] = "off" \/ heldAge[r][t] > MaxAge
<1> USE DEF IInv, TypeOK
<1>1. CASE Start(r) \/ ClearStale(r) \/ EndClearing(r) \/ AddLabel(r)
    BY <1>1 DEF Start, ClearStale, EndClearing, AddLabel
<1>2. CASE UndoClaim(r)
    BY <1>2 DEF UndoClaim, Release, DropLabel, Remember
<1>3. CASE StartRound(r) \/ Exit(r)
    BY <1>3 DEF StartRound, Exit, Remember, Young, Ages, Old
<1>4. CASE EndRelease(r)
    BY <1>4 DEF EndRelease, Remember
<1>5. CASE Kill(r)
    BY <1>5 DEF Kill, Remember
<1>6. ASSUME NEW u \in Targets, CheckStale(r, u) \/ ReadLabels(r, u)
      PROVE  UNCHANGED marked \/ marked' = [marked EXCEPT ![r] = @ \cup {u}]
    BY <1>6 DEF CheckStale, ReadLabels
<1>7. ASSUME NEW u \in Targets, EndBuild(r, u) \/ ReleaseHeld(r, u)
      PROVE  /\ \A q \in Runs \ {r} : marked'[q] = marked[q]
             /\ t \notin marked[r] \ marked'[r]
    BY <1>7 DEF EndBuild, ReleaseHeld, Release, DropLabel, Remember
<1> QED
    BY <1>1, <1>2, <1>3, <1>4, <1>5, <1>6, <1>7 DEF RunStep

\* What a step puts a label on: a target its run remembers already.
LEMMA Labels ==
    ASSUME IInv, NEW r \in Runs, RunStep(r), NEW t \in Targets, t \in labelled' \ labelled
    PROVE  t \in marked[r] /\ t \in marked'[r]
<1> USE DEF IInv, TypeOK
<1>1. CASE AddLabel(r)
    BY <1>1 DEF AddLabel, PutLabel, KeepLabels, StepsMatch
<1>2. CASE ~AddLabel(r)
  <2>1. labelled' \subseteq labelled
    BY <1>2 DEF RunStep, Start, ClearStale, EndClearing, UndoClaim, StartRound, Exit,
       EndRelease, Kill, CheckStale, ReadLabels, EndBuild, ReleaseHeld, Release,
       DropLabel, KeepLabels
  <2> QED
    BY <2>1
<1> QED
    BY <1>1, <1>2

\* Under Benign only a run's end or a claim past MaxAge leaves a label that no
\* run remembers: markedByThisRun is set before the add and cleared after the
\* removal.
THEOREM OnlyDeathOrphans ==
    ASSUME Benign
    PROVE  Spec => OrphansOnlyByDeath
<1> DEFINE Left(t) == \E r \in Runs : t \in marked[r] /\ (step'[r] = "off" \/ heldAge[r][t] > MaxAge)
<1>1. ASSUME IInv, [Next]_vars, NEW t \in Targets, ~Orphan(t), Orphan(t)'
      PROVE  Left(t)
  <2>1. t \in labelled' /\ \A q \in Runs : t \notin marked'[q]
    BY <1>1 DEF Orphan
  <2>2. ASSUME NEW r \in Runs, RunStep(r) PROVE Left(t)
    <3>1. t \in labelled
      BY <1>1, <2>1, <2>2, Labels
    <3>2. PICK q \in Runs : t \in marked[q]
      BY <1>1, <3>1 DEF Orphan
    <3>3. q = r
      BY <1>1, <2>1, <2>2, <3>2, Forgets
    <3> QED
      BY <1>1, <2>1, <2>2, <3>2, <3>3, Forgets
  <2>3. ~Tick /\ ~UNCHANGED vars
    BY <1>1, <2>1 DEF Tick, vars, Orphan
  <2> QED
    BY <1>1, <2>2, <2>3 DEF Next
<1>2. IInv /\ [Next]_vars => [\A t \in Targets : ~Orphan(t) /\ Orphan(t)' =>
          \E r \in Runs : t \in marked[r] /\ ( \/ step'[r] = "off"
                                               \/ heldAge[r][t] > MaxAge )]_vars
    BY <1>1
<1> QED
    BY <1>2, InvHolds, PTL DEF OrphansOnlyByDeath, Spec
=============================================================================
