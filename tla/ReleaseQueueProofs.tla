------------------------- MODULE ReleaseQueueProofs -------------------------
(***************************************************************************)
(* Proofs about ReleaseQueue, for any number of merges, in a repository    *)
(* that has a Release.  Before the first one nothing holds an older merge  *)
(* back behind a newer one's tag, and neither theorem holds.               *)
(***************************************************************************)
EXTENDS ReleaseQueue, TLAPS, WellFoundedInduction

HasRelease == FirstRelease = FALSE

LEMMA LeastOf ==
    ASSUME NEW S, S \subseteq Nat, S # {}
    PROVE \E x \in S : \A y \in S : x <= y
<1>1. \E x \in S : \A y \in S : <<y, x>> \notin OpToRel(<, Nat)
  BY WFMin, NatLessThanWellFounded, Zenon
<1>2. PICK x \in S : \A y \in S : <<y, x>> \notin OpToRel(<, Nat)
  BY <1>1
<1>3. ASSUME NEW y \in S PROVE x <= y
  <2>1. <<y, x>> \in Nat \X Nat /\ ~ (<<y, x>>[1] < <<y, x>>[2])
    BY <1>2 DEF OpToRel
  <2> QED
    BY <2>1
<1> QED
  BY <1>2, <1>3

LEMMA GreatestOf ==
    ASSUME NEW n \in Nat, NEW S, S \subseteq 0..n, S # {}
    PROVE \E x \in S : \A y \in S : y <= x
<1> DEFINE T == {n - x : x \in S}
<1>1. T \subseteq Nat /\ T # {}
  <2>1. PICK x \in S : TRUE
    OBVIOUS
  <2>2. n - x \in T
    BY <2>1
  <2> QED
    BY <2>2, SMT
<1>2. PICK z \in T : \A y \in T : z <= y
  BY <1>1, LeastOf, Zenon
<1>3. PICK x \in S : z = n - x
  BY <1>2
<1>4. ASSUME NEW y \in S PROVE y <= x
  <2>1. n - y \in T
    OBVIOUS
  <2>2. z <= n - y
    BY <1>2, <2>1
  <2> QED
    BY <1>3, <2>2, SMT
<1> QED
  BY <1>4

-----------------------------------------------------------------------------
\* What the helpers return.

LEMMA TodoIsPulls == ASSUME TypeOK PROVE todo \subseteq Nat /\ Pulls \subseteq Nat /\ todo \subseteq Pulls
BY MergesAssumption, SMT DEF TypeOK, Pulls

\* The job is of the oldest pull request the run has left.
LEMMA OldestIsLeast ==
    ASSUME TypeOK, todo # {}
    PROVE Oldest \in todo /\ \A q \in todo : Oldest <= q
<1>1. \E p \in todo : \A q \in todo : p <= q
  BY LeastOf, TodoIsPulls, Zenon
<1> QED
  BY <1>1, Zenon DEF Oldest

\* The cutoff Release is the newest of the list by merge order as well.
LEMMA CutoffIsNewest ==
    ASSUME IInv
    PROVE /\ cutoffVersion # 0
          /\ cutoffVersion \in DOMAIN tags
          /\ tags[cutoffVersion] \in Listed
          /\ \A r \in Listed : r <= tags[cutoffVersion]
<1> DEFINE versions == {v \in DOMAIN tags : tags[v] \in Listed}
<1>1. tags \in Seq(Nat) /\ Listed \subseteq TaggedPulls /\ 0 \in Listed
  <2>1. Pulls \cup {0} \subseteq Nat
    BY TodoIsPulls, SMT DEF IInv
  <2>2. tags \in Seq(Pulls \cup {0})
    BY DEF IInv, TypeOK
  <2> QED
    BY <2>1, <2>2, SMT DEF IInv, Listed
<1>2. DOMAIN tags = 1..Len(tags) /\ Len(tags) \in Nat
  BY <1>1, SMT
<1>3. versions # {} /\ versions \subseteq 0..Len(tags)
  BY <1>1, <1>2, SMT DEF TaggedPulls
<1>4. \E v \in versions : \A w \in versions : w <= v
  BY <1>2, <1>3, GreatestOf, Zenon
<1>5. cutoffVersion = CHOOSE v \in versions : \A w \in versions : w <= v
  BY <1>3, Zenon DEF cutoffVersion
<1>6. cutoffVersion \in versions /\ \A w \in versions : w <= cutoffVersion
  BY <1>4, <1>5, Zenon
<1>7. ASSUME NEW r \in Listed PROVE r <= tags[cutoffVersion]
  <2>1. PICK w \in DOMAIN tags : r = tags[w]
    BY <1>1 DEF TaggedPulls
  <2>2. w \in versions /\ w <= cutoffVersion
    BY <1>6, <2>1
  <2>3. w < cutoffVersion => tags[w] < tags[cutoffVersion]
    BY <1>6, <2>1 DEF IInv, VersionsFollowMerges
  <2>4. tags[w] \in Nat /\ tags[cutoffVersion] \in Nat
    BY <1>1, <1>2, <1>6, SMT
  <2> QED
    BY <1>2, <1>6, <2>1, <2>2, <2>3, <2>4, SMT
<1> QED
  BY <1>2, <1>6, <1>7, SMT

\* What is queued is newer than every Release of the list, and what is left out
\* is settled.
LEMMA QueueIsOwed ==
    ASSUME IInv
    PROVE /\ Queue \subseteq Pulls
          /\ \A p \in Queue : ~ Settled(p)
          /\ \A q \in Pulls : q \in Queue \/ Settled(q)
<1>1. /\ cutoffVersion # 0 /\ tags[cutoffVersion] \in Listed
      /\ \A r \in Listed : r <= tags[cutoffVersion]
  BY CutoffIsNewest
<1>2. Listed \subseteq Nat /\ Pulls \subseteq Nat
  BY TodoIsPulls, SMT DEF IInv, TypeOK, Listed
<1>3. Queue \subseteq Pulls
  BY DEF Queue
<1>4. ASSUME NEW p \in Queue PROVE ~ Settled(p)
  <2>1. p \notin optedOut /\ p > tags[cutoffVersion] /\ p \in Nat
    BY <1>1, <1>2, SMT DEF Queue, owed
  <2>2. ASSUME NEW r \in Listed PROVE ~ (p <= r)
    <3>1. r <= tags[cutoffVersion] /\ r \in Nat /\ tags[cutoffVersion] \in Nat
      BY <1>1, <1>2
    <3> QED
      BY <2>1, <3>1, SMT
  <2> QED
    BY <2>1, <2>2, Zenon DEF Settled
<1>5. ASSUME NEW q \in Pulls, q \notin Queue PROVE Settled(q)
  <2>1. q \in optedOut \/ q \in Listed \/ ~ (q > tags[cutoffVersion])
    BY <1>1, <1>5, SMT DEF Queue, owed
  <2>2. q \in Nat /\ tags[cutoffVersion] \in Nat
    BY <1>1, <1>2
  <2>3. q \in Listed => q <= q
    BY <2>2, SMT
  <2>4. ~ (q > tags[cutoffVersion]) => q <= tags[cutoffVersion]
    BY <2>2, SMT
  <2> QED
    BY <1>1, <2>1, <2>3, <2>4, Zenon DEF Settled
<1> QED
  BY <1>3, <1>4, <1>5

-----------------------------------------------------------------------------
(* IInv is inductive.                                                        *)

LEMMA SettledGrows ==
    ASSUME NEW p, Settled(p), optedOut \subseteq optedOut', Listed \subseteq Listed'
    PROVE Settled(p)'
BY Zenon DEF Settled

\* Merges, people and the end of a job take nothing from the order of tags: only
\* a plan and a new tag add to what it says.
LEMMA OrderKept ==
    ASSUME IInv,
           merged' \in {merged, merged + 1}, tags' = tags,
           optedOut \subseteq optedOut', Listed \subseteq Listed',
           todo' \subseteq todo, todo' # {} => queue' = queue
    PROVE VersionsFollowMerges' /\ TagsOnSettled' /\ QueueComplete'
<1>1. TaggedPulls' = TaggedPulls /\ TaggedPulls \subseteq Pulls \cup {0}
  BY SMT DEF TaggedPulls, IInv, TypeOK
<1>2. merged \in Nat /\ todo \subseteq Pulls
  BY SMT DEF IInv, TypeOK
<1>3. \A q \in Pulls', p \in Pulls \cup {0} : q < p => q \in Pulls
  BY <1>2, SMT DEF Pulls
<1>4. VersionsFollowMerges'
  BY DEF IInv, VersionsFollowMerges
<1>5. ASSUME NEW t \in TaggedPulls', NEW p \in Pulls', p < t PROVE Settled(p)'
  <2>1. Settled(p)
    BY <1>1, <1>3, <1>5 DEF IInv, TagsOnSettled
  <2> QED
    BY <2>1, SettledGrows
<1>6. ASSUME NEW p \in todo' PROVE \A t \in TaggedPulls' : t <= p
  BY <1>1 DEF IInv, QueueComplete
<1>7. ASSUME NEW p \in todo', NEW q \in Pulls', q < p PROVE q \in queue' \/ Settled(q)'
  <2>1. q \in Pulls /\ queue' = queue
    BY <1>2, <1>3, <1>7
  <2>2. q \in queue \/ Settled(q)
    BY <1>7, <2>1 DEF IInv, QueueComplete
  <2> QED
    BY <2>1, <2>2, SettledGrows
<1> QED
  BY <1>4, <1>5, <1>6, <1>7 DEF TagsOnSettled, QueueComplete

\* The end of a job leaves the others of the run.
LEMMA EndJobLeaves ==
    ASSUME TypeOK, EndJob
    PROVE /\ todo' \subseteq todo
          /\ todo' # {} => queue' = queue
          /\ queue' \subseteq queue /\ todo' \subseteq queue'
          /\ step' \in {"off", "job"}
          /\ step' = "off" => queue' = {}
          /\ step' = "job" => todo' # {}
          /\ UNCHANGED <<pending, trigger>>
BY SMT DEF TypeOK, EndJob

\* While a run is on, people merge, start runs and edit titles, and the list of
\* Releases catches up.
LEMMA AroundTheRun ==
    ASSUME IInv, Merge \/ Appear \/ \E p \in Pulls : Dispatch(p) \/ OptOut(p)
    PROVE IInv'
<1>1. /\ merged' \in {merged, merged + 1} /\ UNCHANGED <<tags, released, trigger, step, queue, todo>>
      /\ optedOut \subseteq optedOut' /\ Listed \subseteq Listed'
  BY SMT DEF Merge, Appear, Dispatch, OptOut, pullVars, runVars, Listed
<1>2. Pulls \subseteq Pulls' /\ merged' \in 0..MaxMerges
  BY MergesAssumption, SMT
  DEF IInv, TypeOK, Pulls, Merge, Appear, Dispatch, OptOut, pullVars, runVars
<1>3. TypeOK'
  <2>1. tags' \in Seq((Pulls \cup {0})')
    <3>1. tags' \in Seq(Pulls \cup {0})
      BY <1>1 DEF IInv, TypeOK
    <3> QED
      BY <1>2, <3>1, SMT
  <2>2. optedOut' \subseteq Pulls' /\ pending' \in Pulls' \cup {None} /\ unlisted' \subseteq released'
    <3>1. CASE Merge
      <4>1. merged + 1 \in Pulls'
        BY <3>1, SMT DEF Merge, IInv, TypeOK, Pulls
      <4> QED
        BY <1>2, <3>1, <4>1, Zenon DEF Merge, IInv, TypeOK
    <3>2. CASE Appear \/ \E p \in Pulls : Dispatch(p) \/ OptOut(p)
      BY <1>2, <3>2, SMT DEF Appear, Dispatch, OptOut, pullVars, runVars, IInv, TypeOK
    <3> QED
      BY <3>1, <3>2
  <2> QED
    BY <1>1, <1>2, <2>1, <2>2, SMT DEF IInv, TypeOK
<1>4. VersionsFollowMerges' /\ TagsOnSettled' /\ QueueComplete'
  BY <1>1, OrderKept
<1>5. 0 \in Listed' /\ released' \subseteq TaggedPulls'
  BY <1>1 DEF IInv, TaggedPulls
<1>6. JobMayRelease'
  <2>1. Oldest' = Oldest /\ Earlier' = Earlier /\ TaggedPulls' = TaggedPulls
    BY <1>1 DEF Oldest, Earlier, TaggedPulls
  <2> QED
    BY <1>1, <2>1 DEF IInv, JobMayRelease
<1> QED
  BY <1>3, <1>4, <1>5, <1>6 DEF IInv

LEMMA StartAndEnd == ASSUME IInv, Start \/ Cancel PROVE IInv'
<1>1. /\ UNCHANGED <<merged, optedOut, released, unlisted, tags>>
      /\ todo' \subseteq todo /\ (todo' # {} => queue' = queue)
      /\ step' \in {"off", "plan"} /\ queue' = {} /\ todo' = {}
      /\ pending' \in Pulls \cup {None} /\ trigger' \in Pulls \cup {0}
  BY SMT DEF Start, Cancel, EndRun, pullVars, IInv, TypeOK
<1>2. Listed' = Listed /\ Pulls' = Pulls /\ TaggedPulls' = TaggedPulls
  BY <1>1 DEF Listed, Pulls, TaggedPulls
<1>3. TypeOK'
  BY <1>1, <1>2, SMT DEF IInv, TypeOK, Steps
<1>4. VersionsFollowMerges' /\ TagsOnSettled' /\ QueueComplete'
  BY <1>1, <1>2, OrderKept
<1>5. JobMayRelease'
  BY <1>1, SMT DEF JobMayRelease
<1> QED
  BY <1>1, <1>2, <1>3, <1>4, <1>5 DEF IInv

\* Nothing queued is older than a tag: what is, is settled.
LEMMA PlanKeeps == ASSUME IInv, Plan PROVE IInv'
<1>1. UNCHANGED <<merged, optedOut, released, unlisted, tags>>
  BY DEF Plan, pullVars
<1>2. /\ Listed' = Listed /\ Pulls' = Pulls /\ TaggedPulls' = TaggedPulls
      /\ \A p : Settled(p)' <=> Settled(p)
  BY <1>1 DEF Listed, Pulls, TaggedPulls, Settled
<1>3. /\ Queue \subseteq Pulls
      /\ \A p \in Queue : ~ Settled(p)
      /\ \A q \in Pulls : q \in Queue \/ Settled(q)
  BY QueueIsOwed
<1>4. TypeOK'
  BY <1>1, <1>2, <1>3, SMT DEF Plan, EndRun, IInv, TypeOK, Steps
<1>5. VersionsFollowMerges' /\ TagsOnSettled'
  BY <1>1, <1>2 DEF IInv, VersionsFollowMerges, TagsOnSettled
<1>6. QueueComplete'
  <2>1. todo' = {} \/ (queue' = Queue /\ todo' = Queue)
    BY DEF Plan, EndRun
  <2>2. ASSUME NEW p \in Queue, NEW t \in TaggedPulls PROVE t <= p
    <3>1. p \in Pulls /\ ~ Settled(p)
      BY <1>3
    <3>2. ~ (p < t)
      BY <3>1 DEF IInv, TagsOnSettled
    <3>3. p \in Nat /\ t \in Nat
      <4>1. TaggedPulls \subseteq Pulls \cup {0}
        BY SMT DEF TaggedPulls, IInv, TypeOK
      <4> QED
        BY <3>1, <4>1, TodoIsPulls, SMT DEF IInv
    <3> QED
      BY <3>2, <3>3, SMT
  <2> QED
    BY <1>2, <1>3, <2>1, <2>2 DEF QueueComplete
<1>7. JobMayRelease'
  BY SMT DEF JobMayRelease, Plan, EndRun
<1> QED
  BY <1>1, <1>2, <1>4, <1>5, <1>6, <1>7 DEF IInv

LEMMA JobKeeps == ASSUME IInv, Job PROVE IInv'
<1>1. /\ UNCHANGED <<merged, optedOut, released, unlisted, tags, pending, trigger>>
      /\ step = "job"
  BY DEF Job, pullVars, GoTo, EndJob
<1>2. Listed' = Listed /\ Pulls' = Pulls /\ TaggedPulls' = TaggedPulls
  BY <1>1 DEF Listed, Pulls, TaggedPulls
<1>3. \/ EndJob
      \/ Earlier \subseteq Listed /\ step' = "reserve" /\ UNCHANGED <<queue, todo>>
  BY DEF Job, GoTo
<1>4. todo' \subseteq todo /\ (todo' # {} => queue' = queue)
  BY <1>3, EndJobLeaves DEF IInv
<1>5. TypeOK'
  BY <1>1, <1>2, <1>3, EndJobLeaves, SMT DEF IInv, TypeOK, Steps
<1>6. VersionsFollowMerges' /\ TagsOnSettled' /\ QueueComplete'
  BY <1>1, <1>2, <1>4, OrderKept
<1>7. JobMayRelease'
  <2>1. CASE EndJob
    BY <2>1, EndJobLeaves, SMT DEF IInv, JobMayRelease
  <2>2. CASE Earlier \subseteq Listed /\ step' = "reserve" /\ UNCHANGED <<queue, todo>>
    BY <1>2, <2>2, SMT DEF JobMayRelease, Earlier
  <2> QED
    BY <1>3, <2>1, <2>2
<1> QED
  BY <1>1, <1>2, <1>5, <1>6, <1>7 DEF IInv

\* All that merged before the pull request whose job is past its check is settled.
LEMMA OldestIsNext ==
    ASSUME IInv, step \in {"reserve", "create"}
    PROVE /\ Oldest \in todo /\ Oldest \in Pulls
          /\ \A q \in todo : Oldest <= q
          /\ \A t \in TaggedPulls : t <= Oldest
          /\ \A q \in Pulls : q < Oldest => Settled(q)
<1>1. TypeOK /\ todo # {} /\ Earlier \subseteq Listed
  BY SMT DEF IInv, TypeOK, JobMayRelease
<1>2. Oldest \in todo /\ \A q \in todo : Oldest <= q
  BY <1>1, OldestIsLeast
<1>3. todo \subseteq Pulls /\ Pulls \subseteq Nat
  BY <1>1, TodoIsPulls
<1>4. \A t \in TaggedPulls : t <= Oldest
  BY <1>2 DEF IInv, QueueComplete
<1>5. ASSUME NEW q \in Pulls, q < Oldest PROVE Settled(q)
  <2>1. q \in queue \/ Settled(q)
    BY <1>2, <1>5 DEF IInv, QueueComplete
  <2>2. q \notin todo
    BY <1>2, <1>3, <1>5, SMT
  <2>3. q \in queue => q \in Listed
    BY <1>1, <2>2 DEF Earlier
  <2>4. q <= q
    BY <1>3, SMT
  <2> QED
    BY <2>1, <2>3, <2>4, Zenon DEF Settled
<1> QED
  BY <1>2, <1>3, <1>4, <1>5

LEMMA ReserveKeeps == ASSUME IInv, Reserve PROVE IInv'
<1>1. /\ UNCHANGED <<merged, optedOut, released, unlisted, pending, trigger>>
      /\ step = "reserve"
  BY DEF Reserve, pullVars, GoTo, EndJob
<1>2. Listed' = Listed /\ Pulls' = Pulls /\ \A p : Settled(p)' <=> Settled(p)
  BY <1>1 DEF Listed, Pulls, Settled
<1>3. /\ Oldest \in todo /\ Oldest \in Pulls
      /\ \A q \in todo : Oldest <= q
      /\ \A t \in TaggedPulls : t <= Oldest
      /\ \A q \in Pulls : q < Oldest => Settled(q)
  BY <1>1, OldestIsNext
<1>4. /\ tags \in Seq(Pulls \cup {0}) /\ TaggedPulls \subseteq Pulls \cup {0}
      /\ Pulls \subseteq Nat /\ todo \subseteq Pulls
  BY TodoIsPulls, SMT DEF IInv, TypeOK, TaggedPulls
<1>5. \/ EndJob /\ tags' = tags
      \/ EndJob /\ Oldest \notin TaggedPulls /\ tags' = Append(tags, Oldest)
      \/ step' = "create" /\ UNCHANGED <<queue, todo, tags>> /\ Oldest \in TaggedPulls
      \/ /\ step' = "create" /\ UNCHANGED <<queue, todo>>
         /\ Oldest \notin TaggedPulls /\ tags' = Append(tags, Oldest)
  BY DEF Reserve, GoTo
<1>6. /\ todo' \subseteq todo /\ (todo' # {} => queue' = queue)
  BY <1>5, EndJobLeaves DEF IInv
<1>7. CASE tags' = tags
  <2>1. TaggedPulls' = TaggedPulls
    BY <1>7 DEF TaggedPulls
  <2>2. VersionsFollowMerges' /\ TagsOnSettled' /\ QueueComplete'
    BY <1>1, <1>2, <1>6, <1>7, OrderKept
  <2>3. TypeOK'
    BY <1>1, <1>2, <1>5, <1>7, EndJobLeaves, SMT DEF IInv, TypeOK, Steps
  <2>4. JobMayRelease'
    <3>1. CASE EndJob
      BY <3>1, EndJobLeaves, SMT DEF IInv, JobMayRelease
    <3>2. CASE UNCHANGED <<queue, todo>> /\ Oldest \in TaggedPulls
      BY <1>1, <1>2, <2>1, <3>2, SMT DEF IInv, JobMayRelease, Earlier, Oldest
    <3> QED
      BY <1>5, <1>7, <3>1, <3>2
  <2> QED
    BY <1>1, <1>2, <2>1, <2>2, <2>3, <2>4 DEF IInv
<1>8. CASE Oldest \notin TaggedPulls /\ tags' = Append(tags, Oldest)
  <2>1. TaggedPulls' = TaggedPulls \cup {Oldest} /\ tags' \in Seq(Pulls \cup {0})
    BY <1>3, <1>4, <1>8, SMT DEF TaggedPulls
  <2>2. VersionsFollowMerges'
    <3>1. ASSUME NEW v \in DOMAIN tags', NEW w \in DOMAIN tags', v < w
          PROVE tags'[v] < tags'[w]
      <4>1. v \in DOMAIN tags /\ tags'[v] = tags[v] /\ tags[v] \in Nat
        <5>1. v \in DOMAIN tags /\ tags'[v] = tags[v]
          BY <1>4, <1>8, <3>1, SMT
        <5>2. tags[v] \in Pulls \cup {0}
          BY <1>4, <5>1, SMT
        <5>3. Pulls \cup {0} \subseteq Nat
          BY <1>4, SMT
        <5> QED
          BY <5>1, <5>2, <5>3
      <4>2. CASE w \in DOMAIN tags
        <5>1. tags'[w] = tags[w]
          BY <1>4, <1>8, <4>2, SMT
        <5> QED
          BY <3>1, <4>1, <4>2, <5>1 DEF IInv, VersionsFollowMerges
      <4>3. CASE w \notin DOMAIN tags
        <5>1. tags'[w] = Oldest
          BY <1>4, <1>8, <4>3, SMT
        <5>2. tags[v] <= Oldest /\ tags[v] # Oldest
          BY <1>3, <1>8, <4>1 DEF TaggedPulls
        <5> QED
          BY <1>3, <1>4, <4>1, <5>1, <5>2, SMT
      <4> QED
        BY <4>2, <4>3
    <3> QED
      BY <3>1 DEF VersionsFollowMerges
  <2>3. TagsOnSettled'
    BY <1>2, <1>3, <2>1 DEF IInv, TagsOnSettled
  <2>4. QueueComplete'
    BY <1>2, <1>3, <1>6, <2>1 DEF IInv, QueueComplete
  <2>5. TypeOK'
    BY <1>1, <1>2, <1>5, <2>1, EndJobLeaves, SMT DEF IInv, TypeOK, Steps
  <2>6. JobMayRelease'
    <3>1. CASE EndJob
      BY <3>1, EndJobLeaves, SMT DEF IInv, JobMayRelease
    <3>2. CASE UNCHANGED <<queue, todo>>
      BY <1>1, <1>2, <2>1, <3>2, SMT DEF IInv, JobMayRelease, Earlier, Oldest
    <3> QED
      BY <1>5, <3>1, <3>2
  <2> QED
    BY <1>1, <1>2, <2>1, <2>2, <2>3, <2>4, <2>5, <2>6 DEF IInv
<1> QED
  BY <1>5, <1>7, <1>8

LEMMA CreateKeeps == ASSUME IInv, Create PROVE IInv'
<1>1. /\ UNCHANGED <<merged, optedOut, tags, pending, trigger>>
      /\ step = "create" /\ EndJob
      /\ released' \in {released, released \cup {Oldest}}
      /\ unlisted' \subseteq released' /\ Listed' = Listed
  BY SMT DEF Create, pullVars, EndJob, Listed, IInv, TypeOK
<1>2. Pulls' = Pulls /\ TaggedPulls' = TaggedPulls
  BY <1>1 DEF Pulls, TaggedPulls
<1>3. /\ todo' \subseteq todo /\ (todo' # {} => queue' = queue)
      /\ step' \in {"off", "job"}
  BY <1>1, EndJobLeaves DEF IInv
<1>4. Oldest \in Pulls /\ Oldest \in TaggedPulls
  BY <1>1, OldestIsNext DEF IInv, JobMayRelease
<1>5. TypeOK'
  BY <1>1, <1>2, <1>4, EndJobLeaves, SMT DEF IInv, TypeOK, Steps
<1>6. VersionsFollowMerges' /\ TagsOnSettled' /\ QueueComplete'
  BY <1>1, <1>3, OrderKept
<1>7. JobMayRelease'
  BY <1>3, SMT DEF JobMayRelease
<1>8. released' \subseteq TaggedPulls'
  BY <1>1, <1>2, <1>4 DEF IInv
<1> QED
  BY <1>1, <1>5, <1>6, <1>7, <1>8 DEF IInv

LEMMA NextIInv == ASSUME IInv, [Next]_vars PROVE IInv'
<1>1. CASE Merge \/ Appear \/ \E p \in Pulls : Dispatch(p) \/ OptOut(p)
  BY <1>1, AroundTheRun
<1>2. CASE Start \/ Cancel
  BY <1>2, StartAndEnd
<1>3. CASE Plan
  BY <1>3, PlanKeeps
<1>4. CASE Job
  BY <1>4, JobKeeps
<1>5. CASE Reserve
  BY <1>5, ReserveKeeps
<1>6. CASE Create
  BY <1>6, CreateKeeps
<1>7. CASE UNCHANGED vars
  BY <1>7 DEF vars, pullVars, runVars, IInv, TypeOK, Pulls, Listed, TaggedPulls,
     VersionsFollowMerges, TagsOnSettled, QueueComplete, Settled, JobMayRelease, Earlier, Oldest
<1> QED
  BY <1>1, <1>2, <1>3, <1>4, <1>5, <1>6, <1>7 DEF Next

LEMMA InitIInv == ASSUME HasRelease, Init PROVE IInv
<1>1. /\ merged = 0 /\ optedOut = {} /\ released = {0} /\ tags = <<0>>
      /\ unlisted = {} /\ queue = {} /\ todo = {}
      /\ pending = None /\ trigger = 0 /\ step = "off"
  BY DEF Init, HasRelease
<1>2. Pulls = {} /\ Listed = {0}
  BY <1>1, SMT DEF Pulls, Listed
<1>3. TaggedPulls = {0} /\ DOMAIN tags = {1} /\ tags \in Seq({0})
  BY <1>1, SMT DEF TaggedPulls
<1>4. TypeOK
  BY <1>1, <1>2, <1>3, MergesAssumption, SMT DEF TypeOK, Steps
<1>5. VersionsFollowMerges
  BY <1>3, SMT DEF VersionsFollowMerges
<1> QED
  BY <1>1, <1>2, <1>3, <1>4, <1>5, SMT
  DEF IInv, TagsOnSettled, QueueComplete, JobMayRelease

\* The inductive invariant holds of every state, for any number of merges.
THEOREM InvHolds == ASSUME HasRelease PROVE Spec => []IInv
<1>1. Init => IInv
  BY InitIInv
<1>2. IInv /\ [Next]_vars => IInv'
  BY NextIInv
<1> QED
  BY <1>1, <1>2, PTL DEF Spec

\* A later merge never has a lower version (release.yml "Reserve release tag").
THEOREM VersionsInMergeOrder == ASSUME HasRelease PROVE Spec => []VersionsFollowMerges
<1>1. IInv => VersionsFollowMerges
  BY DEF IInv
<1> QED
  BY <1>1, InvHolds, PTL

\* A Release published is the abstract one's: newer than all before it, and of
\* the oldest pull request owed one.
LEMMA CreateReleases ==
    ASSUME IInv, Create
    PROVE Order!Next \/ UNCHANGED Order!vars
<1>1. /\ UNCHANGED <<merged, optedOut>> /\ step = "create"
      /\ released' \in {released, released \cup {Oldest}}
  BY SMT DEF Create, pullVars
<1>2. CASE released' = released
  BY <1>1, <1>2 DEF Order!vars
<1>3. CASE released' = released \cup {Oldest} /\ Oldest \notin released
  <2>1. /\ Oldest \in Pulls
        /\ \A t \in TaggedPulls : t <= Oldest
        /\ \A q \in Pulls : q < Oldest => Settled(q)
    BY <1>1, OldestIsNext
  <2>2. /\ released \subseteq TaggedPulls /\ Listed \subseteq released
        /\ released \subseteq Nat /\ Pulls \subseteq Nat
    BY TodoIsPulls, SMT DEF IInv, Listed, TypeOK
  <2>3. ASSUME NEW r \in released PROVE r < Oldest
    BY <1>3, <2>1, <2>2, SMT
  <2>4. ASSUME NEW q \in Order!Owed PROVE Oldest <= q
    <3>1. q \in Pulls /\ q \notin optedOut /\ \A r \in released : r < q
      BY DEF Order!Owed, Order!Pulls, Pulls
    <3>2. ASSUME NEW r \in Listed PROVE ~ (q <= r)
      BY <2>2, <3>1, SMT
    <3>3. ~ Settled(q)
      BY <3>1, <3>2, Zenon DEF Settled
    <3> QED
      BY <2>1, <2>2, <3>1, <3>3, SMT
  <2>5. Order!Release(Oldest) /\ Oldest \in Order!Pulls
    BY <1>1, <1>3, <2>1, <2>3, <2>4 DEF Order!Release, Order!Pulls, Pulls
  <2> QED
    BY <2>5 DEF Order!Next
<1> QED
  BY <1>1, <1>2, <1>3

\* The workflow implements the release order: whatever fails, each Release is of
\* the oldest pull request still owed one.
THEOREM ReleasesInOrder == ASSUME HasRelease PROVE Spec => ReleasesOldestFirst
<1>1. Init => Order!Init
  BY DEF Init, HasRelease, Order!Init
<1>2. ASSUME IInv, [Next]_vars PROVE [Order!Next]_(Order!vars)
  <2>1. CASE Merge
    BY <2>1 DEF Merge, Order!Next, Order!Merge
  <2>2. CASE \E p \in Pulls : OptOut(p)
    BY <2>2 DEF OptOut, Pulls, Order!Next, Order!OptOut, Order!Pulls
  <2>3. CASE Create
    BY <1>2, <2>3, CreateReleases
  <2>4. CASE Appear \/ Start \/ Cancel \/ Plan \/ Job \/ Reserve \/ \E p \in Pulls : Dispatch(p)
    BY <2>4 DEF Appear, Start, Cancel, Plan, Job, Reserve, Dispatch, pullVars, Order!vars
  <2>5. CASE UNCHANGED vars
    BY <2>5 DEF vars, pullVars, Order!vars
  <2> QED
    BY <1>2, <2>1, <2>2, <2>3, <2>4, <2>5 DEF Next
<1> QED
  BY <1>1, <1>2, InvHolds, PTL DEF Spec, ReleasesOldestFirst, Order!Spec
=============================================================================
