---------------------------- MODULE ReleaseQueue ----------------------------
(***************************************************************************)
(* The release workflow's runs (.github/workflows/release.yml) and the     *)
(* queue each of them works through (.github/scripts/release_queue.py).    *)
(* A merge into main starts a run, but GitHub keeps one running and one    *)
(* pending run and cancels the pending one a newer replaces; a job fails   *)
(* at any of its steps and the next pull request's job follows all the     *)
(* same; a tag is pushed before its Release is published; and the list of  *)
(* Releases lags behind.  So a run lists every pull request still owed a   *)
(* Release and releases them oldest first.                                 *)
(*                                                                         *)
(* Pull requests are numbered by their merge's place on main, which their  *)
(* tags' histories follow.                                                 *)
(***************************************************************************)
EXTENDS Naturals, Sequences

CONSTANTS
    MaxMerges,     \* bound on the merges modelled
    FirstRelease,  \* whether the repository may have no Release yet
    None           \* no pending run

ASSUME MergesAssumption == MaxMerges \in Nat /\ None \notin Nat
ASSUME FirstAssumption == FirstRelease \in BOOLEAN

VARIABLES
    merged,    \* how many pull requests have merged
    optedOut,  \* those titled [skip-release], and Dependabot's
    released,  \* those with a published Release
    unlisted,  \* of these, the ones the list of Releases does not show yet
    tags,      \* the pull request each version tag is of, by version
    pending,   \* the pull request whose run is pending
    trigger,   \* the one whose run is running
    step,      \* where that run is
    queue,     \* the pull requests it has to release
    todo       \* those of them whose job has not ended

pullVars == <<merged, optedOut>>
runVars == <<pending, trigger, step, queue, todo>>
vars == <<pullVars, released, unlisted, tags, runVars>>

Pulls == 1..merged
Steps == {"off", "plan", "job", "reserve", "create"}

\* gh api releases
Listed == released \ unlisted

TaggedPulls == {tags[v] : v \in DOMAIN tags}

Init ==
    /\ merged = 0 /\ optedOut = {}
    /\ \/ released = {0} /\ tags = <<0>>
       \/ FirstRelease /\ released = {} /\ tags = <<>>
    /\ unlisted = {}
    /\ pending = None /\ trigger = 0 /\ step = "off"
    /\ queue = {} /\ todo = {}

-----------------------------------------------------------------------------
(* What starts runs.                                                         *)

\* A merge starts a run, in place of one that is pending.
Merge ==
    /\ merged < MaxMerges
    /\ merged' = merged + 1
    /\ optedOut' \in {optedOut, optedOut \cup {merged + 1}}
    /\ pending' = merged + 1
    /\ UNCHANGED <<released, unlisted, tags, trigger, step, queue, todo>>

\* A person starts one for any pull request.
Dispatch(p) ==
    /\ pending' = p
    /\ UNCHANGED <<pullVars, released, unlisted, tags, trigger, step, queue, todo>>

\* The marker is put in a merged pull request's title.
OptOut(p) ==
    /\ optedOut' = optedOut \cup {p}
    /\ UNCHANGED <<merged, released, unlisted, tags, runVars>>

\* The list of Releases catches up.
Appear ==
    /\ unlisted # {} /\ unlisted' = {}
    /\ UNCHANGED <<pullVars, released, tags, runVars>>

Start ==
    /\ step = "off" /\ pending # None
    /\ step' = "plan" /\ trigger' = pending /\ pending' = None
    /\ UNCHANGED <<pullVars, released, unlisted, tags, queue, todo>>

\* A run that is cancelled, or whose runner is lost.
EndRun == step' = "off" /\ queue' = {} /\ todo' = {} /\ UNCHANGED <<pending, trigger>>
Cancel == step # "off" /\ EndRun /\ UNCHANGED <<pullVars, released, unlisted, tags>>

-----------------------------------------------------------------------------
(* The plan job: release_queue.py.                                           *)

\* The newest version in the list of Releases (0 with none).
cutoffVersion ==
    LET versions == {v \in DOMAIN tags : tags[v] \in Listed}
    IN  IF versions = {} THEN 0 ELSE CHOOSE v \in versions : \A w \in versions : w <= v

\* Merged, not opted out, with no Release of its own and not in the cutoff's.
owed(p) ==
    /\ p \in Pulls \ (optedOut \cup Listed)
    /\ cutoffVersion # 0 => p > tags[cutoffVersion]

\* Before the first Release only the run's own pull request is queued.
Queue == {p \in Pulls : owed(p) /\ (cutoffVersion = 0 => p = trigger)}

Plan ==
    /\ step = "plan"
    /\ \/ Queue = {} /\ EndRun
       \/ /\ Queue # {} /\ step' = "job" /\ queue' = Queue /\ todo' = Queue
          /\ UNCHANGED <<pending, trigger>>
    /\ UNCHANGED <<pullVars, released, unlisted, tags>>

-----------------------------------------------------------------------------
(* The release jobs, one pull request at a time.                             *)

\* Mutant of Oldest: the newest merge goes first.
NewestFirst == CHOOSE p \in todo : \A q \in todo : q <= p

\* The pull request whose job it is, and those before it in the queue.
Oldest == CHOOSE p \in todo : \A q \in todo : p <= q
Earlier == queue \ todo

\* The job is over, in whatever way, and the next one starts.
EndJob ==
    /\ todo' = todo \ {Oldest}
    /\ IF todo' = {} THEN step' = "off" /\ queue' = {} ELSE step' = "job" /\ UNCHANGED queue
    /\ UNCHANGED <<pending, trigger>>

GoTo(next) == step' = next /\ UNCHANGED <<pending, trigger, queue, todo>>

\* Mutant of Job: the earlier pull requests' Releases are not asked for.
JobUnguarded ==
    /\ step = "job"
    /\ \/ Oldest \notin optedOut \cup Listed /\ GoTo("reserve")
       \/ EndJob
    /\ UNCHANGED <<pullVars, released, unlisted, tags>>

\* It reads the title and the Releases: an opted out or released pull request
\* is left alone, and one that would overtake another fails, as does a job whose
\* calls fail.
Job ==
    /\ step = "job"
    /\ \/ Oldest \notin optedOut \cup Listed /\ Earlier \subseteq Listed /\ GoTo("reserve")
       \/ EndJob
    /\ UNCHANGED <<pullVars, released, unlisted, tags>>

\* Mutant of Reserve: a tag left by an earlier run is not looked for.
ReserveAnew ==
    /\ step = "reserve"
    /\ tags' = Append(tags, Oldest) /\ (GoTo("create") \/ EndJob)
    /\ UNCHANGED <<pullVars, released, unlisted>>

\* Pushes the next version's tag, or takes the one an earlier run left: a push
\* that failed though GitHub took it is found by the next attempt.
Reserve ==
    /\ step = "reserve"
    /\ \/ Oldest \in TaggedPulls /\ GoTo("create") /\ UNCHANGED tags
       \/ Oldest \notin TaggedPulls /\ tags' = Append(tags, Oldest) /\ (GoTo("create") \/ EndJob)
       \/ EndJob /\ UNCHANGED tags
    /\ UNCHANGED <<pullVars, released, unlisted>>

\* Publishes the Release, unless the tag has one already.
Create ==
    /\ step = "create"
    /\ \/ /\ released' = released \cup {Oldest}
          /\ unlisted' = unlisted \cup ({Oldest} \ released)
       \/ UNCHANGED <<released, unlisted>>
    /\ EndJob
    /\ UNCHANGED <<pullVars, tags>>

Next ==
    \/ Merge \/ Appear \/ Start \/ Cancel \/ Plan \/ Job \/ Reserve \/ Create
    \/ \E p \in Pulls : Dispatch(p) \/ OptOut(p)

Spec == Init /\ [][Next]_vars

-----------------------------------------------------------------------------

TypeOK ==
    /\ merged \in 0..MaxMerges /\ optedOut \subseteq Pulls
    /\ released \subseteq Pulls \cup {0} /\ unlisted \subseteq released
    /\ tags \in Seq(Pulls \cup {0})
    /\ pending \in Pulls \cup {None} /\ trigger \in Pulls \cup {0} /\ step \in Steps
    /\ queue \subseteq Pulls /\ todo \subseteq queue
    /\ step \in {"off", "plan"} => queue = {}
    /\ step \in {"job", "reserve", "create"} => todo # {}

\* Whatever is cancelled or fails and however the list of Releases lags, each
\* Release is of the oldest pull request still owed one, so that none is passed
\* over: one inside a newer Release's tag is never queued again.
Order == INSTANCE ReleaseOrder WITH merged <- merged, optedOut <- optedOut, released <- released
ReleasesOldestFirst == Order!Spec

\* A later merge never has a lower version, nor any pull request two tags: a tag
\* whose run failed before its Release was published is taken up again
\* (release.yml "Reusing tag") and the versions beside it still follow.
VersionsFollowMerges ==
    \A v, w \in DOMAIN tags : v < w => tags[v] < tags[w]

-----------------------------------------------------------------------------
(* The inductive invariant behind both, for a repository that has a Release.  *)

\* What a newer Release's history settles: its own pull request and all before.
Settled(p) == p \in optedOut \/ \E r \in Listed : p <= r

\* A tag goes on only when all merged before it is settled.
TagsOnSettled ==
    \A t \in TaggedPulls : \A p \in Pulls : p < t => Settled(p)

\* The queue leaves out only what is settled, and has nothing older than a tag.
QueueComplete ==
    \A p \in todo :
        /\ \A t \in TaggedPulls : t <= p
        /\ \A q \in Pulls : q < p => q \in queue \/ Settled(q)

\* Where the job is past its check, all queued before it is released, and where
\* it is past the tag, it has one.
JobMayRelease ==
    /\ step \in {"reserve", "create"} => Earlier \subseteq Listed
    /\ step = "create" => Oldest \in TaggedPulls

IInv ==
    /\ TypeOK
    /\ 0 \in Listed
    /\ released \subseteq TaggedPulls
    /\ VersionsFollowMerges
    /\ TagsOnSettled
    /\ QueueComplete
    /\ JobMayRelease
=============================================================================
