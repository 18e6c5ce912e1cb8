--------------------------- MODULE BuildingLabel ---------------------------
(***************************************************************************)
(* The sandcastle:building label as a lock between Sandcastle runs         *)
(* (.sandcastle/lib/building.mts).  A run claims an issue or a hand-off    *)
(* pull request by reading its labels and then adding the label, two gh    *)
(* round trips; it releases it when the build ends, retries failed         *)
(* releases at the next round and at exit, and clears at startup the label *)
(* of a run that died.                                                     *)
(*                                                                         *)
(* Every gh call is one action.  Time is kept as ages (of a label's last   *)
(* "labeled" event and of a run's claim) that stop at MaxAge + 1, "older   *)
(* than BUILDING_LABEL_MAX_AGE_MS", so no clock needs a bound.             *)
(***************************************************************************)
EXTENDS Naturals, FiniteSets

CONSTANTS
    Runs,              \* the Sandcastle processes (full, follow-up, local)
    Issues,            \* issues that can carry the label
    PullRequests,      \* hand-off pull requests that can carry it
    None,              \* no target
    MaxAge,            \* BUILDING_LABEL_MAX_AGE_MS, in ticks
    BuildMax,          \* the longest a build or a claim can last, in ticks
    AddErrors,         \* what a failing label add can have done
    RemoveErrors,      \* what a failing label removal can have done
    RoundTripsOverlap  \* whether two runs can be between a label's read and
                       \* its write at once, and the clock move while a
                       \* release loop runs

Targets == Issues \cup PullRequests

\* A failed gh write either left GitHub as it was or had been applied anyway
\* (a timeout, a proxy's 502).
ErrorEffects == {"lost", "applied"}

ASSUME TargetAssumption == None \notin Targets /\ Issues \cap PullRequests = {}
ASSUME AgeAssumption == MaxAge \in Nat /\ BuildMax \in Nat /\ BuildMax <= MaxAge
ASSUME ErrorAssumption ==
    /\ AddErrors \subseteq ErrorEffects
    /\ RemoveErrors \subseteq ErrorEffects
    /\ RoundTripsOverlap \in BOOLEAN

Old == MaxAge + 1
Ages == 0..Old

VARIABLES
    labelled,  \* the targets that carry the label on GitHub
    labelAge,  \* the age of each label's last "labeled" event (0 with no label)
    step,      \* where each run is
    at,        \* the target whose label a run has read and is about to write
    todo,      \* what is left of the list a run is walking
    stale,     \* the targets whose label was too old when a run started
    marked,    \* the targets a run remembers having marked
    heldAge,   \* how long ago it claimed each of them (0 for the others)
    building   \* the targets a run is building (or passing over) now

vars == <<labelled, labelAge, step, at, todo, stale, marked, heldAge, building>>

\* The two loops of clearStaleBuildingLabels, and of releaseAllBuildingLabels.
Clearing == {"staleIssues", "stalePulls"}
Releasing == {"round", "exit"}
Steps == {"off", "idle", "add", "undo"} \cup Clearing \cup Releasing

Inc(age) == IF age < Old THEN age + 1 ELSE age

\* r is between reading t's label and writing it.
InWindow(r, t) == at[r] = t

\* With round trips that do not overlap, r enters t's window only when no
\* other run is in it.
MayEnter(r, t) == RoundTripsOverlap \/ \A q \in Runs \ {r} : ~InWindow(q, t)

-----------------------------------------------------------------------------

Init ==
    /\ labelled = {}
    /\ labelAge = [t \in Targets |-> 0]
    /\ step = [r \in Runs |-> "off"]
    /\ at = [r \in Runs |-> None]
    /\ todo = [r \in Runs |-> {}]
    /\ stale = [r \in Runs |-> {}]
    /\ marked = [r \in Runs |-> {}]
    /\ heldAge = [r \in Runs |-> [t \in Targets |-> 0]]
    /\ building = [r \in Runs |-> {}]

\* A gh edit that adds the label: GitHub records a "labeled" event only when
\* the target did not carry it.
PutLabel(t) ==
    /\ labelled' = labelled \cup {t}
    /\ labelAge' = IF t \in labelled THEN labelAge ELSE [labelAge EXCEPT ![t] = 0]
    /\ stale' = IF t \in labelled THEN stale ELSE [q \in Runs |-> stale[q] \ {t}]

DropLabel(t) ==
    /\ labelled' = labelled \ {t}
    /\ labelAge' = [labelAge EXCEPT ![t] = 0]

KeepLabels == UNCHANGED <<labelled, labelAge>>

\* r remembers only the targets in kept from now on.
Remember(r, kept) ==
    /\ marked' = [marked EXCEPT ![r] = kept]
    /\ heldAge' = [heldAge EXCEPT ![r] = [t \in Targets |-> IF t \in kept THEN @[t] ELSE 0]]

\* Mutant of Release: the target is forgotten before the removal is tried.
ReleaseForgetsFirst(r, t) ==
    /\ Remember(r, marked[r] \ {t})
    /\ DropLabel(t) \/ ("lost" \in RemoveErrors /\ KeepLabels)

\* releaseBuildingLabel: the run forgets the target only once the removal
\* returned; a failed one may still have removed the label.
Release(r, t) ==
    \/ DropLabel(t) /\ Remember(r, marked[r] \ {t})
    \/ "lost" \in RemoveErrors /\ KeepLabels /\ UNCHANGED <<marked, heldAge>>
    \/ "applied" \in RemoveErrors /\ DropLabel(t) /\ UNCHANGED <<marked, heldAge>>

-----------------------------------------------------------------------------
(* Startup: clearStaleBuildingLabels.                                      *)

\* Lists the labelled issues; "now" is read here, once for both loops.
Start(r) ==
    /\ step[r] = "off"
    /\ step' = [step EXCEPT ![r] = "staleIssues"]
    /\ todo' = [todo EXCEPT ![r] = labelled \cap Issues]
    /\ stale' = [stale EXCEPT ![r] = {t \in labelled : labelAge[t] > MaxAge}]
    /\ UNCHANGED <<labelled, labelAge, at, marked, heldAge, building>>

\* Reads one listed target's timeline: a label that is old enough is removed
\* next, any other is left alone.
CheckStale(r, t) ==
    /\ step[r] \in Clearing /\ at[r] = None /\ t \in todo[r]
    /\ IF t \in stale[r]
       THEN MayEnter(r, t) /\ at' = [at EXCEPT ![r] = t] /\ UNCHANGED todo
       ELSE todo' = [todo EXCEPT ![r] = @ \ {t}] /\ UNCHANGED at
    /\ UNCHANGED <<labelled, labelAge, step, stale, marked, heldAge, building>>

\* Removes it.  A removal that fails throws, and the run ends.
ClearStale(r) ==
    /\ step[r] \in Clearing /\ at[r] # None
    /\ at' = [at EXCEPT ![r] = None]
    /\ \/ /\ DropLabel(at[r])
          /\ todo' = [todo EXCEPT ![r] = @ \ {at[r]}]
          /\ UNCHANGED <<step, stale>>
       \/ /\ \/ "lost" \in RemoveErrors /\ KeepLabels
             \/ "applied" \in RemoveErrors /\ DropLabel(at[r])
          /\ step' = [step EXCEPT ![r] = "off"]
          /\ todo' = [todo EXCEPT ![r] = {}]
          /\ stale' = [stale EXCEPT ![r] = {}]
    /\ UNCHANGED <<marked, heldAge, building>>

\* Mutant of EndClearing: pull requests are left out, as gh issue list does.
EndClearingIssuesOnly(r) ==
    /\ step[r] \in Clearing /\ at[r] = None /\ todo[r] = {}
    /\ step' = [step EXCEPT ![r] = "idle"]
    /\ stale' = [stale EXCEPT ![r] = {}]
    /\ UNCHANGED <<labelled, labelAge, at, todo, marked, heldAge, building>>

\* The issues are done: lists the labelled pull requests; those done too, the
\* run goes on to its rounds.
EndClearing(r) ==
    /\ step[r] \in Clearing /\ at[r] = None /\ todo[r] = {}
    /\ IF step[r] = "staleIssues"
       THEN /\ step' = [step EXCEPT ![r] = "stalePulls"]
            /\ todo' = [todo EXCEPT ![r] = labelled \cap PullRequests]
            /\ UNCHANGED stale
       ELSE /\ step' = [step EXCEPT ![r] = "idle"]
            /\ stale' = [stale EXCEPT ![r] = {}]
            /\ UNCHANGED todo
    /\ UNCHANGED <<labelled, labelAge, at, marked, heldAge, building>>

-----------------------------------------------------------------------------
(* A claim: claimBuildingLabel and claimPullRequestBuildingLabel.          *)

\* Mutant of ReadLabels: claims without reading the labels again.
ReadLabelsUnchecked(r, t) ==
    /\ step[r] = "idle" /\ t \notin building[r]
    /\ MayEnter(r, t)
    /\ step' = [step EXCEPT ![r] = "add"]
    /\ at' = [at EXCEPT ![r] = t]
    /\ marked' = [marked EXCEPT ![r] = @ \cup {t}]
    /\ heldAge' = [heldAge EXCEPT ![r][t] = 0]
    /\ UNCHANGED <<labelled, labelAge, todo, stale, building>>

\* Reads the labels.  A target that carries the label is left to the run that
\* marked it, which changes nothing here; any other is remembered before the
\* add.
ReadLabels(r, t) ==
    /\ step[r] = "idle" /\ t \notin building[r]
    /\ t \notin labelled
    /\ MayEnter(r, t)
    /\ step' = [step EXCEPT ![r] = "add"]
    /\ at' = [at EXCEPT ![r] = t]
    /\ marked' = [marked EXCEPT ![r] = @ \cup {t}]
    /\ heldAge' = [heldAge EXCEPT ![r][t] = 0]
    /\ UNCHANGED <<labelled, labelAge, todo, stale, building>>

AddLabel(r) ==
    /\ step[r] = "add"
    /\ \/ /\ PutLabel(at[r])
          /\ step' = [step EXCEPT ![r] = "idle"]
          /\ at' = [at EXCEPT ![r] = None]
          /\ building' = [building EXCEPT ![r] = @ \cup {at[r]}]
       \/ /\ \/ "lost" \in AddErrors /\ KeepLabels /\ UNCHANGED stale
             \/ "applied" \in AddErrors /\ PutLabel(at[r])
          /\ step' = [step EXCEPT ![r] = "undo"]
          /\ UNCHANGED <<at, building>>
    /\ UNCHANGED <<todo, marked, heldAge>>

\* A failed add is undone at once; an undo that fails leaves it remembered.
UndoClaim(r) ==
    /\ step[r] = "undo"
    /\ Release(r, at[r])
    /\ step' = [step EXCEPT ![r] = "idle"]
    /\ at' = [at EXCEPT ![r] = None]
    /\ UNCHANGED <<todo, stale, building>>

\* The build is over, however it ended, and buildIssue's finally releases it.
EndBuild(r, t) ==
    /\ step[r] = "idle" /\ t \in building[r]
    /\ building' = [building EXCEPT ![r] = @ \ {t}]
    /\ Release(r, t)
    /\ UNCHANGED <<step, at, todo, stale>>

-----------------------------------------------------------------------------
(* releaseAllBuildingLabels, between rounds and from the exit listener.     *)

\* Mutant of Young: everything still remembered is released, however old.
AllMarked(r) == marked[r]

\* "now" is read once: what was claimed longer ago than MaxAge is forgotten,
\* and the rest is walked.
Young(r) == {t \in marked[r] : heldAge[r][t] <= MaxAge}

StartRound(r) ==
    /\ step[r] = "idle" /\ building[r] = {} /\ marked[r] # {}
    /\ step' = [step EXCEPT ![r] = "round"]
    /\ Remember(r, Young(r))
    /\ todo' = [todo EXCEPT ![r] = Young(r)]
    /\ UNCHANGED <<labelled, labelAge, at, stale, building>>

\* The run ends, is told to (Ctrl-C, SIGTERM) or crashes on an error: signals
\* wait for the synchronous gh calls, and any build going on ends with it.
Exit(r) ==
    /\ step[r] = "idle"
    /\ step' = [step EXCEPT ![r] = "exit"]
    /\ building' = [building EXCEPT ![r] = {}]
    /\ Remember(r, Young(r))
    /\ todo' = [todo EXCEPT ![r] = Young(r)]
    /\ UNCHANGED <<labelled, labelAge, at, stale>>

ReleaseHeld(r, t) ==
    /\ step[r] \in Releasing /\ t \in todo[r]
    /\ todo' = [todo EXCEPT ![r] = @ \ {t}]
    /\ Release(r, t)
    /\ UNCHANGED <<step, at, stale, building>>

EndRelease(r) ==
    /\ step[r] \in Releasing /\ todo[r] = {}
    /\ \/ /\ step[r] = "round"
          /\ step' = [step EXCEPT ![r] = "idle"]
          /\ UNCHANGED <<marked, heldAge>>
       \/ /\ step[r] = "exit"
          /\ step' = [step EXCEPT ![r] = "off"]
          /\ Remember(r, {})
    /\ UNCHANGED <<labelled, labelAge, at, todo, stale, building>>

\* SIGKILL, or the runner is lost: only GitHub remembers anything.
Kill(r) ==
    /\ step[r] # "off"
    /\ step' = [step EXCEPT ![r] = "off"]
    /\ at' = [at EXCEPT ![r] = None]
    /\ todo' = [todo EXCEPT ![r] = {}]
    /\ stale' = [stale EXCEPT ![r] = {}]
    /\ Remember(r, {})
    /\ building' = [building EXCEPT ![r] = {}]
    /\ UNCHANGED <<labelled, labelAge>>

\* What r is building or claiming now.
Active(r) == building[r] \cup (IF step[r] \in {"add", "undo"} THEN {at[r]} ELSE {})

\* Time passes, but no build outlasts BuildMax: the role timeouts bound it
\* (config.test.mts sums them against BUILDING_LABEL_MAX_AGE_MS).
Tick ==
    /\ \A r \in Runs : \A t \in Active(r) : heldAge[r][t] < BuildMax
    /\ RoundTripsOverlap \/ \A r \in Runs : step[r] \notin Releasing
    /\ labelAge' = [t \in Targets |-> IF t \in labelled THEN Inc(labelAge[t]) ELSE 0]
    /\ heldAge' = [r \in Runs |-> [t \in Targets |->
                      IF t \in marked[r] THEN Inc(heldAge[r][t]) ELSE 0]]
    /\ UNCHANGED <<labelled, step, at, todo, stale, marked, building>>

RunStep(r) ==
    \/ Start(r) \/ ClearStale(r) \/ EndClearing(r)
    \/ AddLabel(r) \/ UndoClaim(r)
    \/ StartRound(r) \/ Exit(r) \/ EndRelease(r) \/ Kill(r)
    \/ \E t \in Targets :
           CheckStale(r, t) \/ ReadLabels(r, t) \/ EndBuild(r, t) \/ ReleaseHeld(r, t)

Next == Tick \/ \E r \in Runs : RunStep(r)

Spec == Init /\ [][Next]_vars

\* The clock never stops, an unattended run is started again (the schedule),
\* its gh calls return, and it ends (its time budget): even if runs are killed
\* again and again, not for ever at the same call.
LiveSpec ==
    /\ Spec
    /\ SF_vars(Tick)
    /\ \A r \in Runs :
        /\ WF_vars(Start(r) \/ AddLabel(r) \/ UndoClaim(r) \/ EndRelease(r))
        /\ SF_vars(ClearStale(r)) /\ SF_vars(EndClearing(r)) /\ SF_vars(Exit(r))
        /\ \A t \in Targets :
            /\ SF_vars(CheckStale(r, t))
            /\ WF_vars(ReleaseHeld(r, t)) /\ WF_vars(EndBuild(r, t))

-----------------------------------------------------------------------------

TypeOK ==
    /\ labelled \subseteq Targets
    /\ labelAge \in [Targets -> Ages]
    /\ step \in [Runs -> Steps]
    /\ at \in [Runs -> Targets \cup {None}]
    /\ todo \in [Runs -> SUBSET Targets]
    /\ stale \in [Runs -> SUBSET Targets]
    /\ marked \in [Runs -> SUBSET Targets]
    /\ heldAge \in [Runs -> [Targets -> Ages]]
    /\ building \in [Runs -> SUBSET Targets]
    /\ \A r \in Runs : step[r] \in {"add", "undo"} => at[r] \in Targets

\* A target being built carries the label and is remembered, so that whatever
\* ends the build takes the label off and no other run claims it meanwhile:
\* neither a startup clearing stale labels nor a run retrying its own failed
\* releases removes the label under a build.
BuildsHoldLabel ==
    \A r \in Runs : building[r] \subseteq labelled \cap marked[r]

\* No two runs build the same issue or pass over the same pull request.
Exclusive ==
    \A r, q \in Runs : r # q => building[r] \cap building[q] = {}

\* A label that no living run remembers, so that only a startup takes it off.
Orphan(t) == t \in labelled /\ \A r \in Runs : t \notin marked[r]

\* Nothing but a run's death, an exit listener whose removal failed, or a
\* claim past MaxAge leaves a label behind: not a failed add, whatever it did,
\* nor a failed undo.
OrphansOnlyByDeath ==
    [][\A t \in Targets : ~Orphan(t) /\ Orphan(t)' =>
          \E r \in Runs : t \in marked[r] /\ ( \/ step'[r] = "off"
                                               \/ heldAge[r][t] > MaxAge )]_vars

\* A label under which nobody builds does not hold its issue back for ever:
\* whoever left it, it is off one day or its target is worked on again.
LabelsDoNotStick ==
    \A t \in Targets : []<>(t \notin labelled \/ \E r \in Runs : t \in Active(r))

-----------------------------------------------------------------------------
(* The inductive invariant behind BuildsHoldLabel and Exclusive, for runs     *)
(* whose round trips do not overlap and whose failed calls are Benign.        *)

\* A failed removal did nothing, and if removals can fail then a failed add
\* did put the label on.
Benign ==
    /\ ~RoundTripsOverlap
    /\ "applied" \notin RemoveErrors
    /\ "lost" \in RemoveErrors => "lost" \notin AddErrors

\* Whose label at[r] is, and what a run remembers and builds, at each step.
StepsMatch ==
    \A r \in Runs :
        /\ step[r] \in {"add", "undo"} => at[r] \in marked[r] /\ heldAge[r][at[r]] <= BuildMax
        /\ step[r] = "add" => at[r] \notin labelled
        /\ step[r] = "undo" => at[r] \notin building[r]
        /\ step[r] \in Clearing => at[r] = None \/ at[r] \in stale[r]
        /\ step[r] \in {"off", "idle"} \cup Releasing => at[r] = None
        /\ step[r] \in {"off"} \cup Clearing => marked[r] = {}
        /\ step[r] \in Releasing => todo[r] \subseteq Young(r) /\ building[r] = {}

\* Two runs are never in the same target's window.
OneInWindow ==
    \A r, q \in Runs : r # q /\ at[r] = at[q] => at[r] = None

\* A target found stale either lost its label or still carries that old one.
StaleStaysOld ==
    \A r \in Runs : \A t \in stale[r] \cap labelled : labelAge[t] > MaxAge

BuildsAreYoung ==
    \A r \in Runs : \A t \in building[r] : heldAge[r][t] <= BuildMax

\* At most one run remembers a target recently enough to take its label off.
OneYoungHolder ==
    \A r, q \in Runs : r # q => Young(r) \cap Young(q) = {}

\* A run remembers a target since before the label went on: so long as its
\* claim is young the label is there, and no older than the claim.  That is
\* why markedByThisRun is set before the add.
Backed(r, t) == t \in labelled /\ labelAge[t] <= heldAge[r][t]

HeldIsBacked ==
    \A r \in Runs : \A t \in Young(r) :
        t # at[r] \/ (step[r] = "undo" /\ "lost" \in RemoveErrors) => Backed(r, t)

IInv ==
    /\ TypeOK
    /\ BuildsHoldLabel
    /\ Exclusive
    /\ StepsMatch
    /\ OneInWindow
    /\ StaleStaysOld
    /\ BuildsAreYoung
    /\ OneYoungHolder
    /\ HeldIsBacked
=============================================================================
