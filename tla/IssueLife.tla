----------------------------- MODULE IssueLife -----------------------------
(***************************************************************************)
(* One issue's life on GitHub, over the rounds and runs that build it:     *)
(* what a build that failed or published leaves there, and what the next   *)
(* round makes of it.  Failed attempts and the hand-back to a person       *)
(* (.sandcastle/lib/handback.mts, github.mts), the publish with its        *)
(* retries and the branch created at the base (build.mts), and the work of *)
(* a pull request closed without merging (follow-up.mts, branches.mts).    *)
(*                                                                         *)
(* Every git or gh call is an action of its own, the run can die between   *)
(* any two, and people act at any time.  One run at a time: the building   *)
(* label sees to that (BuildingLabel).                                     *)
(***************************************************************************)
EXTENDS Naturals

CONSTANTS
    BUILD_FAILURE_CAP,       \* failed attempts before the issue is handed back
    PUBLISH_RETRY_ATTEMPTS,  \* tries of a publish step that GitHub's server fails
    WriteErrors,             \* what a failing comment, label edit, push or
                             \* pull request creation can have done
    CreateErrors,            \* the same of the branch's creation at base
    DeleteErrors             \* the same of the stray branch's deletion

ErrorEffects == {"lost", "applied"}

ASSUME CapAssumption == BUILD_FAILURE_CAP \in Nat \ {0}
ASSUME RetryAssumption == PUBLISH_RETRY_ATTEMPTS \in Nat \ {0}
ASSUME EffectsAssumption ==
    /\ WriteErrors \subseteq ErrorEffects
    /\ CreateErrors \subseteq ErrorEffects
    /\ DeleteErrors \subseteq ErrorEffects

VARIABLES
    queue,       \* the queue whose label the issue carries
    needsHuman,  \* it carries sandcastle:needs-human
    ready,       \* it carries sandcastle:ready
    markers,     \* failed-attempt comments since needsHuman was last removed
    told,        \* what comments since then say the issue waits for
    failed,      \* attempts that did fail since then (up to the cap)
    origin,      \* what the issue's branch on GitHub is at
    held,        \* the branch's refs that hold a closed pull request's work
    pr,          \* the issue's latest Sandcastle pull request
    byHand,      \* a pull request a person opened from the branch is open
    requeued,    \* needsHuman was removed since pr closed
    consented,   \* ... in answer to the comment that says the work goes
    mishaps,     \* what went wrong that a property allows for
    pc,          \* where the run is
    why,         \* the hand-back it is at
    made,        \* what came of creating the branch at base
    tries        \* tries of the publish step it is at

issueVars == <<queue, needsHuman, ready, markers, told, failed>>
branchVars == <<origin, held>>
prVars == <<pr, byHand, requeued, consented, mishaps>>
runVars == <<why, made, tries>>
vars == <<issueVars, branchVars, prVars, pc, runVars>>

\* The refs of the branch, in the order discardClosedWork deletes them.
Refs == {"local", "tracking", "origin"}
Whys == {"none", "sweep", "start", "cap", "workflow", "move"}
PCs == {"idle", "gate", "start", "discard", "build", "record", "create", "push",
        "list", "open", "refused", "comment", "label"}

Init ==
    /\ queue = "Sandcastle" /\ needsHuman = FALSE /\ ready = FALSE
    /\ markers = 0 /\ told = {} /\ failed = 0
    /\ origin = "none" /\ held = {}
    /\ pr = "none" /\ byHand = FALSE /\ requeued = FALSE /\ consented = FALSE /\ mishaps = {}
    /\ pc = "idle" /\ why = "none" /\ made = "no" /\ tries = 1

\* The run goes on to step, or is done with the issue for this round.
GoTo(step) == pc' = step /\ UNCHANGED runVars
Leave(step) == pc' = step /\ why' = "none" /\ made' = "no" /\ tries' = 1
Done == Leave("idle")

\* Tries the publish step again, when GitHub's server failed it and tries are
\* left, or gives the publish up with a comment.
Retry(step) ==
    \/ tries < PUBLISH_RETRY_ATTEMPTS /\ tries' = tries + 1 /\ pc' = step /\ UNCHANGED <<why, made>>
    \/ Done

-----------------------------------------------------------------------------
(* Hand-backs: one comment, then one label edit.                            *)

\* The run starts handing the issue back, or moving it to the other queue.
HandBack(reason) == pc' = "comment" /\ why' = reason /\ UNCHANGED <<made, tries>>

\* A hand-back that failed is only logged by the sweep; others end the build,
\* as one that worked does.
HandedBack == Leave(IF why = "sweep" THEN "gate" ELSE "idle")

\* What a hand-back's comment says: the same of a closed pull request whether
\* the sweep or the build's start posts it.
Says(reason) == IF reason \in {"sweep", "start"} THEN "closed" ELSE reason

\* Mutant of Comment: the labels change even if the comment was refused.
CommentIgnored ==
    /\ pc = "comment"
    /\ told' = told \cup {Says(why)} \/ ("lost" \in WriteErrors /\ UNCHANGED told)
    /\ GoTo("label")
    /\ UNCHANGED <<queue, needsHuman, ready, markers, failed, branchVars, prVars>>

\* A comment that fails leaves the labels alone, posted or not.
Comment ==
    /\ pc = "comment"
    /\ \/ told' = told \cup {Says(why)} /\ GoTo("label")
       \/ "applied" \in WriteErrors /\ told' = told \cup {Says(why)} /\ HandedBack
       \/ "lost" \in WriteErrors /\ UNCHANGED told /\ HandedBack
    /\ UNCHANGED <<queue, needsHuman, ready, markers, failed, branchVars, prVars>>

\* What the edit makes of the labels.
moveToLocalQueue == queue' = "Sandcastle:local" /\ UNCHANGED <<needsHuman, ready>>
addNeedsHuman == needsHuman' = TRUE /\ ready' = FALSE /\ UNCHANGED queue

\* The labels change in one edit, which may fail having changed them or not.
Label ==
    /\ pc = "label"
    /\ \/ why = "move" /\ moveToLocalQueue
       \/ why # "move" /\ addNeedsHuman
       \/ "lost" \in WriteErrors /\ UNCHANGED <<queue, needsHuman, ready>>
    /\ HandedBack
    /\ UNCHANGED <<markers, told, failed, branchVars, prVars>>

-----------------------------------------------------------------------------
(* A round, up to the build.                                                 *)

\* The latest pull request closed unmerged, and nobody re-queued the issue since.
Unanswered == pr = "closed" /\ ~requeued

\* The sweep hands such an issue back; it may fail to read GitHub, and is
\* then skipped.
Sweep ==
    /\ pc = "idle" /\ pr # "merged"
    /\ \/ GoTo("gate")
       \/ Unanswered /\ ~byHand /\ ~needsHuman /\ HandBack("sweep")
    /\ UNCHANGED <<issueVars, branchVars, prVars>>

\* Intake clears an issue that is neither handed back nor under review.
Intake ==
    /\ pc = "gate" /\ ~ready /\ ~needsHuman /\ pr # "open" /\ ~byHand
    /\ ready' = TRUE
    /\ UNCHANGED <<queue, needsHuman, markers, told, failed, branchVars, prVars, pc, runVars>>

\* The gate passes it and the planner picks it, or the round goes without it.
\* prepareBranches fetches the branch from GitHub when it is there.
Gate ==
    /\ pc = "gate"
    /\ \/ /\ ready /\ ~needsHuman /\ pr \notin {"open", "merged"} /\ ~byHand
          /\ GoTo("start")
          /\ held' = IF "origin" \in held THEN held \cup {"tracking"} ELSE held
       \/ Done /\ UNCHANGED held
    /\ UNCHANGED <<issueVars, origin, prVars>>

\* Mutant of Start: a closed pull request's work goes without anyone's say.
StartUnasked ==
    /\ pc = "start"
    /\ GoTo(IF pr = "closed" THEN "discard" ELSE "build")
    /\ UNCHANGED <<issueVars, branchVars, prVars>>

\* startFromMain: the work of a pull request closed unmerged is discarded, but
\* only when a person re-queued the issue since.
Start ==
    /\ pc = "start"
    /\ \/ pr # "closed" /\ GoTo("build")
       \/ pr = "closed" /\ requeued /\ GoTo("discard")
       \/ Unanswered /\ HandBack("start")
       \/ Done
    /\ UNCHANGED <<issueVars, branchVars, prVars>>

\* The refs that discardClosedWork has come to, in its order.
NextRef ==
    CASE "local" \in held -> "local"
      [] "tracking" \in held -> "tracking"
      [] OTHER -> "origin"

Deleted(ref) ==
    /\ held' = held \ {ref}
    /\ origin' = IF ref = "origin" THEN "none" ELSE origin

\* Mutant of Discard: a deletion that fails is skipped, and the build goes on.
DiscardOnward ==
    /\ pc = "discard"
    /\ IF held = {} THEN GoTo("build") /\ UNCHANGED branchVars
       ELSE \/ Deleted(NextRef) /\ GoTo("discard")
            \/ GoTo("build") /\ UNCHANGED branchVars
    /\ UNCHANGED <<issueVars, prVars>>

\* discardClosedWork deletes each ref that holds the closed work; a deletion
\* that fails throws, and the build with it.
Discard ==
    /\ pc = "discard"
    /\ IF held = {} THEN GoTo("build") /\ UNCHANGED branchVars
       ELSE \/ Deleted(NextRef) /\ GoTo("discard")
            \/ "applied" \in WriteErrors /\ Deleted(NextRef) /\ Done
            \/ Done /\ UNCHANGED branchVars
    /\ UNCHANGED <<issueVars, prVars>>

-----------------------------------------------------------------------------
(* The build (BuildPipeline) and what it counts.                             *)

\* It passes its gates, or a role or a gate fails; a limit or an error ends it
\* uncounted.
Build ==
    /\ pc = "build"
    /\ \/ GoTo("create") /\ UNCHANGED failed
       \/ GoTo("record") /\ failed' = IF failed < BUILD_FAILURE_CAP THEN failed + 1 ELSE failed
       \/ Done /\ UNCHANGED failed
    /\ UNCHANGED <<queue, needsHuman, ready, markers, told, branchVars, prVars>>

\* Mutant of Record: the comment lacks the marker that counts it.
RecordUnmarked ==
    /\ pc = "record"
    /\ IF markers + 1 < BUILD_FAILURE_CAP THEN Done ELSE HandBack("cap")
    /\ UNCHANGED <<issueVars, branchVars, prVars>>

\* recordFailedAttempt counts the marked comments: under the cap it posts one
\* more, and the attempt that reaches it hands the issue back.
Record ==
    /\ pc = "record"
    /\ IF markers + 1 < BUILD_FAILURE_CAP
       THEN /\ Done
            /\ markers' = markers + 1 \/ ("lost" \in WriteErrors /\ UNCHANGED markers)
       ELSE HandBack("cap") /\ UNCHANGED markers
    /\ UNCHANGED <<queue, needsHuman, ready, told, failed, branchVars, prVars>>

-----------------------------------------------------------------------------
(* The publish.                                                              *)

\* Only the token of a run in Actions has no Workflows permission, and only
\* such runs work the Sandcastle queue's issues unasked.
InActions == queue = "Sandcastle"

\* GitHub has a branch at base that its build does not know it made or cannot
\* take back.
Strays == mishaps' = mishaps \cup {"stray"}

\* triedCreatingBranchAtBase: when main changed a workflow since the build
\* started and the branch is new, it is created at base first.
Create ==
    /\ pc = "create"
    /\ pc' = "push" /\ UNCHANGED <<why, tries>>
    /\ \/ made' = "no" /\ UNCHANGED <<origin, mishaps>>
       \/ /\ InActions /\ origin = "none"
          /\ \/ made' = "yes" /\ origin' = "base" /\ UNCHANGED mishaps
             \/ "applied" \in CreateErrors /\ made' = "failed" /\ origin' = "base" /\ Strays
             \/ "lost" \in CreateErrors /\ made' = "failed" /\ UNCHANGED <<origin, mishaps>>
    /\ UNCHANGED <<issueVars, held, pr, byHand, requeued, consented>>

\* Pushes the gated commit.  GitHub may refuse its workflow change, for good; a
\* push that does not fast-forward, or fails for another reason, is not retried.
Push ==
    /\ pc = "push"
    /\ \/ origin' = "work" /\ pc' = "list" /\ tries' = 1 /\ UNCHANGED <<why, made>>
       \/ InActions /\ GoTo("refused") /\ UNCHANGED origin
       \/ "lost" \in WriteErrors /\ Retry("push") /\ UNCHANGED origin
       \/ "applied" \in WriteErrors /\ Retry("push") /\ origin' = "work"
    /\ UNCHANGED <<issueVars, held, prVars>>

\* openPullRequest finds an open pull request from the branch, or creates one;
\* a retry lists again first.
List ==
    /\ pc = "list"
    /\ \/ IF pr = "open" \/ byHand THEN Done ELSE GoTo("open")
       \/ Retry("list")
    /\ UNCHANGED <<issueVars, branchVars, prVars>>

\* A new pull request, whose close nobody has answered yet.
NewPR == pr' = "open" /\ requeued' = FALSE /\ consented' = FALSE

\* GitHub takes one open pull request from a branch.
Open ==
    /\ pc = "open"
    /\ \/ ~byHand /\ NewPR /\ Done
       \/ "applied" \in WriteErrors /\ ~byHand /\ NewPR /\ Retry("list")
       \/ "lost" \in WriteErrors /\ UNCHANGED <<pr, requeued, consented>> /\ Retry("list")
       \/ byHand /\ UNCHANGED <<pr, requeued, consented>> /\ Done
    /\ UNCHANGED <<issueVars, branchVars, byHand, mishaps>>

\* Mutant of Refused: the branch stays where it was created.
RefusedLeavesBranch ==
    /\ pc = "refused"
    /\ HandBack(IF made = "no" THEN "workflow" ELSE "move")
    /\ UNCHANGED <<issueVars, branchVars, prVars>>

\* A refused push: the stray branch this build created is deleted, unless it
\* moved, and a local run gets the issue; with no such branch a person does.
Refused ==
    /\ pc = "refused"
    /\ HandBack(IF made = "no" THEN "workflow" ELSE "move")
    /\ IF made = "yes" /\ origin = "base"
       THEN \/ origin' = "none" /\ UNCHANGED mishaps
            \/ "lost" \in DeleteErrors /\ Strays /\ UNCHANGED origin
       ELSE UNCHANGED <<origin, mishaps>>
    /\ UNCHANGED <<issueVars, held, pr, byHand, requeued, consented>>

-----------------------------------------------------------------------------
(* People, and the runner.                                                   *)

\* Mutant of Requeue: attempts are counted since the issue was opened.
RequeueKeepsCount ==
    /\ needsHuman
    /\ needsHuman' = FALSE /\ failed' = 0
    /\ told' = told \cap {"move"}
    /\ requeued' = (pr = "closed")
    /\ consented' = (consented \/ "closed" \in told)
    /\ UNCHANGED <<queue, ready, markers, branchVars, pr, byHand, mishaps, pc, runVars>>

\* A person removes sandcastle:needs-human, having read the comments.
Requeue ==
    /\ needsHuman
    /\ needsHuman' = FALSE /\ markers' = 0 /\ failed' = 0
    /\ told' = told \cap {"move"}
    /\ requeued' = (pr = "closed")
    /\ consented' = (consented \/ "closed" \in told)
    /\ UNCHANGED <<queue, ready, branchVars, pr, byHand, mishaps, pc, runVars>>

\* A person hands the issue back by hand.
LabelByHand ==
    /\ ~needsHuman /\ needsHuman' = TRUE
    /\ mishaps' = mishaps \cup {"by hand"}
    /\ UNCHANGED <<queue, ready, markers, told, failed, branchVars, pr, byHand, requeued, consented, pc, runVars>>

\* The pull request is closed unmerged; its branch may go with it.
ClosePR ==
    /\ pr = "open"
    /\ pr' = "closed" /\ requeued' = FALSE /\ consented' = FALSE
    /\ held' \in SUBSET Refs
    /\ origin' = IF "origin" \in held' THEN "work" ELSE "none"
    /\ UNCHANGED <<issueVars, byHand, mishaps, pc, runVars>>

\* It merges, which closes the issue: checks take longer than a publish's tries.
MergePR ==
    /\ pr = "open" /\ pc \notin {"list", "open"}
    /\ pr' = "merged"
    /\ UNCHANGED <<issueVars, branchVars, byHand, requeued, consented, mishaps, pc, runVars>>

\* A person opens a pull request from the published branch, as the comment on a
\* failed publish suggests, and closes it.
ByHand ==
    /\ pr # "open" /\ (origin = "work" \/ byHand)
    /\ byHand' = ~byHand
    /\ UNCHANGED <<issueVars, branchVars, pr, requeued, consented, mishaps, pc, runVars>>

\* A run ends or dies; the next may start in a fresh checkout.
Kill ==
    /\ Done
    /\ held' \in {held, held \cap {"origin"}}
    /\ UNCHANGED <<issueVars, origin, prVars>>

Next ==
    \/ Sweep \/ Intake \/ Gate \/ Start \/ Discard \/ Build \/ Record
    \/ Create \/ Push \/ List \/ Open \/ Refused \/ Comment \/ Label
    \/ Requeue \/ LabelByHand \/ ClosePR \/ MergePR \/ ByHand \/ Kill

Spec == Init /\ [][Next]_vars

\* GitHub does not refuse every comment and label edit about failed builds for
\* ever, nor is the run killed at each of them.
LiveSpec ==
    /\ Spec
    /\ SF_vars(Record /\ (markers' # markers \/ pc' = "comment"))
    /\ SF_vars(Comment /\ why = "cap" /\ pc' = "label")
    /\ SF_vars(Label /\ why = "cap" /\ needsHuman')

-----------------------------------------------------------------------------

TypeOK ==
    /\ queue \in {"Sandcastle", "Sandcastle:local"}
    /\ needsHuman \in BOOLEAN /\ ready \in BOOLEAN
    /\ markers \in 0..BUILD_FAILURE_CAP - 1
    /\ told \subseteq {"closed", "cap", "workflow", "move"}
    /\ failed \in 0..BUILD_FAILURE_CAP
    /\ origin \in {"none", "base", "work"} /\ held \subseteq Refs
    /\ pr \in {"none", "open", "closed", "merged"} /\ byHand \in BOOLEAN
    /\ requeued \in BOOLEAN /\ consented \in BOOLEAN /\ mishaps \subseteq {"by hand", "stray"}
    /\ pc \in PCs /\ why \in Whys /\ made \in {"no", "yes", "failed"}
    /\ tries \in 1..PUBLISH_RETRY_ATTEMPTS

\* The issue never leaves the queue without a word: before it is handed back,
\* or moved to the local queue, a comment says why, whatever call fails and
\* wherever the run dies; and what is handed back is not ready, so that intake
\* reads it again once a person answers.  (A person who puts the label on by
\* hand owes nobody a comment.)
HandBacksAreExplained ==
    /\ needsHuman /\ "by hand" \notin mishaps => told \ {"move"} # {} /\ ~ready
    /\ queue = "Sandcastle:local" => "move" \in told

\* It is handed back for failing only after BUILD_FAILURE_CAP builds that did
\* fail since a person last put it back, unless one did that, with a label put
\* on by hand, during the hand-back.
GivesUpAtTheCap == "cap" \in told => failed = BUILD_FAILURE_CAP \/ "by hand" \in mishaps

\* The work of a closed pull request goes only after a person re-queued the
\* issue in answer to the comment that says so: "the hand-back's comment is the
\* only consent to discarding the work" (follow-up.mts:905), with one exception:
\* a label that a person put on by hand and took off again counts as well.
DiscardsWithConsent == pc = "discard" => consented \/ "by hand" \in mishaps

\* No build starts from the work of a closed pull request: not from a ref that
\* a failed deletion left, nor from one fetched back from GitHub.
StartsFromMain == pc = "build" => held = {}

\* An issue moved to the local queue leaves no branch without commits or pull
\* request behind: "a stray one would send the next round down the
\* existing-branch path" (build.mts:1217).  Only a creation that failed after it
\* took effect, or a deletion that failed, leaves one.
LocalStartsClean == queue = "Sandcastle:local" => origin # "base" \/ "stray" \in mishaps

\* An issue whose builds fail again and again is handed back again and again,
\* although the count is kept in comments that may not get through.
FailingBuildsAreHandedBack == []<>(pc = "record") => []<>needsHuman
=============================================================================
