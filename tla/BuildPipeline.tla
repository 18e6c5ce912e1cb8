---------------------------- MODULE BuildPipeline ----------------------------
(***************************************************************************)
(* One issue's build, from the sandbox to the pull request                 *)
(* (.sandcastle/lib/build.mts buildMarkedIssue, lib/checkpoint.mts): the   *)
(* developer roles, gate checkpoint 1 with its gate-fixer, the scribe, the *)
(* reviewer, the merge of main, checkpoint 2, the secret scan, the publish *)
(* and the sandbox's close.                                                *)
(*                                                                         *)
(* The roles and the gate run in a worktree the host does not control, so  *)
(* each of them may leave any commit and any edits behind.  A commit is    *)
(* what the host's decisions tell apart: see Commits.                      *)
(***************************************************************************)
EXTENDS Naturals, FiniteSets

CONSTANTS
    DeveloperRoles,    \* how many developer roles can run (2..4)
    FixerAttempts,     \* GATE_FIXER_ATTEMPTS
    EditKinds,         \* the uncommitted edits a role or a gate run can leave
    None               \* no commit, no merged main

ASSUME DeveloperAssumption == DeveloperRoles \in Nat /\ DeveloperRoles >= 2
ASSUME FixerAssumption == FixerAttempts \in Nat
\* "unseen" is what git status does not show once the gate has run: an ignored
\* file, or one the gate's own run deletes.
ASSUME EditAssumption == EditKinds \subseteq {"tracked", "untracked", "unseen"}

(***************************************************************************)
(* ahead:  it holds work the build's base does not                         *)
(* green:  a gate run on exactly this commit can exit 0                    *)
(* script: whose GATE_SCRIPT it holds (base's, a newer main's, a changed)  *)
(* secret: a commit past the base, main's own aside, holds a secret        *)
(* late:   agents committed to it after the reviewer's turn                *)
(***************************************************************************)
CommitRecords == [ahead : BOOLEAN, green : BOOLEAN, script : {"base", "main", "changed"},
                  secret : BOOLEAN, late : BOOLEAN]
Commits == {c \in CommitRecords :
              ~c.ahead => c.script = "base" /\ ~c.secret /\ ~c.late}

ASSUME NoneAssumption == None \notin CommitRecords

\* A main commit the host merged: GitHub's own, or one an agent put in the
\* shared origin/main ref; it may hold text shaped like a token.
Mains == [genuine : BOOLEAN, token : BOOLEAN]

VARIABLES
    pc,            \* where the build is
    left,          \* developer roles that have yet to run
    head,          \* the worktree's HEAD
    edits,         \* uncommitted edits in the worktree
    checkpoint,    \* the gate checkpoint: 1 or 2
    attempt,       \* gate-fixer attempts used at it
    reviewedHead,  \* HEAD when the merge of main was tried
    mergedMain,    \* the main commit merged in
    gated,         \* the commit checkpoint 2's gate passed on
    pushed,        \* the commit on the issue branch on GitHub
    failures,      \* recordBuildFailure's recorded attempts
    outcome        \* how the build ends

vars == <<pc, left, head, edits, checkpoint, attempt, reviewedHead, mergedMain,
          gated, pushed, failures, outcome>>

Outcomes == {"none", "published", "publishFailed", "roleFailed", "gateFailed",
             "notPublished", "stopped", "threw"}
PCs == {"start", "develop", "ahead", "gate", "fix", "scribe", "review", "sync",
        "undo", "gateMerged", "scan", "publish", "close", "done"}

Init ==
    /\ pc = "start"
    /\ left \in 2..DeveloperRoles
    /\ head \in {c \in Commits : ~c.late}   \* an earlier round's work, or none
    /\ edits = {}
    /\ checkpoint = 1 /\ attempt = 0
    /\ reviewedHead = None /\ mergedMain = None /\ gated = None /\ pushed = None
    /\ failures = 0 /\ outcome = "none"

\* Stands for the variables a step leaves alone.
KeepPublish == UNCHANGED <<gated, pushed>>
KeepMerge == UNCHANGED <<reviewedHead, mergedMain>>
KeepTree == UNCHANGED <<head, edits>>
KeepGate == UNCHANGED <<checkpoint, attempt>>

\* The build is over but for buildMarkedIssue's finally.
Leave(result) == pc' = "close" /\ outcome' = result

\* Goes on to step, with no outcome yet.
GoTo(step) == pc' = step /\ UNCHANGED outcome

-----------------------------------------------------------------------------
(* The worktree.                                                           *)

\* An agent (or test code the gate runs) leaves any commit; from
\* checkpoint 2 on, after the reviewer's turn, its own commit is a late one.
AgentsLeave ==
    /\ head' \in {c \in Commits : c # head => (c.late <=> checkpoint = 2 /\ c.ahead)}
    /\ edits' \in SUBSET EditKinds

\* What git status --porcelain shows.
Uncommitted(tree) == tree \ {"unseen"}

\* gateScriptChange: the script is one of main's copies.
ScriptIsMains(c, trusted) == c.script = "base" \/ (trusted /\ c.script = "main")

\* Mutant of GatePasses: the worktree's cleanliness is not looked at.
GatePassesDirty(exit0, newHead, newTree) == exit0 /\ newHead = head

\* A gate run passes when it exits 0, leaves the tree clean and HEAD where it
\* was.
GatePasses(exit0, newHead, newTree) ==
    /\ exit0
    /\ newHead = head
    /\ Uncommitted(newTree) = {}

\* runGate, as "passed" or not: a branch whose script is not main's is refused
\* unrun.  The exit code is the commit's own only in a clean worktree, and the
\* run leaves the edits it finds.
GateRun(trusted, passed) ==
    \/ ~ScriptIsMains(head, trusted) /\ ~passed /\ KeepTree
    \/ /\ ScriptIsMains(head, trusted)
       /\ \E exit0 \in {e \in BOOLEAN : e => head.green \/ edits # {}} :
             /\ AgentsLeave
             /\ edits \subseteq edits'
             /\ passed = GatePasses(exit0, head', edits')

\* recordBuildFailure posts the attempt's comment, which a gh error may follow
\* all the same.
RecordFailure(result) ==
    /\ failures' = failures + 1
    /\ Leave(result) \/ Leave("threw")

-----------------------------------------------------------------------------
(* Up to the review.                                                       *)

\* startFromMain and createSandbox; either may throw, before there is a
\* sandbox to close (a tampered worktree is left in place).
Start ==
    /\ pc = "start"
    /\ \/ GoTo("develop")
       \/ pc' = "done" /\ outcome' = "threw"
    /\ UNCHANGED <<left, failures>> /\ KeepTree /\ KeepGate /\ KeepMerge /\ KeepPublish

\* Mutant of Develop: an out-of-usage stop counts as a failed attempt.
DevelopCountsStop ==
    /\ pc = "develop"
    /\ AgentsLeave
    /\ \/ /\ left' = left - 1 /\ UNCHANGED failures
          /\ GoTo(IF left = 1 THEN "ahead" ELSE "develop")
       \/ RecordFailure("roleFailed") /\ UNCHANGED left
       \/ failures' = failures + 1 /\ Leave("stopped") /\ UNCHANGED left
    /\ KeepGate /\ KeepMerge /\ KeepPublish

\* One developer role: it finishes, it fails, or the run is out of usage or
\* time (UncountedStopError).
Develop ==
    /\ pc = "develop"
    /\ AgentsLeave
    /\ \/ /\ left' = left - 1 /\ UNCHANGED failures
          /\ GoTo(IF left = 1 THEN "ahead" ELSE "develop")
       \/ RecordFailure("roleFailed") /\ UNCHANGED left
       \/ Leave("stopped") /\ UNCHANGED <<left, failures>>
    /\ KeepGate /\ KeepMerge /\ KeepPublish

\* Nothing ahead of main and nothing uncommitted: nothing to publish.
CheckAhead ==
    /\ pc = "ahead"
    /\ IF ~head.ahead /\ Uncommitted(edits) = {} THEN Leave("notPublished") ELSE GoTo("gate")
    /\ UNCHANGED <<left, failures>> /\ KeepTree /\ KeepGate /\ KeepMerge /\ KeepPublish

MayFix == attempt < FixerAttempts

\* A checkpoint's gate run in runCheckpoint; a red one past the fixer's
\* attempts ends the build.  Checkpoint 1 goes on to the scribe (when it was
\* picked) or the reviewer, checkpoint 2 to the scan.
Gate ==
    /\ pc = "gate"
    /\ \E passed \in BOOLEAN :
          /\ GateRun(FALSE, passed)
          /\ \/ /\ passed /\ checkpoint = 1 /\ head.ahead
                /\ GoTo("scribe") \/ GoTo("review")
                /\ UNCHANGED <<gated, failures>>
             \/ /\ passed /\ checkpoint = 1 /\ ~head.ahead
                /\ Leave("notPublished") /\ UNCHANGED <<gated, failures>>
             \/ /\ passed /\ checkpoint = 2
                /\ gated' = head /\ GoTo("scan") /\ UNCHANGED failures
             \/ ~passed /\ MayFix /\ GoTo("fix") /\ UNCHANGED <<gated, failures>>
             \/ ~passed /\ ~MayFix /\ RecordFailure("gateFailed") /\ UNCHANGED gated
    /\ UNCHANGED <<left, pushed>> /\ KeepGate /\ KeepMerge

\* Mutant of Fix: a fixer run that throws does not use up its attempt.
FixKeepsAttempt ==
    /\ pc = "fix"
    /\ AgentsLeave
    /\ \/ attempt' = attempt + 1 /\ GoTo("gate")
       \/ UNCHANGED attempt /\ GoTo("gate")
       \/ UNCHANGED attempt /\ Leave("stopped")
    /\ UNCHANGED <<left, checkpoint, failures>> /\ KeepMerge /\ KeepPublish

\* A gate-fixer run: finished or thrown, it uses up an attempt.
Fix ==
    /\ pc = "fix"
    /\ AgentsLeave
    /\ \/ attempt' = attempt + 1 /\ GoTo("gate")
       \/ UNCHANGED attempt /\ Leave("stopped")
    /\ UNCHANGED <<left, checkpoint, failures>> /\ KeepMerge /\ KeepPublish

\* The scribe's own failure does not stop the build.
Scribe ==
    /\ pc = "scribe"
    /\ AgentsLeave
    /\ GoTo("review") \/ Leave("stopped")
    /\ UNCHANGED <<left, failures>> /\ KeepGate /\ KeepMerge /\ KeepPublish

\* Nor does the reviewer's.
Review ==
    /\ pc = "review"
    /\ AgentsLeave
    /\ \/ GoTo("sync") /\ checkpoint' = 2 /\ attempt' = 0
       \/ Leave("stopped") /\ KeepGate
    /\ UNCHANGED <<left, failures>> /\ KeepMerge /\ KeepPublish

-----------------------------------------------------------------------------
(* Checkpoint 2 and the publish.                                           *)

\* syncWithMain.  Main is not merged when it cannot be fetched, is contained
\* already, HEAD cannot be read, or the push could not carry its workflow
\* change; git refuses or gives up a merge that conflicts.
Sync ==
    /\ pc = "sync"
    /\ \/ GoTo("gate") /\ KeepTree /\ KeepMerge
       \/ /\ reviewedHead' = head
          /\ \E main \in Mains :
                /\ mergedMain' = main
                /\ head' \in {c \in CommitRecords :
                                /\ c.ahead
                                /\ c.late = head.late
                                /\ c.secret = head.secret
                                /\ main.genuine /\ c.script # head.script =>
                                      head.script = "base" /\ c.script = "main"}
          /\ GoTo("gateMerged") /\ UNCHANGED edits
       \/ /\ reviewedHead' = head /\ UNCHANGED <<mergedMain, head>>
          /\ edits' = edits \cup {"tracked"}
          /\ GoTo("undo")
    /\ UNCHANGED <<left, failures>> /\ KeepGate /\ KeepPublish

\* Mutant of Undo: the merge is only aborted, never reset.
UndoByAbort ==
    /\ pc = "undo"
    /\ mergedMain' = None
    /\ edits' = edits \ {"tracked"}
    /\ GoTo("gate")
    /\ UNCHANGED <<left, head, reviewedHead, failures>> /\ KeepGate /\ KeepPublish

\* restoredTo: back to the reviewed commit by the undo or by a hard reset.
\* Untracked files survive both, and then the build throws.
Undo ==
    /\ pc = "undo"
    /\ head' = reviewedHead /\ mergedMain' = None
    /\ edits' = edits \ {"tracked"}
    /\ IF "untracked" \in edits THEN Leave("threw") ELSE GoTo("gate")
    /\ UNCHANGED <<left, reviewedHead, failures>> /\ KeepGate /\ KeepPublish

\* trustedMergedMain: GitHub's main, asked of GitHub, is still that commit.
Trusts(trusted) == trusted => mergedMain # None /\ mergedMain.genuine

\* Mutant of GateMerged: a red merged tree goes to the gate-fixer.
GateMergedFixes ==
    /\ pc = "gateMerged"
    /\ \E trusted, passed \in BOOLEAN :
          /\ Trusts(trusted)
          /\ GateRun(trusted, passed)
          /\ IF passed THEN gated' = head /\ GoTo("scan") ELSE GoTo("fix") /\ UNCHANGED gated
    /\ UNCHANGED <<left, pushed, failures>> /\ KeepGate /\ KeepMerge

\* The gate on the merged tree, once and without the fixer.
GateMerged ==
    /\ pc = "gateMerged"
    /\ \E trusted, passed \in BOOLEAN :
          /\ Trusts(trusted)
          /\ GateRun(trusted, passed)
          /\ IF passed THEN gated' = head /\ GoTo("scan") ELSE GoTo("undo") /\ UNCHANGED gated
    /\ UNCHANGED <<left, pushed, failures>> /\ KeepGate /\ KeepMerge

\* What a gate run or a role left running in the sandbox moves HEAD after the
\* gate passed.
Linger ==
    /\ pc \in {"scan", "publish"}
    /\ AgentsLeave
    /\ UNCHANGED <<pc, left, outcome, failures>> /\ KeepGate /\ KeepMerge /\ KeepPublish

\* Mutant of ScanFinds: the merged main's commits are left out unasked.
ScanFindsOwn(trusted) == gated.secret

\* The scan of base..gated leaves out the merged main's own commits only when
\* GitHub says that commit is main.
ScanFinds(trusted) == gated.secret \/ (mergedMain # None /\ mergedMain.token /\ ~trusted)

Scan ==
    /\ pc = "scan"
    /\ \E trusted \in BOOLEAN :
          /\ Trusts(trusted)
          /\ IF ScanFinds(trusted) THEN Leave("notPublished") ELSE GoTo("publish")
    /\ UNCHANGED <<left, failures>> /\ KeepTree /\ KeepGate /\ KeepMerge /\ KeepPublish

\* publish pushes the gated commit by its id and opens the pull request;
\* either can fail for good.
Publish ==
    /\ pc = "publish"
    /\ pushed' \in {None, gated}
    /\ IF pushed' = None THEN Leave("publishFailed") ELSE Leave("published") \/ Leave("publishFailed")
    /\ UNCHANGED <<left, gated, failures>> /\ KeepTree /\ KeepGate /\ KeepMerge

\* A failing command in the sandbox, or a gh call nothing catches.
Throw ==
    /\ pc \notin {"start", "close", "done"}
    /\ Leave("threw")
    /\ UNCHANGED <<left, failures>> /\ KeepTree /\ KeepGate /\ KeepMerge /\ KeepPublish

\* The finally: a throw of the close, or of the comment on a tampered
\* worktree, replaces the build's result.
Close ==
    /\ pc = "close"
    /\ pc' = "done" /\ outcome' \in {outcome, "threw"}
    /\ UNCHANGED <<left, failures>> /\ KeepTree /\ KeepGate /\ KeepMerge /\ KeepPublish

Next ==
    \/ Start \/ Develop \/ CheckAhead \/ Gate \/ Fix \/ Scribe \/ Review
    \/ Sync \/ Undo \/ GateMerged \/ Linger \/ Scan \/ Publish \/ Throw \/ Close

Spec == Init /\ [][Next]_vars

\* Every role run, command and gh call ends: the run's limits bound the first,
\* timeouts the others.
Advance ==
    \/ Start \/ Develop \/ CheckAhead \/ Gate \/ Fix \/ Scribe \/ Review
    \/ Sync \/ Undo \/ GateMerged \/ Scan \/ Publish \/ Close
LiveSpec == Spec /\ WF_vars(Advance)

-----------------------------------------------------------------------------

TypeOK ==
    /\ pc \in PCs /\ left \in 0..DeveloperRoles
    /\ head \in CommitRecords /\ edits \subseteq EditKinds \cup {"tracked"}
    /\ checkpoint \in {1, 2} /\ attempt \in 0..FixerAttempts
    /\ reviewedHead \in CommitRecords \cup {None}
    /\ mergedMain \in Mains \cup {None}
    /\ gated \in CommitRecords \cup {None}
    /\ pushed \in CommitRecords \cup {None}
    /\ failures \in {0, 1} /\ outcome \in Outcomes

\* What is pushed is a commit the gate can pass on and whose gate script is
\* main's, whatever the roles and the gate's run left in the worktree and
\* however HEAD moved since: "the host pushes the commit the gate passed on".
PushedPassedGate ==
    pushed # None => pushed.green /\ pushed.script # "changed"

\* Nothing pushed holds a secret: neither the branch's own commits nor those of
\* a main merged in that GitHub never had.
NothingLeaks ==
    pushed # None =>
        /\ ~pushed.secret
        /\ mergedMain # None /\ mergedMain.token => mergedMain.genuine

\* A branch published with main merged in holds nothing an agent did after the
\* review: what main broke is never repaired unreviewed.
MergeUnrepaired ==
    pushed # None /\ mergedMain # None => ~pushed.late

\* When main could not stay merged in, checkpoint 2's first gate is on the
\* reviewed commit with nothing of the merge left in the tree.
FallsBackToReviewed ==
    pc = "gate" /\ checkpoint = 2 /\ attempt = 0 /\ reviewedHead # None =>
        head = reviewedHead /\ Uncommitted(edits) = {} /\ mergedMain = None

\* A failed attempt is counted at most once a build, never for a build that
\* ran out of usage or time, and never for one whose branch was pushed.
CountsFailedAttempts ==
    /\ failures > 0 => outcome \in {"roleFailed", "gateFailed", "threw"} /\ pushed = None
    /\ outcome \in {"roleFailed", "gateFailed"} => failures = 1

\* Every build ends, however often the gate is red.
BuildEnds == <>(pc = "done")

-----------------------------------------------------------------------------
(* The inductive invariant behind the publish properties, part by part.    *)

\* Agents have not touched the branch since the review while it is reviewed
\* and while main is merged into it.
ReviewedIsNotLate ==
    /\ checkpoint = 1 \/ pc \in {"sync", "gateMerged"} => ~head.late
    /\ pc \in {"start", "develop", "ahead", "scribe", "review"} => checkpoint = 1
    /\ pc \in {"sync", "undo", "gateMerged", "scan", "publish"} => checkpoint = 2

\* Only the one gate run on the merged tree sees a merged main.
MergeGatedAlone ==
    pc \notin {"undo", "gateMerged", "scan", "publish", "close", "done"} => mergedMain = None

\* The scan and the publish work on the commit the gate passed on.
GatedIsSound ==
    /\ pc \in {"scan", "publish"} =>
          /\ gated # None
          /\ gated.green /\ gated.script # "changed"
          /\ mergedMain # None => ~gated.late
    /\ pc = "publish" =>
          /\ ~gated.secret
          /\ mergedMain # None /\ mergedMain.token => mergedMain.genuine

\* What keeps the counters and the commit to fall back to in their ranges.
CountersInRange ==
    /\ pc = "fix" => attempt < FixerAttempts
    /\ pc \notin {"close", "done"} => failures = 0
    /\ pc = "develop" \/ pc = "start" => left > 0
    /\ pc \in {"undo", "gateMerged"} => reviewedHead \in CommitRecords

\* Nothing is pushed before the publish, nothing done after it.
PushIsLast == pushed # None => pc \in {"close", "done"}

IInv ==
    /\ TypeOK /\ CountersInRange /\ ReviewedIsNotLate /\ MergeGatedAlone /\ GatedIsSound /\ PushIsLast
    /\ PushedPassedGate /\ NothingLeaks /\ MergeUnrepaired
=============================================================================
