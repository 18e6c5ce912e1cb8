# TLA+ verification of TicketManager's automation

The repository holds a small Blazor application (`src/Web`, `src/AppHost`,
`src/ServiceDefaults`) and, around it, the program this project is about:
**Sandcastle** (`.sandcastle/`), a host that works through a queue of GitHub
issues without anyone watching. A run gates the queue, has a model plan a round
of issues, checks the plan, builds every pick in a sandbox with more model
roles, gates and scans what came out, publishes pull requests, follows them up,
and hands back to a person what it cannot do. Several runs can be going at once
(a scheduled full run, a follow-up run, a local run), each can be killed at any
time, GitHub is their only shared memory, and every read and write of it is a
`gh` or `git` call that can fail before or after it took effect. That is what
the modules here are about.

The web application reads GitHub once a request and keeps nothing between
requests; it has no protocol to check.

## 1. The system's parts

| Part (source under `.sandcastle/` unless noted) | State it keeps | Operations | Talks to | What is hard | What makes it correct |
|---|---|---|---|---|---|
| Building label, `lib/building.mts` | the label on GitHub; `markedByThisRun` in memory | claim, release, retries, clearing at startup | other runs, through labels and timelines | two round trips per claim; failed removals retried later; kills | one builder per target; labels neither stick nor vanish under a build |
| Round loop, `main.mts`, `lib/round.mts` | `heldForFiles`, the iteration, limits | gate, plan, overlap check, critique, builds, summary | planner and critique models, GitHub, git | pull requests come and go during a round; builds are parallel | no two builds share files; no round planned for nothing |
| Gate, `lib/gate.mts` | none | which issues may be built, and why others wait | GitHub | reads of several issues' states | never builds a blocked issue |
| Overlap check, `lib/overlap.mts` | none | `findOverlaps`, `lastingHolds` | planner's file lists, open pull requests | folders, copies, empty lists, order | holds end in something that is being built |
| Critique, `lib/critique.mts` | the round's link cache | verdicts, deferrals as "blocked by" links | critique model, GitHub's dependencies | cached reads, own writes, links removed meanwhile | no loop of links |
| Build pipeline, `lib/build.mts` | commits of the issue's worktree, `mergedMain`, the outcome | roles, two gate checkpoints, merge of main, scan, publish, close | sandbox, git, GitHub | every step may stop, throw or leave processes behind | only gated, scanned, reviewed work is pushed; failures counted once |
| Gate checkpoint, `lib/checkpoint.mts` | fixer attempts | gate run, fixer run | sandbox | the tree moves while the gate runs | passes only for the commit at HEAD |
| Secret scan, `lib/scan.mts` | none | `firstSecretMatch` | git | which commits are main's | nothing of the branch's own leaks |
| Publish and hand-back, `lib/build.mts`, `lib/handback.mts`, `lib/github.mts` | branch, pull request, comments and labels on GitHub | push, create, comment, label, move between queues | GitHub | each is several calls that fail apart | an issue leaves the queue only with a word of why |
| Closed pull requests, `lib/follow-up.mts`, `lib/branches.mts` | branch refs, label timeline | the sweep's hand-back, `startFromMain`, `discardClosedWork` | GitHub, git | a person closes and re-queues in between | work is discarded only with consent, and then entirely |
| Queue approval, `lib/queue.mts` | per-round caches of events and edits | list, read events and edits, judge, put labels right | GitHub timelines | edits between two reads; a cache's key; times to the second; writes that fail | an agent gets the text the owner queued, under labels of the owner's |
| Intake's rounds, `lib/intake.mts` | batches still to do, stop counters | run a batch, halve a failed one, stop | intake model | which issue broke the answer is not known; two counts end a round | one bad issue costs nobody else its verdict |
| Splits and umbrellas, `lib/intake.mts`, `lib/umbrella.mts` | labels, sub-issues and links on GitHub | apply a verdict, split, hand back a split that failed, close umbrellas | GitHub, people | a split is many writes, and any of them may be the last | no child built early, none twice; an umbrella closes when its children have landed |
| Follow-up sweep and pass, `lib/follow-up.mts`, `lib/follow-up-pass.mts` | pass comments, review threads, head records on GitHub | which pull requests need a pass; update, merge, role, gate, push, reply, re-run, hand back | GitHub, sandbox, people | heads move, comments are the counter, threads are asked again | passes are capped, replies are true, every pull request ends settled or with a person |
| Review ledger, `lib/review-ledger.mts` | none | checks a ledger against a pull request's threads | GitHub | | |
| Reports, prompts, roles, host checks | none that survives a call | text and one-shot checks | | | |
| Release queue, `.github/scripts/release_queue.py`, `.github/workflows/release.yml` | tags and Releases on GitHub | which merged pull requests are owed a Release; tag; publish | GitHub Actions | runs are cancelled; tag and Release fail apart | releases follow merge order, none is lost |
| Other workflows and scripts | none, or Actions' own | CI, auto-merge, review | GitHub Actions | events out of order | |

`PROJECT.json` lists every component with its status, and every hazard at its
line with the properties that cover it.

How the parts meet: the round loop calls gate, plan, overlap check and critique
one after another and then starts a build per pick. A build first claims the
building label; its `finally` releases it. The pipeline ends in the publish or
in a recorded failure, whose traces on GitHub (branch, pull request, comments,
labels) are all the next round, run or person sees of it. The critique's links
and the open pull requests come back through the next round's gate. Before it,
each round sweeps the open pull requests (a pass claims the same building label
a build does), judges the queue's new issues, and closes umbrellas; all of them
and the gate read the queue through `loadQueue`, which decides whose issues an
agent is shown at all.

## 2. Modules

| Module | Models | Variables to code |
|---|---|---|
| `BuildingLabel` | the label as a lock between runs, on issues and hand-off pull requests | `labelled`, `labelAge`: GitHub's label and its last "labeled" event; `marked`, `heldAge`: `markedByThisRun`; `stale`, `todo`: the lists a run walks; `at`: the target between a read and its write |
| `Critique` | `applyVerdicts` and the loop walk of one round | `links`: GitHub; `walked`, `read`: the link cache; `added`: the links this round added |
| `Overlap` | `findOverlaps`, `lastingHolds` and their helpers, as operators | no variables |
| `Rounds` (extends `Overlap`) | `main()`'s loop over rounds | `heldForFiles`, `round`, `stopping` as in `main.mts`; `prs`: pull requests into main; `settled`: `Promise.allSettled` over the builds |
| `BuildPipeline` | `buildMarkedIssue` and `runCheckpoint` | `head`, `edits`: the worktree; `gated`, `mergedMain`, `reviewedHead`, `outcome` as in `build.mts`; `pushed`: GitHub |
| `IssueLife` | one issue over rounds and runs: attempts, hand-backs, publish, closed pull requests | `markers`, `told`: comments on the issue; `queue`, `needsHuman`, `ready`: its labels; `origin`, `held`: the branch's refs; `pr`, `requeued`: its pull request and the label timeline; `made`, `tries`: `branchAtBase` and the retry loop |
| `QueueApproval` | `loadQueue` for one issue | `history`, `now`: GitHub's record of it; `step`, `listed`, `read`: how much of the record each call of a load has seen; `cache`: the round's reads by `cacheKey`; `fixes`, `labels`: what is put right |
| `Intake` | `intakeRound` over rounds | `todo`: the batches left; `failedInARow`, `refusedInARow` as in `intake.mts`; `stopped`: why the round ended early; `settled`: judged issues |
| `IssueSplit` | `applyVerdict`, `applySplit` and `closeFinishedUmbrellas` for one issue | `issue`, `children`, `blocker`: GitHub; `step`, `split`, `mine`, `left`: where `applySplit` is, in which split, what it has created and not yet unmarked; `looks`: where the umbrella phase is |
| `ReviewThread` | what the follow-up promises of review threads, in three actions | `standing`, `asks`, `replies` of each thread |
| `FollowUp` (implements `ReviewThread`) | the sweep and the pass for one pull request, by several runs | `pr`, `thread`, `main`, `clash`: GitHub; `claim`: the building label; `run`: `target` as the sweep read it and where each run is; `pass`: the locals of `passOnMarkedIssue` |
| `ReleaseOrder` | what the release workflow promises, in three actions | `merged`, `optedOut`, `released` |
| `ReleaseQueue` (implements `ReleaseOrder`) | `release.yml`'s runs and `release_queue.py` | `pending`, `trigger`: the concurrency group's pending and running run; `queue`: the plan job's output; `todo`: the matrix jobs not ended; `tags`, `released`: git tags and published Releases; `unlisted`: those the list of Releases does not show yet |

Each action is named for the function or the call it stands for, and
`PROJECT.json` "map" gives its lines. A `gh` or `git` call that writes is one
action; where a failed one matters it has three outcomes: done, failed without
effect ("lost"), failed although applied ("applied"). Definitions commented
"Mutant of X" are X with one plausible mistake; replacing X by it breaks the
property the project lists for it, which is how each property is shown to depend
on the code.

### What is abstracted

* **Time** in `BuildingLabel` is the age of labels and claims, saturating one
  tick past `MaxAge`, so no bound cuts a behaviour short. `BuildMax <= MaxAge`
  is what `config.test.mts` checks of the role timeouts.
* **Commits** in `BuildPipeline` are records of what the host's decisions tell
  apart: has work, can pass the gate, whose gate script, holds a secret, was
  committed after the review. Roles and gate runs may leave any such commit.
* **Model answers** (plan, critique, verdicts) are any answer at all.
* **Labels that hold an issue back**, and links that cannot be read, are any
  subset of the unblocked issues in `Rounds`.
* **Refs** in `IssueLife` hold a closed pull request's work or do not; git's
  ancestry questions and the branch's naming are left out, so the branch of the
  closed pull request is the branch being built.
* **Comments** are what they tell the reader (`told`) or that they count
  (`markers`).
* **An issue's history** in `QueueApproval` is a sequence of label changes,
  renames and edits with who did them and in which second; every read is of a
  prefix of it, and the events list may lag by the host's own last label.
  A title or body is one of two texts, each edit making it the other.
* **Comments, labels and sub-issues** in `IssueSplit` are what the code later
  reads back from them; `sandcastle:needs-info` and the bug label go with the
  verdict that sets them.
* **Commits** in `FollowUp` are their own history, who made which commit and how
  much of main is in it, so that ancestry is set inclusion; which of main's
  commits do not merge is chosen when main moves. What the role, the gate and
  Actions do is any outcome.
* **Merges** in `ReleaseQueue` are numbered by their place on main, so that "its
  merge commit is inside the tag" is "not after it"; a version is its place among
  the tags, since each new one is above the highest.

### Assumptions about the world

* `BuildingLabel`: other people do not edit `sandcastle:building`. The code
  acknowledges that a claim is two round trips and a race between them is
  accepted (`building.mts:112-114`); `RoundTripsOverlap = FALSE` leaves that
  window out of the run about exclusion, and it is allowed in the liveness run.
* `Critique`: links are loop-free at the start of a round and others only remove
  links during it.
* `Rounds`: an issue closes when its pull request merges.
* `BuildPipeline`: a gate run leaves alone the edits it finds; processes a role
  leaves running act after checkpoint 2's gate (action `Linger`); whatever they
  do earlier is part of the role's own step.
* `IssueLife`: a person may take `sandcastle:needs-human` off, or add it by hand
  first (`mishaps` remembers that, and a branch a failed push left behind); runs
  do not overlap on the issue (that is `BuildingLabel`'s
  result); a closed pull request is not reopened; intake's and the follow-up
  pass's own hand-backs, and `startFromMain`'s case of a pull request from another
  branch of the issue, are not in it.
* `QueueApproval`: nobody acts again in the second a load has read in
  (`SharedSeconds = FALSE`), and the owner does not queue the issue anew while a
  load is reading it (`RequeueMidLoad = FALSE`); section 4 says what the other
  values do. The host's own labelling happens between loads.
* `Intake`: an issue either always breaks the answer of its run or never does;
  besides, `MaxFlakes` runs fail or end by themselves.
* `IssueSplit`: one run splits at a time, so nothing is said of two that split at
  once (section 4); another run may judge the issue unclear or ready, and the umbrella phase look at it, between any two calls of a split.
  Builds and people work on the children as the labels allow.
* `FollowUp`: people push fast-forward and do not resolve threads in the middle
  of a pass, and do not ask Copilot themselves; Copilot reviews a head it is asked
  about, or the request goes without one; the hour that has to pass before it is
  asked again is up whenever a sweep comes; the reads of one `planPass` are one step, since it compares the head; the hand-back is one call;
  a run that dies before its claim leaves no trace.
* `ReleaseQueue`: one run of the concurrency group at a time, which GitHub
  guarantees; `[skip-release]` may be put in a title at any time but is not taken
  out again; version tags come from this workflow; draft Releases are left out.

## 3. Runs

| Run | Instance | What it shows |
|---|---|---|
| `bl_core` | 3 runs, 1 issue, 1 hand-off pull request, ages to 2; adds that fail though applied, removals that fail | at most one run builds a target; the label is under every build and remembered by its run; retries between rounds and at exit never take off another run's; only a dead run, a failed removal at exit or a claim past its age leaves an orphan label |
| `bl_live` | 2 runs, 1 pull request, overlapping round trips | a label nobody works under comes off, or its target is worked on |
| `cr_core` | 3 issues, any loop-free links, any picks | deferrals never close a loop |
| `ro_core` | 3 issues, 2 rounds, 2 pull requests, two files and a folder | builds of a round are disjoint and clear of the pull requests the check read; holds end in work; a further round has something new; lasting holds have a pull request behind them |
| `bp_core` | 2 developer roles, 2 fixer attempts, tracked and untracked edits | only a commit the gate can pass on, with main's gate script, is pushed; nothing of the branch leaks; a merge is never repaired after the review; a bad merge falls back to the reviewed commit; failures are counted as documented; the build ends |
| `il_core` | cap 2, 2 tries; writes, branch creations and deletions lost or applied; labels by hand | hand-backs and moves are explained; the cap counts real failures; closed work goes only with consent; the local queue starts clean, and no build starts from closed work; an issue that keeps failing is handed back |
| `rq_core` | 4 merges, any cancellations, failures and lag of the list | each Release is of the oldest pull request owed one (`ReleaseOrder`); versions follow merges |
| `qa_core` | histories of up to 4 things done by owner, stranger and host in 2 seconds, any failed lookups, reads and writes | an agent is given the text the owner queued; `sandcastle:ready` and the absence of `needs-human` are the owner's doing; a stranger's `ready` does not stay |
| `in_core` | 6 issues in batches of 3, up to 2 that break every answer, 1 run that fails by itself, stops after 5 failed runs or 2 refused batches | a breaking issue is given up alone; a good issue is judged in the end |
| `is_core` | 2 drafts, 1 run splitting, put back once, every call lost or applied although it failed, the run dying between any two | no child is built before its split is complete, a later round or run creates none again, and they land in order; the issue closes just when its children landed; hand-backs say why; a split that went well is closed |
| `fu_core` | 2 runs, a bot's thread, 1 check, cap 1, 1 move of main, 1 act of people, 1 failure | the cap holds, named fixes are in the pull request, the threads follow `ReviewThread` |
| `fu_live` | 1 run, the owner's thread, 3 checks, one of them without a run, the same bounds | the pull request ends settled or with a person, unless all that is left of it is what the code only logs (section 4) |

Every run is expected to pass. The largest, `fu_core`, has 2.2 million states and
takes one to two minutes with two workers; `is_core`, `in_core`,
`qa_core` and `fu_live` take one to two for their liveness. The inductive
invariants and types that section 5 proves are not checked again by a run; each
was, before it was proved (`INVARIANT IInv` in the run's configuration).

**Why the bounds are enough.** Three runs are the fewest with which one clears
or releases between two others' reads and writes, and two targets of both kinds
keep the two startup listings apart; ages saturate. Three issues are the
smallest loop the walk has to follow through a chain, and the smallest plan with
a pick held behind a pick that is itself held. Two rounds show what a round
hands to the next; `MaxPRs = 2` bounds the pull requests ever opened in
`Rounds`, enough for one from before the check and one opened after it. In
`BuildPipeline` two developer roles and two fixer attempts reach every "first",
"another" and "last" branch. `IssueLife`'s `BUILD_FAILURE_CAP` is the code's own
value, 2; two tries of a publish step (the code has four) are one retry and the
last; its rounds, runs and hand-backs are unbounded (`failed` stops at the cap).
`QueueApproval`'s
four events are the queueing, a change before the load and two during or after
it, the least that lets an edit be made and undone around a read. `Intake`'s six
issues are two batches whose halves differ in size; with two breaking issues and
five failures to a stop, both the stop and its avoidance are reached.
`IssueSplit`'s two drafts have a first, a last and one link between them; one
requeue gives a second split beside a half-finished first. In `FollowUp` a second
run is what reads before the claim and acts after it; one act is a push, a
question or a hand-back taken back; `fu_live` gives up the second run for two
more checks, the least with which a red check is re-run, forwarded to the role or
only flagged. The bot's thread, which a pass also resolves, is in `fu_core`;
`fu_live` passes with it in place of the owner's too (1.1 million states). `ReleaseQueue`'s four merges are one released, one whose tag an earlier run left
behind, one passed over and one later. All of these
counts are bounds on what happens, in the guards (`MAX_ITERATIONS`, `MaxPRs`,
`MaxMerges`, `MaxEvents`, `MaxTime`, `MaxBreaking`, `MaxFlakes`, `MaxRequeues`,
`MaxMain`, `MaxActs`, `MaxFaults`); within them the runs cover the whole reachable
state space, not a depth.

**Deadlock** is checked in `BuildingLabel`, `IssueLife` and `ReleaseQueue`, which
never stop. A
critique round, a run of rounds and a build do end, and so do an issue's history,
a queue all judged, a split closed for good and a settled pull request, so the
runs of the other modules say `CHECK_DEADLOCK FALSE`; their liveness properties
say where they may stop.

**Fairness.** `BuildingLabel!LiveSpec`: time passes; the schedule starts a run
again; a call that is due returns (weak fairness), and a run that is killed over
and over is not killed for ever at the same call of the clearing (strong
fairness); removals do not fail in that run, since with removals that always
fail a label does stick. `BuildPipeline!LiveSpec`: weak fairness of the whole
build's next step, since role timeouts, the gate's timeout and gh's own end each
of them. `IssueLife!LiveSpec`: strong fairness of the comment that counts a
failed attempt and of the hand-back it leads to; GitHub does not refuse these
for ever. `QueueApproval!LiveSpec`: rounds load the queue again and again, and
each read, lookup and write succeeds in the end when it is tried over and over
(strong fairness; a load that fails starts from nothing in the next round).
`Intake!IntakeLiveSpec`: rounds follow one another, a breaking batch's run ends, and an
issue whose run answers over and over has its verdict taken once.
`IssueSplit!LiveSpec`: the umbrella phase of every round looks again, and none of
its three calls fails for ever. `FollowUp!LiveSpec`: weak fairness of each run's
sweep and next step (every call and sandbox has a timeout), of CI, of
Copilot's review or the loss of its request, and of the clearing of a dead run's
claim, which is `BuildingLabel`'s; failures are bounded
by `MaxFaults` there, so that they end. Nothing is assumed about the models or about people.

## 4. Known limits

What the code does not promise, though a comment may read as if it did. Each is
on the other side of a constant or of an exception in a property, named here so
that it can be seen by changing it.

* **A stale label and a fresh claim** (`BuildingLabel`, `RoundTripsOverlap =
  TRUE`, `BuildsHoldLabel` and `Exclusive`). `clearStaleBuildingLabels` reads a timeline and removes in
  a later call (`building.mts:73`). Another run starting then clears the stale
  label and claims the target in between; its fresh label is removed, although "A
  label a live run just added stays." (`building.mts:61`). The
  race the code accepts (`building.mts:112-114`) is another one, of two claims. The
  runs and the proofs leave both out, and no property here says that a fresh label
  stays.
* **A removal answered with an error** (`BuildingLabel`, `RemoveErrors =
  {"applied"}`, `Exclusive`): its retry may take off another run's label.
* **A link added though the call failed** (`Critique`, `AddErrors = {"lost",
  "applied"}`, `NoLoop`). The round remembers only links whose call succeeded
  (`critique.mts:203`), so a later verdict can close a loop with one that was
  added all the same.
* **A hand-back label put on by hand** (`IssueLife`, the `"by hand"` exception of
  `DiscardsWithConsent`). "the hand-back's comment is the only consent to
  discarding the work" (`follow-up.mts:905`), but `requeuedSince` takes any removal
  of `sandcastle:needs-human` since the pull request closed, also of a label a
  person added while it was open, when the sweep never posts that comment.
* **A branch left at base** (`IssueLife`, the `"stray"` exception of
  `LocalStartsClean`): a refused push leaves the branch it created behind for the
  local queue if its creation answered with an error, or its deletion fails,
  since it is deleted once and only if it was created.
* **A file `git status` does not show** (`BuildPipeline`, `EditKinds =
  {"unseen"}`, `PushedPassedGate`): the gate passes with it and without it in the
  commit.
* **The first Release** (`ReleaseQueue`, `FirstRelease = TRUE`,
  `VersionsFollowMerges`). With no Release yet only the pull request that started a
  run is queued (`release_queue.py:145`). A run for the second merge tags v0.0.1
  and fails to publish; a manual run releases the first merge as v0.0.2; the
  second takes up its tag.
* **A queueing in the middle of a load** (`QueueApproval`, `RequeueMidLoad =
  TRUE`, `KeepsApprovedText`). The text that goes on is the listing's
  (`queue.mts:311`), its approval rests on events read later: a text listed with a
  stranger's edit, which the owner then corrects and queues, is approved as it
  was listed. With `SharedSeconds = TRUE` an act in the second of the reads is
  hidden behind an unchanged cache key for the rest of the round.
* **Three bad issues in a row** (`Intake`, the code's own 10, 8 and 2 with 20
  issues, `MaxBreaking = 3`). "8 leaves room for three" (`config.mts:119`) holds
  inside a batch, not for three that straddle two batches, 9, 10 and 11: eight runs
  fail in a row. Such a group at the head of the queue starves those behind it in
  every round, since each round begins with the oldest.
* **Two splits at once** (not in `IssueSplit`). Two runs that both read the
  labels again (`intake.mts:218`) before either has marked the issue split it
  twice, although the mark is there "so neither a concurrent run nor a later round
  splits it a second time" (`intake.mts:91`, `311`). The re-read narrows the
  window and cannot close it; `SplitOnce` is about later rounds and runs only.
* **A red check without a run** (`FollowUp`, the first exception of
  `LeftToTheLog`). The sweep flags a pull request for any red check
  (`follow-up.mts:361`); a pass leaves out one that no run of Actions is behind,
  such as code scanning's "CodeQL" (`follow-up-pass.mts:858`), and skips a pull
  request with nothing else (`:873`), which keeps it out of the role's hands "over
  and over every sweep" (`:849-855`). It is flagged and skipped in every round, is
  not counted and not handed back, and only the log tells.
* **A review Copilot owes** (`FollowUp`, the second exception). GitHub can drop the
  one re-request of a head (`follow-up.mts:358`); the sweep then logs "a person
  needs to ask it" (`follow-up.mts:388-390`) and waits, and nothing else tells.
  `SettledOrHandedBack` fails without either exception.
* **A comment nobody read** (`FollowUp`). A pass replies to a thread as it read it
  under the claim (`follow-up-pass.mts:1261`). A comment posted since is answered
  by a reply that never saw it, and the thread then counts as answered.
  `ReviewThread`'s `Answer` allows it; a flag set by `Ask` and cleared by
  `PlanClaimed` for the threads it takes up shows it.

## 5. Proofs

| Module | Theorem | From |
|---|---|---|
| `BuildingLabelProofs` | `TypeCorrect` | the constants' assumptions alone |
| | `InvHolds`, `NeverBuiltTwice`, `LabelStaysUnderBuild`, `OnlyDeathOrphans`, for any number of runs and targets | `Benign` |
| `CritiqueProofs` | `NeverALoop`, for any set of issues | `"applied" \notin AddErrors` |
| `BuildPipelineProofs` | `InvHolds`, `PushesWhatTheGateChecked`, `PushesNoSecret`, `PushesNoUnreviewedRepair`, `CountsOnceAtMost`, `FallsBackClean`, for any number of roles and attempts | `NoUnseenEdits` |
| `IssueLifeProofs` | `InvHolds`, `TypeCorrect`, `NeverHandedBackSilently`, `GivesUpNoSooner`, `AsksBeforeDiscarding`, `BuildsFromMain`, `MovesWithoutABranch`, for any cap, any number of tries and any failures | the constants' assumptions alone |
| `IntakeProofs` | of `IssueSplit`: `InvHolds`, `HeldTillSplitHolds`, `SplitOnceHolds`, `BuiltInOrderHolds`, `ClosesWhatIsDoneHolds`, `HandBacksSayWhyHolds`, for any number of drafts and requeues and any failures | the constants' assumptions alone, of a specification with one run splitting at a time |
| | of `Intake`: `IntakeInvHolds`, `IsolatesHolds`, for any number of issues, batch size, limits and flakes | the constants' assumptions alone |
| `RoundsProofs` | of `Rounds`: `InvHolds`, `BuildsDisjointHolds`, `BuildsClearOfPRsHolds`, `HeldBehindWorkHolds`, `EveryRoundCountsHolds`, `HoldsLastForAReasonHolds`, for any number of issues, paths, rounds and pull requests | the constants' assumptions alone |
| | of `QueueApproval`: `QueueInvHolds`, `KeepsApprovedTextHolds`, `TrustsOwnersLabelsHolds`, for histories of any length | `Apart` |
| `FollowUpProofs` | `InvHolds`, `TypeCorrect`, `NeverBeyondTheCap`, `RepliesAreTrue`, `AnswersEachAskOnce` (the follow-up implements `ReviewThread`), for any number of runs, any cap and any bounds | the constants' assumptions alone |
| `ReleaseQueueProofs` | `InvHolds`, `VersionsInMergeOrder`, `ReleasesInOrder` (the workflow implements `ReleaseOrder`), for any number of merges | `HasRelease` |

**Building label.** `Exclusive` is not inductive: a release can take a label off
that is not its run's. `IInv` adds why it cannot: at most one run remembers a
target *young* enough to release it (`OneYoungHolder`); such a run's label is on
and no older than its claim (`HeldIsBacked`, which is why `markedByThisRun` is
set before the add); a label found stale is gone or still that old one
(`StaleStaysOld`); and a run between read and write is alone there
(`OneInWindow`). `Benign` names what this rests on: round trips do not overlap, a
failed removal did nothing, and if removals can fail, a failed add did put the
label on (otherwise an undo that fails leaves a run remembering a label that was
never there, and its retry removes someone else's). Section 4's first two limits
are what happens without the first and the second of these.
`OnlyDeathOrphans` follows from two
lemmas on a step, what it forgets (`Forgets`) and what it labels (`Labels`).

**Critique.** `NoLoop` holds with `WalkSeesLinks`: what the walk knows of an
issue is a superset of what is on GitHub, since links only come off behind its
back. The key lemma, `LinkAfterWalk`: a link from `id` to `blocker` where
`blocker` does not reach `id` keeps some issue of every group free. `Reach` is
defined as the least closed set, so that no induction is needed.

**Build pipeline.** The invariant follows, program counter by program counter,
what is known of `gated`, `head` and `mergedMain`; `NoUnseenEdits` says that no
uncommitted edit escapes `git status`. `CountsOnceAtMost` needs that an outcome
is the build's last (`OutcomeIsLast`), `FallsBackClean` that there is no commit
to fall back to before the merge (`ReviewedAtSync`).

**Release queue.** Neither promise is inductive. `IInv` adds that everything
merged before a tag is *settled*, opted out or inside a listed Release
(`TagsOnSettled`); that a run's queue leaves out only what is settled and holds
nothing older than a tag (`QueueComplete`); and that a job past its check has a
Release listed for all queued before it (`JobMayRelease`). `CutoffIsNewest` (the
highest version listed is the newest merge listed, from `VersionsFollowMerges`)
makes a plan establish `QueueComplete`; that and the job's check make a new tag
establish `TagsOnSettled`, and make a published Release the abstract `Release`.
The list of Releases may lag all along: the argument never needs an unlisted one.
`HasRelease` says that a first Release exists; section 4 has the other case.

**Issue's life.** The five promises rest on one another. Each part of the
invariant says what the run may rely on although GitHub and people move under
it: while a run is at work the label that hands the issue back is on only if a
person put it there, and no pull request of the issue's is open (`AtWork`);
labels follow their comment (`CommentFirst`); no more attempts are counted than
failed (`CountsFailures`); and a re-queueing since the pull request closed had
its comment before it (`AskedFirst`), which needs `CommentFirst` for the label it
takes off and `AtWork` for the run that may be handing the issue back again just
then. A label put on by hand (`Meddled`) excuses the two parts that read the
comments; a stray branch excuses `TakenBack`.

**Splits.** The mark carries the argument. It is on from `Mark` to the last
`Release` or until a person takes it off (`MarkTells`), so while a split's
children exist and the issue is queued as before, nobody splits it again
(`SplitsNumbered`); and while they are made the host knows every one of them
(`NothingMade`, `KnowsItsOwn`, `MadeSoFar`), which is what gives each draft one
child at most. Marks come off when the split is complete (`ReleasesItsOwn`), and
a child once free stays in a complete split (`FreeWhenComplete`): a split that is
handed back has none, and what people do with a handed-back one they do with all
of it (`ByHandAll`). The order needs `InBuildOrder`, that a child waits for the
one before it and the first for the issue's own blockers; since the gate lets a
child be built only when that blocker has landed, the one before it is completed
and so, by `BuiltInOrder` of that one, are all before. `Umbrellas` and
`FinishedStays` say that an umbrella found finished stays so up to the close.

**Rounds.** What a pick is held behind depends on what every earlier one is, so
`walkPicks` is a recursive function. That such a function exists cannot be had
from the library's induction theorem here; `WalkExists` takes the least number of
picks for which none would (`LeastNat`) and extends the one before it. From its
equation `OverlapsSay` proves what the round loop needs of the check, `Promise`:
the kept picks share no path with each other or with a pull request, and every
held one is behind a kept pick or a pull request. The round's invariant carries
this on: what each hold is behind (`HoldsBehind`), that pull requests are numbered
as they are opened (`Numbered`), and that a build that published opened one after
the check (`Published`). `EveryRoundCounts` has three cases: picks all held have
one held behind a pull request, whose hold lasts (`AllHeldCounts`); picks all
deferred each get a link they did not have, because the gate let no issue through
that waits on an open one (`NothingWaits`, `AllDeferredCounts`); or a build
published.

**Intake's rounds.** `unsettledTo` is a recursive function for the same reason as
`walkPicks`. A round's batches hold everybody nobody has judged (`BatchesHold`: an
issue's place divided by the batch size names its batch), and the halves of a
failed batch hold all of it unless it is a single issue (`NarrowHolds`). So the
issues a round has given up on (`Mates`) grow only by a batch of one, which is
the breaking issue or a flake's (`FailedSays`), and counting them is all that
`Isolates` needs besides the types.

**Queue.** The moment both promises speak of is the listing's, or that of the
events read when these end later. So the invariant says how the reads fit the
listing (`EventsFit`): what the events lack of it are labels of the host's, which
the approval does not ask about, and what they have beyond it is no queueing of
the owner's, so that the queueing they show is one that the listing shows as
well. For reads kept from an earlier load this is `CacheFits` and `KnownRead`: a
listing with the same key is of the same second, and in that second, after the
first listing, nobody but the host has acted. `Apart` names the two conditions,
`RequeueMidLoad` and `SharedSeconds` both `FALSE`; section 4 has what happens
without either.

**Follow-up.** Only the run that holds the claim is in a pass (`ClaimHeld`), so
that what it read under the claim, `planPass`'s second reading, stays true until
it is counted: there is room under the cap (`RoomToCount`), and the threads it
takes up wait for an answer (`ThreadsAwait`). `WorkStays` says that commits a run
has read stay in the pull request, which is what makes a named fix true after a
push answered with an error. The refinement then maps each step to an `Ask`, an
`Answer`, a `Resolve` or a stutter of `ReviewThread`. `RunsAssumption`, that no
run is called "none" or "left over", keeps the claim's two marks apart from runs.

Only model-checked: the liveness properties, which are out of the prover's reach.
Every safety invariant, action property and refinement that a run checks is also
a theorem.

## 6. Plan

Done, in order of importance: the label protocol (what lets runs share a
repository at all), the critique's links, the round loop with the overlap check,
the build pipeline, the issue's life between builds, the release queue, the
queue's approval, intake with its splits and umbrellas, the follow-up.

Next modules: the approval of hand-off pull requests and the record of their
head (`follow-up.mts:269`), with the pass's second claim of the issue; a second
split at once beside `IssueSplit`'s; an abstract lock that `BuildingLabel`
refines under `Benign`.

Not modelled, and not planned: formatting (`report`, `status`, `prompts`);
one-shot host checks (`host-safety`, `security-record`); the review ledger, a
command of its own that compares one set of reads and changes nothing the rest
uses; the sandbox library's configuration; CI definitions and the other scripts;
and the web application. None of them keeps state that two steps could disagree
about.
