------------------------------ MODULE FollowUp ------------------------------
(***************************************************************************)
(* The follow-up of one pull request by overlapping runs: the sweep        *)
(* (.sandcastle/lib/follow-up.mts) that updates or flags it, and the pass  *)
(* (.sandcastle/lib/follow-up-pass.mts) that merges main, runs the role,   *)
(* gates, pushes, answers review threads, re-runs flaky checks and gives   *)
(* the pull request up, while people push, ask, and move main, and Copilot *)
(* reviews heads or lets a request go.                                     *)
(***************************************************************************)
EXTENDS Naturals, FiniteSets

CONSTANTS
    Runs,               \* the runs, full or follow-up-only
    Threads,            \* the review threads: "bot", opened by a bot, "owner", by the owner
    Checks,             \* the checks of a head: two jobs of Actions and, without a run of
                        \* its own, code scanning's result
    FOLLOW_UP_PASS_CAP,
    MaxMain,            \* bound on the commits main gets
    MaxActs,            \* bound on people's pushes, questions and hand-backs taken back
    MaxFaults           \* bound on failed calls and dead runs

ASSUME RunsAssumption == {"none", "left over"} \cap Runs = {}
ASSUME ThreadsAssumption == Threads \subseteq {"bot", "owner"}
ASSUME ChecksAssumption == Checks \subseteq {"build", "codeql", "code scanning"}
ASSUME BoundsAssumption ==
    /\ {FOLLOW_UP_PASS_CAP, MaxMain, MaxActs, MaxFaults} \subseteq Nat
    /\ FOLLOW_UP_PASS_CAP > 0

VARIABLES
    pr,      \* the pull request: its head, checks, Copilot's review of it, label
             \* and counted passes
    thread,  \* its review threads, with what each was told is fixed
    main,    \* how many commits main has had
    clash,   \* those of them that do not merge into a head without them
    claim,   \* the run whose sandcastle:building is on it
    run,     \* where each run is, and the pull request as its sweep read it
    pass,    \* the claiming run's pass
    spent    \* what is used of the bounds

vars == <<pr, thread, main, clash, claim, run, pass, spent>>

GATE_COVERED_CHECKS == {"build"}

\* The checks with an Actions run behind them, a runId.
WithRun == {"build", "codeql"}

\* A commit is its own history: the commits of the branch, and how much of main.
Contains(commit, ancestor) == ancestor.work \subseteq commit.work /\ ancestor.main <= commit.main
NewCommit(who, head) == <<who, Cardinality(head.work) + 1>>
Commit(head, who) == [head EXCEPT !.work = @ \cup {NewCommit(who, head)}]
Merge(head, base, who) == [Commit(head, who) EXCEPT !.main = base]
Conflicts(head, base) == \E m \in clash : head.main < m /\ m <= base

Head == [work |-> pr.work, main |-> pr.main]
NoHead == [work |-> {}, main |-> 0]
Conflicted == Conflicts(Head, main)
Running == [c \in Checks |-> "running"]

\* A review is of one head, and so is the one re-request; a pending request stays.
WithHead(head) == [pr EXCEPT !.work = head.work, !.main = head.main, !.checks = Running, !.reran = FALSE,
                             !.asked = FALSE, !.reviewed = FALSE]

Idle == [at |-> "off", head |-> NoHead, conflicted |-> FALSE, base |-> 0]
NoPass == [forRole |-> {}, needsMerge |-> FALSE, red |-> {}, gate |-> "none", merged |-> "none", rerun |-> {},
           forward |-> {}, tree |-> NoHead, pushed |-> FALSE, left |-> {}]

Init ==
    /\ pr = [work |-> {<<"build", 1>>}, main |-> 0, checks |-> Running, reran |-> FALSE, needsHuman |-> FALSE, passes |-> 0,
             requested |-> TRUE, asked |-> FALSE, reviewed |-> FALSE]
    /\ thread = [t \in Threads |-> [resolved |-> FALSE, last |-> "asker", asks |-> 1, replies |-> 0, fixed |-> {}]]
    /\ main = 0 /\ clash = {} /\ claim = "none"
    /\ run = [r \in Runs |-> Idle] /\ pass = NoPass
    /\ spent = [acts |-> 0, faults |-> 0]

To(r, at) == [run EXCEPT ![r] = IF at = "off" THEN Idle ELSE [@ EXCEPT !.at = at]]
Goes(r, at) == run' = To(r, at)
MayFail == spent.faults < MaxFaults
Fault == MayFail /\ spent' = [spent EXCEPT !.faults = @ + 1]

\* One call on GitHub for run r: it succeeds, or its error leaves it done or not done.
Try(r, prAfter, threadAfter, ok, failed) ==
    \/ pr' = prAfter /\ thread' = threadAfter /\ Goes(r, ok) /\ UNCHANGED spent
    \/ Fault /\ Goes(r, failed) /\ pr' = prAfter /\ thread' = threadAfter
    \/ Fault /\ Goes(r, failed) /\ UNCHANGED <<pr, thread>>

-----------------------------------------------------------------------------
(* What a sweep and a pass decide from.                                      *)

threadStanding(t) ==
    IF thread[t].resolved THEN "resolved" ELSE IF thread[t].last = "host" THEN "answered" ELSE "open"

threadsForRole == {t \in Threads : threadStanding(t) = "open"}

\* Mutant of flaggedThreads: the threads the host answered count too.
flaggedWithAnswered == {t \in Threads : ~thread[t].resolved}

\* withoutAnsweredThreads
flaggedThreads == threadsForRole

ChecksRun == \E c \in Checks : pr.checks[c] = "running"
Red == {c \in Checks : pr.checks[c] = "red"}

\* What a pass acts on: no pass can re-run, forward or fix a check without a run.
redChecks == IF ChecksRun THEN {} ELSE Red \cap WithRun

\* The sweep flags any red check.  It asks Copilot once about a head, when the
\* checks have long been done; after that only the log says whom it waits for.
decide ==
    IF Conflicted THEN "needs-pass"
    ELSE IF ChecksRun THEN "wait"
    ELSE IF Red # {} \/ flaggedThreads # {} THEN "needs-pass"
    ELSE IF pr.requested \/ (~pr.reviewed /\ pr.asked) THEN "wait"
    ELSE IF ~pr.reviewed THEN "request-review"
    ELSE IF pr.main < main THEN "update-branch"
    ELSE "leave"

needsMerge(target) == target.base > target.head.main /\ (target.conflicted \/ redChecks # {})
NothingToDo(target) ==
    Head # target.head \/ (~needsMerge(target) /\ redChecks = {} /\ threadsForRole = {})
AtCap == pr.passes >= FOLLOW_UP_PASS_CAP

\* Mutant of planPass: the cap is checked before the claim, not under it.
planPassCapFirst(target, claimed) ==
    IF NothingToDo(target) \/ (~claimed /\ AtCap) THEN "skip" ELSE "pass"

\* The head moved or nothing to do; the cap counts only under the claim.
planPass(target, claimed) ==
    IF NothingToDo(target) THEN "skip" ELSE IF claimed /\ AtCap THEN "hand-back" ELSE "pass"

-----------------------------------------------------------------------------
(* The sweep, and a pass up to its claim.                                    *)

\* It waits for a person, or a run is building or passing on it.
sweepSkipReason == pr.needsHuman \/ claim # "none"

Sweep(r) ==
    /\ run[r].at = "off" /\ ~sweepSkipReason
    /\ decide \in {"needs-pass", "request-review", "update-branch"}
    /\ run' = [run EXCEPT ![r] = [at |-> decide, head |-> Head, conflicted |-> Conflicted, base |-> 0]]
    /\ UNCHANGED <<pr, thread, main, clash, claim, pass, spent>>

\* GitHub records the request for the pull request, whatever its head is by
\* now: it counts as asked once a check of the head has completed.
requestCopilotReview(r) ==
    /\ run[r].at = "request-review"
    /\ Try(r, [pr EXCEPT !.requested = TRUE, !.asked = @ \/ \E c \in Checks : pr.checks[c] # "running"],
           thread, "off", "off")
    /\ UNCHANGED <<main, clash, claim, pass>>

\* GitHub merges main only into the head the sweep read.
updateBranch(r) ==
    /\ run[r].at = "update-branch"
    /\ \/ Head = run[r].head /\ ~Conflicted
          /\ Try(r, WithHead(Merge(Head, main, "github")), thread, "off", "off")
       \/ (Head # run[r].head \/ Conflicted) /\ Goes(r, "off") /\ UNCHANGED <<pr, thread, spent>>
    /\ UNCHANGED <<main, clash, claim, pass>>

\* fetchMain, and the read before the claim.
Plan(r) ==
    /\ run[r].at = "needs-pass"
    /\ LET target == [run[r] EXCEPT !.base = main]
       IN  \/ planPass(target, FALSE) = "skip" /\ Goes(r, "off")
           \/ planPass(target, FALSE) = "pass" /\ run' = [run EXCEPT ![r] = [target EXCEPT !.at = "claim"]]
    /\ UNCHANGED <<pr, thread, main, clash, claim, pass, spent>>

Claim(r) ==
    /\ run[r].at = "claim"
    /\ \/ claim = "none" /\ claim' = r /\ Goes(r, "planPass")
       \/ claim # "none" /\ claim' = claim /\ Goes(r, "off")
    /\ UNCHANGED <<pr, thread, main, clash, pass, spent>>

\* The read under the claim: what the pass decides from.
PlanClaimed(r) ==
    /\ run[r].at = "planPass"
    /\ \/ planPass(run[r], TRUE) = "skip" /\ Goes(r, "release") /\ UNCHANGED pass
       \/ planPass(run[r], TRUE) = "hand-back" /\ Goes(r, "giveUp") /\ UNCHANGED pass
       \/ /\ planPass(run[r], TRUE) = "pass" /\ Goes(r, "prepare")
          /\ pass' = [NoPass EXCEPT !.forRole = threadsForRole, !.left = threadsForRole,
                                    !.needsMerge = needsMerge(run[r]), !.red = redChecks]
    /\ UNCHANGED <<pr, thread, main, clash, claim, spent>>

-----------------------------------------------------------------------------
(* A pass in its sandbox.                                                    *)

EndPass(r, at) == Goes(r, at) /\ pass' = NoPass

\* The logs are those of the commit the pass judges.
failedCheckLogs(target) == Head = target.head

\* Reset to the head, then main: first when GitHub says it merges, else after
\* the gate has judged the head's red checks.  The role gets the failed-job log
\* of those the gate does not cover.
Prepare(r) ==
    LET target == run[r]
        conflicts == pass.needsMerge /\ Conflicts(target.head, target.base)
        merged == IF ~pass.needsMerge THEN "none" ELSE IF conflicts THEN "conflicts" ELSE "clean"
        tree == IF merged = "clean" THEN Merge(target.head, target.base, "host") ELSE target.head
    IN  /\ target.at = "prepare"
        /\ \/ \E gate \in IF pass.red = {} THEN {"none"} ELSE {"green", "red"} :
                LET forward == IF gate = "green" THEN pass.red \ GATE_COVERED_CHECKS ELSE {}
                IN  /\ forward = {} \/ failedCheckLogs(target)
                    /\ Goes(r, "role")
                    /\ pass' = [pass EXCEPT !.gate = gate, !.merged = merged, !.tree = tree, !.forward = forward,
                                            !.rerun = IF gate = "green" THEN pass.red \cap GATE_COVERED_CHECKS ELSE {}]
           \/ EndPass(r, "giveUp")
        /\ UNCHANGED <<pr, thread, main, clash, claim, spent>>

roleRuns == pass.merged = "conflicts" \/ pass.forRole # {} \/ pass.forward # {}

\* Nothing has changed the tree since the gate passed on it.
unchangedGate(r) == ~roleRuns /\ pass.gate = "green" /\ (pass.merged = "none" \/ ~run[r].conflicted)

\* Where the role and the gate-fixer can leave the branch: as it was, with a
\* commit, or its history rewritten; a conflicting merge abandoned or finished.
Results(r) ==
    IF unchangedGate(r) THEN {pass.tree}
    ELSE IF pass.merged = "conflicts" THEN {pass.tree, Merge(pass.tree, run[r].base, "role")}
    ELSE {pass.tree, Commit(pass.tree, "role"), Commit(NoHead, "role")}

\* A commit the gate passed, that has the head and the main it was to merge.
Gated(r) ==
    {c \in Results(r) : Contains(c, run[r].head) /\ (pass.needsMerge => c.main >= run[r].base)}

Role(r) ==
    /\ run[r].at = "role"
    /\ \/ \E c \in Gated(r) :
            /\ pass' = [pass EXCEPT !.tree = c]
            /\ Goes(r, IF c = run[r].head THEN "answer" ELSE "push")
          /\ UNCHANGED spent
       \/ EndPass(r, "giveUp") /\ UNCHANGED spent
       \/ EndPass(r, "release") /\ Fault
    /\ UNCHANGED <<pr, thread, main, clash, claim>>

-----------------------------------------------------------------------------
(* A pass on GitHub.                                                         *)

Pushed(r) == pass' = [pass EXCEPT !.pushed = TRUE] /\ Goes(r, "answer")

\* A plain push.  A leaked secret or a workflow change ends the pass; any
\* other error leaves it to see what the remote holds.
Push(r) ==
    /\ run[r].at = "push"
    /\ \/ EndPass(r, "giveUp") /\ UNCHANGED <<pr, spent>>
       \/ Contains(pass.tree, Head) /\ pr' = WithHead(pass.tree)
          /\ \/ Pushed(r) /\ UNCHANGED spent
             \/ Goes(r, "remoteHead") /\ Fault /\ UNCHANGED pass
       \/ ~Contains(pass.tree, Head) /\ Goes(r, "remoteHead") /\ UNCHANGED <<pr, pass, spent>>
       \/ Goes(r, "remoteHead") /\ Fault /\ UNCHANGED <<pr, pass>>
    /\ UNCHANGED <<thread, main, clash, claim>>

\* Mutant of RemoteHead: whatever it holds, the push is taken to have landed.
RemoteHeadTrusting(r) ==
    /\ run[r].at = "remoteHead" /\ Pushed(r)
    /\ UNCHANGED <<pr, thread, main, clash, claim, spent>>

\* It landed all the same, was refused, or lost to another push; an unread
\* remote counts as moved.
RemoteHead(r) ==
    /\ run[r].at = "remoteHead"
    /\ \/ Head = pass.tree /\ Pushed(r) /\ UNCHANGED spent
       \/ Head = run[r].head /\ EndPass(r, "giveUp") /\ UNCHANGED spent
       \/ Head \notin {pass.tree, run[r].head} /\ EndPass(r, "release") /\ UNCHANGED spent
       \/ Fault /\ EndPass(r, "release")
    /\ UNCHANGED <<pr, thread, main, clash, claim>>

\* What a verdict can call the fix: a commit of the branch or of the pass, one
\* the role threw away, or one of main's.
Named(r) == pass.tree.work \cup {<<"thrown away", 0>>, <<"main", run[r].base>>}

\* fixesInPush: the commits the pass itself added.
fixesInPush(r) == {c \in pass.tree.work \ run[r].head.work : c[1] # "host"}

Replied(t, fix) == [thread EXCEPT ![t].last = "host", ![t].replies = @ + 1, ![t].fixed = @ \cup fix]

\* Mutant of Reply: the thread is resolved although the reply failed.
ReplyOrNot(r, t) ==
    /\ run[r].at = "answer" /\ t \in pass.left
    /\ \/ \E fix \in {{}} \cup {{c} : c \in Named(r) \cap fixesInPush(r)} :
            Try(r, pr, Replied(t, fix), IF t = "bot" THEN "resolve" ELSE "answer", IF t = "bot" THEN "resolve" ELSE "answer")
       \/ Goes(r, "answer") /\ UNCHANGED <<pr, thread, spent>>
    /\ pass' = [pass EXCEPT !.left = @ \ {t}]
    /\ UNCHANGED <<main, clash, claim>>

\* A verdict's reply: declined, outdated, or fixed by a commit that is there.
\* Without one, or when it fails, the thread is left as it is.
Reply(r, t) ==
    /\ run[r].at = "answer" /\ t \in pass.left
    /\ \/ \E fix \in {{}} \cup {{c} : c \in Named(r) \cap fixesInPush(r)} :
            Try(r, pr, Replied(t, fix), IF t = "bot" THEN "resolve" ELSE "answer", "answer")
       \/ Goes(r, "answer") /\ UNCHANGED <<pr, thread, spent>>
    /\ pass' = [pass EXCEPT !.left = @ \ {t}]
    /\ UNCHANGED <<main, clash, claim>>

Resolve(r) ==
    /\ run[r].at = "resolve"
    /\ Try(r, pr, [thread EXCEPT !["bot"].resolved = TRUE], "answer", "answer")
    /\ UNCHANGED <<main, clash, claim, pass>>

\* The role had only a log to work from and made nothing of it.
NothingMade == pass.forward # {} /\ pass.forRole = {} /\ pass.merged # "conflicts" /\ ~pass.pushed

\* Once for a head, and only for the one the pass judged; what is still red
\* after it goes to a person.
rerunFailedChecksOnce(r, names, next) ==
    LET rerun == [pr EXCEPT !.checks = [c \in Checks |-> IF c \in names THEN "running" ELSE @[c]], !.reran = TRUE]
    IN  \/ Head = run[r].head /\ ~pr.reran /\ Try(r, rerun, thread, next, "giveUp")
        \/ (Head # run[r].head \/ pr.reran) /\ Goes(r, "giveUp") /\ UNCHANGED <<pr, thread, spent>>

\* Red checks the gate covers are re-run on a head nothing was pushed to.
Rerun(r) ==
    /\ run[r].at = "answer" /\ pass.left = {}
    /\ LET next == IF NothingMade THEN "giveUp" ELSE "summary"
       IN  \/ (pass.rerun = {} \/ pass.pushed) /\ Goes(r, next) /\ UNCHANGED <<pr, thread, spent>>
           \/ pass.rerun # {} /\ ~pass.pushed /\ rerunFailedChecksOnce(r, pass.rerun, next)
    /\ pass' = NoPass
    /\ UNCHANGED <<main, clash, claim>>

\* The comment that counts the pass.
Summary(r) ==
    /\ run[r].at = "summary"
    /\ Try(r, [pr EXCEPT !.passes = @ + 1], thread, "release", "release")
    /\ UNCHANGED <<main, clash, claim, pass>>

giveUp(r) ==
    /\ run[r].at = "giveUp"
    /\ Try(r, [pr EXCEPT !.needsHuman = TRUE], thread, "release", "release")
    /\ UNCHANGED <<main, clash, claim, pass>>

Release(r) ==
    /\ run[r].at = "release" /\ Goes(r, "off") /\ claim' = "none"
    /\ UNCHANGED <<pr, thread, main, clash, pass, spent>>

-----------------------------------------------------------------------------
(* Everyone else.                                                            *)

\* A run dies in a pass (before one it leaves no trace); the claim stays until
\* a later run finds it too old.
Dies(r) ==
    /\ claim = r /\ claim' = "left over" /\ Fault /\ EndPass(r, "off")
    /\ UNCHANGED <<pr, thread, main, clash>>

ClearStale ==
    /\ claim = "left over" /\ claim' = "none"
    /\ UNCHANGED <<pr, thread, main, clash, run, pass, spent>>

\* GitHub runs no checks on a head that conflicts.
ChecksFinish ==
    /\ ChecksRun /\ ~Conflicted
    /\ \E result \in [Checks -> {"green", "red"}] :
        pr' = [pr EXCEPT !.checks = [c \in Checks |-> IF @[c] = "running" THEN result[c] ELSE @[c]]]
    /\ UNCHANGED <<thread, main, clash, claim, run, pass, spent>>

\* Copilot reviews the head, or the request goes without a review of it.
CopilotAnswers ==
    /\ pr.requested
    /\ \E reviewed \in {pr.reviewed, TRUE} : pr' = [pr EXCEPT !.requested = FALSE, !.reviewed = reviewed]
    /\ UNCHANGED <<thread, main, clash, claim, run, pass, spent>>

MainMoves ==
    /\ main < MaxMain /\ main' = main + 1
    /\ \/ clash' = clash \/ clash' = clash \cup {main'}
    /\ UNCHANGED <<pr, thread, claim, run, pass, spent>>

Act == spent.acts < MaxActs /\ spent' = [spent EXCEPT !.acts = @ + 1]

\* A commit on top of the head, or main merged by hand.
PeoplePush ==
    /\ Act
    /\ \E base \in {pr.main, main} : pr' = WithHead(Merge(Head, base, "people"))
    /\ UNCHANGED <<thread, main, clash, claim, run, pass>>

Ask(t) ==
    /\ threadStanding(t) # "resolved" /\ Act
    /\ thread' = [thread EXCEPT ![t].asks = @ + 1, ![t].last = "asker"]
    /\ UNCHANGED <<pr, main, clash, claim, run, pass>>

\* The owner takes needs-human off: passes count anew.
Requeue ==
    /\ pr.needsHuman /\ Act
    /\ pr' = [pr EXCEPT !.needsHuman = FALSE, !.passes = 0]
    /\ UNCHANGED <<thread, main, clash, claim, run, pass>>

-----------------------------------------------------------------------------

\* What a run does once it has begun.
Step(r) ==
    \/ requestCopilotReview(r) \/ updateBranch(r) \/ Plan(r) \/ Claim(r) \/ PlanClaimed(r)
    \/ Prepare(r) \/ Role(r) \/ Push(r) \/ RemoteHead(r)
    \/ \E t \in Threads : Reply(r, t)
    \/ Resolve(r) \/ Rerun(r) \/ Summary(r) \/ giveUp(r) \/ Release(r)

People == MainMoves \/ PeoplePush \/ Requeue \/ \E t \in Threads : Ask(t)

Next ==
    \/ \E r \in Runs : Sweep(r) \/ Step(r) \/ Dies(r)
    \/ ClearStale \/ ChecksFinish \/ CopilotAnswers \/ People

Spec == Init /\ [][Next]_vars

\* Rounds keep coming, a round goes on, CI ends, a request for a review is
\* answered or dropped, a left-over claim gets old.
LiveSpec ==
    /\ Spec
    /\ \A r \in Runs : WF_vars(Sweep(r)) /\ WF_vars(Step(r))
    /\ WF_vars(ChecksFinish) /\ WF_vars(CopilotAnswers) /\ WF_vars(ClearStale)

-----------------------------------------------------------------------------
(* Properties.                                                               *)

Works == {"build", "people", "github", "host", "role"} \X Nat
IsCommit(c) == c.work \subseteq Works /\ c.main \in 0..MaxMain

\* Type invariant.
TypeOK ==
    /\ IsCommit(Head) /\ pr.checks \in [Checks -> {"running", "green", "red"}]
    /\ pr.passes \in Nat /\ {pr.reran, pr.needsHuman, pr.requested, pr.asked, pr.reviewed} \subseteq BOOLEAN
    /\ \A t \in Threads :
        /\ thread[t].last \in {"asker", "host"} /\ thread[t].fixed \subseteq Works
        /\ thread[t].resolved \in BOOLEAN
        /\ thread[t].asks \in 1..(MaxActs + 1) /\ thread[t].replies \in Nat
    /\ main \in 0..MaxMain /\ clash \subseteq 1..main
    /\ claim \in Runs \cup {"none", "left over"}
    /\ \A r \in Runs : IsCommit(run[r].head) /\ run[r].base \in 0..main
    /\ claim \notin Runs => pass = NoPass
    /\ IsCommit(pass.tree) /\ pass.left \subseteq pass.forRole /\ pass.forRole \subseteq Threads
    /\ pass.red \subseteq Checks /\ pass.rerun \cup pass.forward \subseteq pass.red

\* No more passes than the cap are counted on a pull request between two
\* hand-backs (planPass, FOLLOW_UP_PASS_CAP), whatever the runs read at once.
PassesCapped == pr.passes <= FOLLOW_UP_PASS_CAP

\* "Fixed in c" on a thread is true: c is in the pull request (fixesInPush and
\* the push errors before it).
FixesAreInThePullRequest == \A t \in Threads : thread[t].fixed \subseteq pr.work

\* The follow-up implements the promise about threads.
Promise == INSTANCE ReviewThread WITH
    BotThreads <- Threads \cap {"bot"},
    standing <- [t \in Threads |-> threadStanding(t)],
    asks <- [t \in Threads |-> thread[t].asks],
    replies <- [t \in Threads |-> thread[t].replies]

AnswersOnce == Promise!Spec

Settled ==
    /\ ~Conflicted /\ pr.main = main /\ threadsForRole = {}
    /\ \A c \in Checks : pr.checks[c] = "green"
    /\ pr.reviewed

\* What a run only logs, round after round, though it could do no more: a red
\* check without a run, which the sweep flags and planPass skips, or a review
\* Copilot owes although it was asked again.
LeftToTheLog ==
    /\ ~Conflicted /\ ~ChecksRun /\ redChecks = {} /\ threadsForRole = {}
    /\ Red # {} \/ (pr.asked /\ ~pr.requested /\ ~pr.reviewed)

\* Every pull request gets settled, or goes to a person (sweepPullRequests,
\* runPass, giveUp), also after failed calls and dead runs, unless all that is
\* left of it is what only the log tells a person: nothing a pass takes up, no
\* conflict and no unanswered thread is passed over for good.
SettledOrHandedBack == <>[](Settled \/ pr.needsHuman \/ LeftToTheLog)

=============================================================================
