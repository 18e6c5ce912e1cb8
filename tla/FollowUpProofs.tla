---------------------------- MODULE FollowUpProofs ----------------------------
(* What a follow-up pass does to its pull request, proved for any number of  *)
(* runs, any cap, and any number of pushes, comments and failures.           *)
EXTENDS FollowUp, FiniteSetTheorems, TLAPS

Steps ==
    {"off", "needs-pass", "request-review", "update-branch", "claim", "planPass", "prepare", "role",
     "push", "remoteHead", "answer", "resolve", "summary", "giveUp", "release"}

\* The steps under the claim, and those of them with a pass not yet counted.
InSandbox == {"prepare", "role", "push", "remoteHead", "answer", "resolve"}
Uncounted == InSandbox \cup {"summary"}
UnderClaim == Uncounted \cup {"planPass", "giveUp", "release"}

Commits == [work : {w \in SUBSET Works : IsFiniteSet(w)}, main : 0..MaxMain]

PullRequests ==
    [work : {w \in SUBSET Works : IsFiniteSet(w)}, main : 0..MaxMain,
     checks : [Checks -> {"running", "green", "red"}],
     reran : BOOLEAN, needsHuman : BOOLEAN, passes : Nat,
     requested : BOOLEAN, asked : BOOLEAN, reviewed : BOOLEAN]

ThreadRecords ==
    [resolved : BOOLEAN, last : {"asker", "host"},
     asks : 1..(spent.acts + 1), replies : Nat, fixed : SUBSET Works]

RunRecords == [at : Steps, head : Commits, conflicted : BOOLEAN, base : 0..main]

PassRecords ==
    [forRole : SUBSET Threads, needsMerge : BOOLEAN, red : SUBSET Checks,
     gate : {"none", "green", "red"}, merged : {"none", "clean", "conflicts"},
     rerun : SUBSET Checks, forward : SUBSET Checks, tree : Commits,
     pushed : BOOLEAN, left : SUBSET Threads]

\* TypeOK with the records whole.
Typed ==
    /\ pr \in PullRequests
    /\ thread \in [Threads -> ThreadRecords]
    /\ main \in 0..MaxMain /\ clash \subseteq 1..main
    /\ claim \in Runs \cup {"none", "left over"}
    /\ run \in [Runs -> RunRecords]
    /\ pass \in PassRecords
    /\ pass.left \subseteq pass.forRole /\ pass.rerun \cup pass.forward \subseteq pass.red
    /\ spent \in [acts : 0..MaxActs, faults : Nat]

\* Only the run that holds the claim is in a pass, and a pass ends with it.
ClaimHeld ==
    /\ \A r \in Runs : run[r].at \in UnderClaim => claim = r
    /\ claim \notin Runs => pass = NoPass
    /\ \A r \in Runs : run[r].at \in UnderClaim \ InSandbox => pass = NoPass

\* A pass that is not counted yet leaves room under the cap.
RoomToCount == \A r \in Runs : run[r].at \in Uncounted => pr.passes < FOLLOW_UP_PASS_CAP

\* No commit a run has read leaves the pull request; once the push is settled
\* all of the pass's are in it.
WorkStays ==
    /\ \A r \in Runs : run[r].head.work \subseteq pr.work
    /\ \A r \in Runs : run[r].at \in {"answer", "resolve"} => pass.tree.work \subseteq pr.work

\* The threads a pass has still to answer are open, and the one it is about to
\* resolve has its reply.
ThreadsAwait ==
    /\ \A t \in pass.left : threadStanding(t) = "open"
    /\ \A r \in Runs : run[r].at = "resolve" =>
        /\ "bot" \in Threads \ pass.left
        /\ ~thread["bot"].resolved /\ thread["bot"].replies > 0

IInv ==
    /\ Typed /\ ClaimHeld /\ RoomToCount /\ WorkStays /\ ThreadsAwait
    /\ PassesCapped /\ FixesAreInThePullRequest

-----------------------------------------------------------------------------
(* Commits and steps.                                                        *)

LEMMA BoundsTyped ==
    /\ {FOLLOW_UP_PASS_CAP, MaxMain, MaxActs, MaxFaults} \subseteq Nat
    /\ FOLLOW_UP_PASS_CAP > 0
BY BoundsAssumption DEF BoundsAssumption

LEMMA NoHeadTyped == NoHead \in Commits
BY FS_EmptySet, BoundsTyped DEF NoHead, Commits

LEMMA CommitTyped ==
    ASSUME NEW head \in Commits, NEW who \in {"build", "people", "github", "host", "role"}
    PROVE  /\ Commit(head, who) \in Commits
           /\ head.work \subseteq Commit(head, who).work
           /\ Commit(head, who).main = head.main
<1>1. IsFiniteSet(head.work) /\ head.work \subseteq Works
  BY DEF Commits
<1>2. NewCommit(who, head) \in Works
  BY <1>1, FS_CardinalityType DEF NewCommit, Works
<1>3. IsFiniteSet(head.work \cup {NewCommit(who, head)})
  BY <1>1, FS_AddElement
<1> QED
  BY <1>1, <1>2, <1>3 DEF Commit, Commits

LEMMA MergeTyped ==
    ASSUME NEW head \in Commits, NEW base \in 0..MaxMain,
           NEW who \in {"build", "people", "github", "host", "role"}
    PROVE  /\ Merge(head, base, who) \in Commits
           /\ head.work \subseteq Merge(head, base, who).work
BY CommitTyped DEF Merge, Commits

LEMMA HeadTyped == ASSUME Typed PROVE Head \in Commits
BY DEF Typed, Head, PullRequests, Commits

LEMMA WithHeadTyped ==
    ASSUME Typed, NEW head \in Commits
    PROVE  /\ WithHead(head) \in PullRequests
           /\ WithHead(head).work = head.work
           /\ WithHead(head).passes = pr.passes
BY DEF Typed, WithHead, PullRequests, Commits, Running

\* A run goes to its next step with what it read, or ends.
LEMMA ToTyped ==
    ASSUME Typed, NEW r \in Runs, NEW at \in Steps
    PROVE  /\ To(r, at) \in [Runs -> RunRecords]
           /\ To(r, at)[r].at = at
           /\ To(r, at)[r].head.work \in {run[r].head.work, {}}
           /\ \A q \in Runs \ {r} : To(r, at)[q] = run[q]
<1>1. 0 \in 0..main
  <2>1. MaxMain \in Nat /\ main \in 0..MaxMain
    BY BoundsTyped DEF Typed
  <2> QED
    BY <2>1
<1>2. Idle \in RunRecords
  BY <1>1, NoHeadTyped DEF Idle, RunRecords, Steps
<1>3. Idle.at = "off" /\ Idle.head.work = {}
  BY DEF Idle, NoHead
<1> QED
  BY <1>2, <1>3 DEF To, Typed, RunRecords

LEMMA FaultTyped ==
    ASSUME Typed, Fault
    PROVE  spent' \in [acts : 0..MaxActs, faults : Nat] /\ spent'.acts = spent.acts
<1>1. spent \in [acts : 0..MaxActs, faults : Nat]
  BY DEF Typed
<1> QED
  BY <1>1 DEF Fault

\* A call leaves what it was to leave, done or not, and its run at one of two steps.
LEMMA TryTyped ==
    ASSUME Typed, NEW r \in Runs, NEW prAfter, NEW threadAfter, NEW ok, NEW failed,
           Try(r, prAfter, threadAfter, ok, failed)
    PROVE  /\ pr' \in {pr, prAfter} /\ thread' \in {thread, threadAfter}
           /\ \/ run' = To(r, ok) /\ pr' = prAfter /\ thread' = threadAfter
              \/ run' = To(r, failed)
           /\ spent' \in [acts : 0..MaxActs, faults : Nat] /\ spent'.acts = spent.acts
<1>1. spent \in [acts : 0..MaxActs, faults : Nat]
  BY DEF Typed
<1> QED
  BY <1>1, FaultTyped DEF Try, Goes

\* A person's act leaves room for one more ask on each thread.
LEMMA ActTyped ==
    ASSUME Typed, Act
    PROVE  /\ spent' \in [acts : 0..MaxActs, faults : Nat]
           /\ spent'.acts = spent.acts + 1
           /\ \A t \in Threads : thread[t] \in ThreadRecords' /\ thread[t].asks + 1 \in 1..(spent'.acts + 1)
<1>1. MaxActs \in Nat /\ spent \in [acts : 0..MaxActs, faults : Nat]
  BY BoundsTyped DEF Typed
<1>2. spent' \in [acts : 0..MaxActs, faults : Nat] /\ spent'.acts = spent.acts + 1
  BY <1>1 DEF Act
<1>3. ASSUME NEW t \in Threads
      PROVE  thread[t] \in ThreadRecords' /\ thread[t].asks + 1 \in 1..(spent'.acts + 1)
  <2>1. thread[t] \in ThreadRecords
    BY DEF Typed
  <2>2. thread[t].asks \in 1..(spent.acts + 1) /\ spent.acts \in Nat
    BY <1>1, <2>1 DEF ThreadRecords
  <2>3. thread[t].asks \in 1..(spent'.acts + 1) /\ thread[t].asks + 1 \in 1..(spent'.acts + 1)
    BY <1>2, <2>2
  <2> QED
    BY <2>1, <2>3 DEF ThreadRecords
<1> QED
  BY <1>2, <1>3

\* What a pass holds stays of its type.
WellFormed(p) ==
    p \in PassRecords /\ p.left \subseteq p.forRole /\ p.rerun \cup p.forward \subseteq p.red

LEMMA NoPassTyped == WellFormed(NoPass)
BY NoHeadTyped DEF WellFormed, NoPass, PassRecords

\* What a step of a run leaves when main and people stay where they are.
StepTypes ==
    /\ pr' \in PullRequests /\ thread' \in [Threads -> ThreadRecords]
    /\ claim' \in Runs \cup {"none", "left over"}
    /\ run' \in [Runs -> RunRecords] /\ WellFormed(pass')
    /\ spent' \in [acts : 0..MaxActs, faults : Nat] /\ spent'.acts = spent.acts
    /\ UNCHANGED <<main, clash>>

LEMMA StepTypesTyped == ASSUME Typed, StepTypes PROVE Typed'
BY DEF Typed, StepTypes, WellFormed, PullRequests, ThreadRecords, RunRecords, PassRecords, Commits

LEMMA Stays ==
    ASSUME Typed
    PROVE  /\ pr \in PullRequests /\ thread \in [Threads -> ThreadRecords]
           /\ claim \in Runs \cup {"none", "left over"}
           /\ run \in [Runs -> RunRecords] /\ WellFormed(pass)
           /\ spent \in [acts : 0..MaxActs, faults : Nat]
BY DEF Typed, WellFormed

-----------------------------------------------------------------------------
(* Types.                                                                    *)

LEMMA CountedTyped == ASSUME Typed PROVE [pr EXCEPT !.passes = @ + 1] \in PullRequests
<1>1. pr \in PullRequests
  BY DEF Typed
<1>2. pr.passes + 1 \in Nat
  BY <1>1 DEF PullRequests
<1> QED
  BY <1>1, <1>2 DEF PullRequests

LEMMA RepliedTyped ==
    ASSUME Typed, NEW t \in Threads, NEW fix \in SUBSET Works
    PROVE  Replied(t, fix) \in [Threads -> ThreadRecords]
<1>1. thread \in [Threads -> ThreadRecords]
  BY DEF Typed
<1>2. thread[t].replies + 1 \in Nat
  BY <1>1 DEF ThreadRecords
<1> QED
  BY <1>1, <1>2 DEF Replied, ThreadRecords

\* A step of a run keeps the types, whichever it is.
LEMMA StepKeepsTypes == ASSUME Typed, NEW r \in Runs, Step(r) PROVE StepTypes
<1>a. \A at \in Steps : To(r, at) \in [Runs -> RunRecords]
  BY ToTyped
<1>b. /\ pr \in PullRequests /\ thread \in [Threads -> ThreadRecords]
      /\ claim \in Runs \cup {"none", "left over"}
      /\ run \in [Runs -> RunRecords] /\ WellFormed(pass)
      /\ spent \in [acts : 0..MaxActs, faults : Nat]
  BY Stays
<1>c. main \in 0..MaxMain /\ MaxMain \in Nat /\ main \in 0..main
  <2>1. main \in 0..MaxMain /\ MaxMain \in Nat
    BY BoundsTyped DEF Typed
  <2> QED
    BY <2>1
<1>d. run[r] \in RunRecords /\ run[r].head \in Commits /\ run[r].base \in 0..MaxMain
  <2>1. run[r] \in RunRecords
    BY DEF Typed
  <2> QED
    BY <1>c, <2>1 DEF RunRecords
<1>e. pass.tree \in Commits
  BY DEF Typed, PassRecords
<1>f. Fault => spent' \in [acts : 0..MaxActs, faults : Nat] /\ spent'.acts = spent.acts
  BY FaultTyped
<1> USE <1>a, <1>b DEF Goes, Steps
<1>1. CASE updateBranch(r)
  <2>1. main \in 0..MaxMain /\ Merge(Head, main, "github") \in Commits
    BY <1>c, HeadTyped, MergeTyped
  <2>2. WithHead(Merge(Head, main, "github")) \in PullRequests
    BY <2>1, WithHeadTyped
  <2> QED
    BY <1>1, <1>f, <2>2 DEF updateBranch, Try, StepTypes
<1>2. CASE Plan(r)
  <2>1. [[run[r] EXCEPT !.base = main] EXCEPT !.at = "claim"] \in RunRecords
    BY <1>c, <1>d DEF RunRecords
  <2>2. run' \in [Runs -> RunRecords]
    BY <1>2, <2>1 DEF Plan
  <2> QED
    BY <1>2, <2>2 DEF Plan, StepTypes
<1>3. CASE Claim(r)
  BY <1>3 DEF Claim, StepTypes
<1>4. CASE PlanClaimed(r)
  <2>1. /\ needsMerge(run[r]) \in BOOLEAN
        /\ redChecks \in SUBSET Checks /\ threadsForRole \in SUBSET Threads
    BY DEF needsMerge, redChecks, Red, threadsForRole
  <2>2. WellFormed([NoPass EXCEPT !.forRole = threadsForRole, !.left = threadsForRole,
                        !.needsMerge = needsMerge(run[r]), !.red = redChecks])
    BY <2>1, NoPassTyped DEF WellFormed, NoPass, PassRecords
  <2> QED
    BY <1>4, <2>2 DEF PlanClaimed, StepTypes
<1>5. CASE Prepare(r)
  <2>1. Merge(run[r].head, run[r].base, "host") \in Commits
    BY <1>d, MergeTyped
  <2> QED
    <3>1. CASE EndPass(r, "giveUp")
      BY <1>5, <3>1, NoPassTyped DEF Prepare, EndPass, StepTypes
    <3>2. CASE ~EndPass(r, "giveUp")
      <4>1. run' \in [Runs -> RunRecords]
        BY <1>5, <3>2 DEF Prepare
      <4> DEFINE conflicts == pass.needsMerge /\ Conflicts(run[r].head, run[r].base)
                 merged == IF ~pass.needsMerge THEN "none" ELSE IF conflicts THEN "conflicts" ELSE "clean"
                 tree == IF merged = "clean" THEN Merge(run[r].head, run[r].base, "host") ELSE run[r].head
                 forward(gate) == IF gate = "green" THEN pass.red \ GATE_COVERED_CHECKS ELSE {}
                 rerun(gate) == IF gate = "green" THEN pass.red \cap GATE_COVERED_CHECKS ELSE {}
      <4>2. PICK gate \in IF pass.red = {} THEN {"none"} ELSE {"green", "red"} :
              pass' = [pass EXCEPT !.gate = gate, !.merged = merged, !.tree = tree,
                                   !.forward = forward(gate), !.rerun = rerun(gate)]
        BY <1>5, <3>2, Zenon DEF Prepare
      <4>3. /\ merged \in {"none", "clean", "conflicts"} /\ tree \in Commits
            /\ gate \in {"none", "green", "red"}
            /\ forward(gate) \in SUBSET pass.red /\ rerun(gate) \in SUBSET pass.red
        BY <1>d, <2>1
      <4> HIDE DEF merged, tree, forward, rerun
      <4>4. WellFormed(pass')
        BY <4>2, <4>3 DEF WellFormed, PassRecords
      <4> QED
        BY <1>5, <4>1, <4>4 DEF Prepare, StepTypes
    <3> QED
      BY <3>1, <3>2
<1>6. CASE Role(r)
  <2>1. Results(r) \subseteq Commits
    <3>1. /\ Merge(pass.tree, run[r].base, "role") \in Commits
          /\ Commit(pass.tree, "role") \in Commits /\ Commit(NoHead, "role") \in Commits
      BY <1>d, <1>e, NoHeadTyped, CommitTyped, MergeTyped
    <3> QED
      BY <1>e, <3>1 DEF Results
  <2>2. UNCHANGED spent \/ Fault
    BY <1>6 DEF Role
  <2>3. spent' \in [acts : 0..MaxActs, faults : Nat] /\ spent'.acts = spent.acts
    BY <2>2, FaultTyped
  <2> QED
    <3>1. Gated(r) \subseteq Commits
      BY <2>1 DEF Gated
    <3>2. WellFormed(pass')
      <4>1. pass' = NoPass \/ \E c \in Gated(r) : pass' = [pass EXCEPT !.tree = c]
        BY <1>6 DEF Role, EndPass
      <4>2. CASE pass' = NoPass
        BY <4>2, NoPassTyped
      <4>3. ASSUME NEW c \in Gated(r), pass' = [pass EXCEPT !.tree = c] PROVE WellFormed(pass')
        BY <3>1, <4>3 DEF WellFormed, PassRecords
      <4> QED
        BY <4>1, <4>2, <4>3
    <3>3. run' \in [Runs -> RunRecords]
      BY <1>6 DEF Role, EndPass
    <3> QED
      BY <1>6, <2>3, <3>2, <3>3 DEF Role, StepTypes
<1>7. CASE Push(r)
  <2>1. WithHead(pass.tree) \in PullRequests
    BY WithHeadTyped DEF Typed, PassRecords
  <2>2. WellFormed([pass EXCEPT !.pushed = TRUE])
    BY DEF WellFormed, PassRecords
  <2>3. UNCHANGED spent \/ Fault
    BY <1>7 DEF Push
  <2>4. spent' \in [acts : 0..MaxActs, faults : Nat] /\ spent'.acts = spent.acts
    BY <2>3, FaultTyped
  <2> QED
    BY <1>7, <2>1, <2>2, <2>4, NoPassTyped DEF Push, Pushed, EndPass, StepTypes
<1>8. CASE RemoteHead(r)
  <2>1. WellFormed([pass EXCEPT !.pushed = TRUE])
    BY DEF WellFormed, PassRecords
  <2>2. UNCHANGED spent \/ Fault
    BY <1>8 DEF RemoteHead
  <2>3. spent' \in [acts : 0..MaxActs, faults : Nat] /\ spent'.acts = spent.acts
    BY <2>2, FaultTyped
  <2> QED
    BY <1>8, <2>1, <2>3, NoPassTyped DEF RemoteHead, Pushed, EndPass, StepTypes
<1>9. ASSUME NEW t \in Threads, Reply(r, t) PROVE StepTypes
  <2>1. WellFormed([pass EXCEPT !.left = @ \ {t}])
    BY DEF WellFormed, PassRecords
  <2>2. \A fix \in {{}} \cup {{c} : c \in Named(r) \cap fixesInPush(r)} :
            Replied(t, fix) \in [Threads -> ThreadRecords]
    <3>1. fixesInPush(r) \subseteq Works
      BY <1>e DEF fixesInPush, Commits
    <3>2. ASSUME NEW c \in Works
          PROVE  Replied(t, {c}) \in [Threads -> ThreadRecords]
      BY RepliedTyped
    <3>3. Replied(t, {}) \in [Threads -> ThreadRecords]
      BY RepliedTyped
    <3> QED
      BY <3>1, <3>2, <3>3
  <2>3. /\ pr' = pr /\ thread' \in [Threads -> ThreadRecords]
        /\ run' \in [Runs -> RunRecords]
        /\ spent' \in [acts : 0..MaxActs, faults : Nat] /\ spent'.acts = spent.acts
    BY <1>9, <1>f, <2>2 DEF Try, Reply
  <2> QED
    BY <1>9, <2>1, <2>3 DEF Reply, StepTypes
<1>10. CASE Resolve(r)
  <2>1. [thread EXCEPT !["bot"].resolved = TRUE] \in [Threads -> ThreadRecords]
    BY DEF ThreadRecords
  <2> QED
    BY <1>10, <1>f, <2>1 DEF Try, Resolve, StepTypes
<1>11. CASE Rerun(r)
  <2>1. [pr EXCEPT !.checks = [c \in Checks |-> IF c \in pass.rerun THEN "running" ELSE @[c]], !.reran = TRUE]
            \in PullRequests
    BY DEF PullRequests
  <2>2. /\ pr' \in PullRequests /\ thread' = thread /\ run' \in [Runs -> RunRecords]
        /\ spent' \in [acts : 0..MaxActs, faults : Nat] /\ spent'.acts = spent.acts
    BY <1>11, <1>f, <2>1 DEF Try, Rerun, rerunFailedChecksOnce
  <2> QED
    BY <1>11, <2>2, NoPassTyped DEF Rerun, StepTypes
<1>12. CASE Summary(r)
  <2>1. [pr EXCEPT !.passes = @ + 1] \in PullRequests
    BY CountedTyped
  <2> QED
    BY <1>12, <1>f, <2>1 DEF Try, Summary, StepTypes
<1>13. CASE giveUp(r)
  <2>1. [pr EXCEPT !.needsHuman = TRUE] \in PullRequests
    BY DEF PullRequests
  <2> QED
    BY <1>13, <1>f, <2>1 DEF Try, giveUp, StepTypes
<1>14. CASE Release(r)
  BY <1>14 DEF Release, StepTypes
<1>15. CASE requestCopilotReview(r)
  <2> DEFINE asked == pr.asked \/ \E c \in Checks : pr.checks[c] # "running"
  <2>1. [pr EXCEPT !.requested = TRUE, !.asked = asked] \in PullRequests
    BY DEF PullRequests
  <2> QED
    BY <1>15, <1>f, <2>1 DEF Try, requestCopilotReview, StepTypes
<1> QED
  BY <1>1, <1>2, <1>3, <1>4, <1>5, <1>6, <1>7, <1>8, <1>9, <1>10, <1>11, <1>12,
     <1>13, <1>14, <1>15 DEF Step

LEMMA NextTyped == ASSUME Typed, [Next]_vars PROVE Typed'
<1>b. /\ pr \in PullRequests /\ thread \in [Threads -> ThreadRecords]
      /\ claim \in Runs \cup {"none", "left over"}
      /\ run \in [Runs -> RunRecords] /\ WellFormed(pass)
      /\ spent \in [acts : 0..MaxActs, faults : Nat]
  BY Stays
<1>c. main \in 0..MaxMain /\ MaxMain \in Nat /\ clash \subseteq 1..main
  BY BoundsTyped DEF Typed
<1>1. ASSUME NEW r \in Runs, Step(r) PROVE Typed'
  BY <1>1, StepKeepsTypes, StepTypesTyped
<1>2. ASSUME NEW r \in Runs, Sweep(r) PROVE Typed'
  <2>1. Head \in Commits /\ 0 \in 0..main /\ Conflicted \in BOOLEAN
    BY <1>c, HeadTyped DEF Conflicted, Conflicts
  <2>2. [at |-> decide, head |-> Head, conflicted |-> Conflicted, base |-> 0] \in RunRecords
    BY <1>2, <2>1 DEF Sweep, RunRecords, Steps
  <2>3. run' \in [Runs -> RunRecords]
    BY <1>b, <1>2, <2>2 DEF Sweep
  <2>4. StepTypes
    BY <1>b, <1>2, <2>3 DEF Sweep, StepTypes
  <2> QED
    BY <2>4, StepTypesTyped
<1>3. ASSUME NEW r \in Runs, Dies(r) PROVE Typed'
  <2>1. run' \in [Runs -> RunRecords]
    BY <1>3, ToTyped DEF Dies, EndPass, Goes, Steps
  <2>2. StepTypes
    BY <1>b, <1>3, <2>1, NoPassTyped, FaultTyped DEF Dies, EndPass, StepTypes
  <2> QED
    BY <2>2, StepTypesTyped
<1>4. CASE ClearStale
  <2>1. StepTypes
    BY <1>b, <1>4 DEF ClearStale, StepTypes
  <2> QED
    BY <2>1, StepTypesTyped
<1>5. CASE ChecksFinish
  <2>1. pr' \in PullRequests
    <3>1. PICK result \in [Checks -> {"green", "red"}] :
            pr' = [pr EXCEPT !.checks = [c \in Checks |-> IF @[c] = "running" THEN result[c] ELSE @[c]]]
      BY <1>5 DEF ChecksFinish
    <3>2. [c \in Checks |-> IF pr.checks[c] = "running" THEN result[c] ELSE pr.checks[c]]
            \in [Checks -> {"running", "green", "red"}]
      BY <1>b DEF PullRequests
    <3> QED
      BY <1>b, <3>1, <3>2 DEF PullRequests
  <2>2. StepTypes
    BY <1>b, <1>5, <2>1 DEF ChecksFinish, StepTypes
  <2> QED
    BY <2>2, StepTypesTyped
<1>6. CASE MainMoves
  <2>1. main' \in 0..MaxMain /\ 0..main \subseteq 0..main' /\ clash' \subseteq 1..main'
    <3>1. main' = main + 1 /\ main < MaxMain /\ (clash' = clash \/ clash' = clash \cup {main'})
      BY <1>6 DEF MainMoves
    <3>2. main' \in 0..MaxMain /\ 0..main \subseteq 0..main' /\ 1..main \subseteq 1..main' /\ main' \in 1..main'
      BY <1>c, <3>1
    <3> QED
      BY <1>c, <3>1, <3>2
  <2>2. run \in [Runs -> [at : Steps, head : Commits, conflicted : BOOLEAN, base : 0..main']]
    BY <1>b, <2>1 DEF RunRecords
  <2> QED
    BY <1>6, <2>1, <2>2 DEF Typed, MainMoves, ThreadRecords, RunRecords, PassRecords, Commits
<1>7. CASE PeoplePush
  <2>1. /\ spent' \in [acts : 0..MaxActs, faults : Nat]
        /\ thread' \in [Threads -> ThreadRecords']
    BY <1>7, <1>b, ActTyped DEF PeoplePush
  <2>2. PICK base \in {pr.main, main} : pr' = WithHead(Merge(Head, base, "people"))
    BY <1>7 DEF PeoplePush
  <2>3. base \in 0..MaxMain
    BY <1>b, <1>c DEF PullRequests
  <2>4. pr' \in PullRequests
    BY <2>2, <2>3, HeadTyped, MergeTyped, WithHeadTyped
  <2> QED
    BY <1>7, <2>1, <2>4 DEF Typed, PeoplePush, PullRequests, RunRecords, PassRecords, Commits
<1>8. ASSUME NEW t \in Threads, Ask(t) PROVE Typed'
  <2>1. /\ spent' \in [acts : 0..MaxActs, faults : Nat]
        /\ \A q \in Threads : thread[q] \in ThreadRecords' /\ thread[q].asks + 1 \in 1..(spent'.acts + 1)
    BY <1>8, ActTyped DEF Ask
  <2>2. [thread[t] EXCEPT !.asks = @ + 1, !.last = "asker"] \in ThreadRecords'
    BY <2>1 DEF ThreadRecords
  <2>3. thread' = [thread EXCEPT ![t] = [thread[t] EXCEPT !.asks = @ + 1, !.last = "asker"]]
    BY <1>8, <1>b DEF Ask, ThreadRecords
  <2>4. thread' \in [Threads -> ThreadRecords']
    BY <1>b, <2>1, <2>2, <2>3
  <2> QED
    BY <1>8, <2>1, <2>4 DEF Typed, Ask, RunRecords, PassRecords, Commits
<1>9. CASE Requeue
  <2>1. /\ spent' \in [acts : 0..MaxActs, faults : Nat]
        /\ thread' \in [Threads -> ThreadRecords']
    BY <1>9, <1>b, ActTyped DEF Requeue
  <2>2. pr' \in PullRequests
    BY <1>b, <1>9 DEF Requeue, PullRequests
  <2> QED
    BY <1>9, <2>1, <2>2 DEF Typed, Requeue, PullRequests, RunRecords, PassRecords, Commits
<1>10. CASE CopilotAnswers
  <2>1. pr' \in PullRequests
    BY <1>b, <1>10 DEF CopilotAnswers, PullRequests
  <2>2. StepTypes
    BY <1>b, <1>10, <2>1 DEF CopilotAnswers, StepTypes
  <2> QED
    BY <2>2, StepTypesTyped
<1>11. CASE UNCHANGED vars
  BY <1>11 DEF vars, Typed, ThreadRecords, RunRecords, PassRecords, Commits
<1> QED
  BY <1>1, <1>2, <1>3, <1>4, <1>5, <1>6, <1>7, <1>8, <1>9, <1>10, <1>11 DEF Next, People

LEMMA InitTyped == ASSUME Init PROVE Typed
<1>1. 0 \in 0..MaxMain /\ 0 \in 0..MaxActs /\ 0 \in Nat /\ 1 \in 1..(0 + 1)
  BY BoundsTyped
<1>2. {<<"build", 1>>} \in SUBSET Works /\ IsFiniteSet({<<"build", 1>>})
  <2>1. <<"build", 1>> \in Works
    BY DEF Works
  <2> QED
    BY <2>1, FS_Singleton
<1>3. pr \in PullRequests /\ spent \in [acts : 0..MaxActs, faults : Nat]
  BY <1>1, <1>2 DEF Init, PullRequests, Running
<1>4. Idle \in RunRecords
  BY <1>1, NoHeadTyped DEF Init, Idle, RunRecords, Steps
<1>5. thread \in [Threads -> ThreadRecords]
  BY <1>1 DEF Init, ThreadRecords
<1>6. WellFormed(pass)
  BY NoPassTyped DEF Init
<1> QED
  BY <1>1, <1>3, <1>4, <1>5, <1>6 DEF Init, Typed, WellFormed

-----------------------------------------------------------------------------
(* The way a run takes, and what it does to the pull request on it.          *)

\* From which step to which, with what becomes of the claim and of the pass.
Moves(from, to) ==
    \/ /\ from \in {"needs-pass", "request-review", "update-branch"} /\ to \in {"off", "claim"}
       /\ UNCHANGED <<claim, pass>>
    \/ from = "claim" /\ to = "off" /\ UNCHANGED <<claim, pass>>
    \/ from = "planPass" /\ to \in {"release", "giveUp"} /\ UNCHANGED <<claim, pass>>
    \/ from = "planPass" /\ to = "prepare" /\ UNCHANGED claim /\ pr.passes < FOLLOW_UP_PASS_CAP
    \/ from \in InSandbox /\ to \in InSandbox /\ UNCHANGED claim
    \/ from \in InSandbox /\ to \in UnderClaim \ (InSandbox \cup {"planPass"}) /\ UNCHANGED claim /\ pass' = NoPass
    \/ from \in {"summary", "giveUp"} /\ to = "release" /\ UNCHANGED <<claim, pass>>

LEMMA StepMoves ==
    ASSUME Typed, NEW r \in Runs, Step(r)
    PROVE  /\ \A q \in Runs \ {r} : run'[q] = run[q]
           /\ \/ Moves(run[r].at, run'[r].at)
              \/ /\ run[r].at = "claim" /\ run'[r].at = "planPass"
                 /\ claim = "none" /\ claim' = r /\ UNCHANGED pass
              \/ /\ run[r].at = "release" /\ run'[r].at = "off"
                 /\ claim' = "none" /\ UNCHANGED pass
<1>a. \A at \in Steps : To(r, at)[r].at = at /\ \A q \in Runs \ {r} : To(r, at)[q] = run[q]
  BY ToTyped
<1>b. run \in [Runs -> RunRecords] /\ pr.passes \in Nat
  BY DEF Typed, PullRequests
<1> USE <1>a DEF Goes, Steps, Moves, InSandbox, Uncounted, UnderClaim
<1>1. CASE updateBranch(r) \/ requestCopilotReview(r)
  BY <1>1 DEF updateBranch, requestCopilotReview, Try
<1>2. CASE Plan(r)
  <2>1. run[r].at = "needs-pass" /\ UNCHANGED <<claim, pass>>
    BY <1>2 DEF Plan
  <2>2. \/ run' = To(r, "off")
        \/ run' = [run EXCEPT ![r] = [[run[r] EXCEPT !.base = main] EXCEPT !.at = "claim"]]
    BY <1>2 DEF Plan
  <2>3. run'[r].at \in {"off", "claim"} /\ \A q \in Runs \ {r} : run'[q] = run[q]
    <3>1. [[run[r] EXCEPT !.base = main] EXCEPT !.at = "claim"].at = "claim"
      BY <1>b DEF RunRecords
    <3>2. run \in [Runs -> RunRecords]
      BY <1>b
    <3> DEFINE claiming == [[run[r] EXCEPT !.base = main] EXCEPT !.at = "claim"]
    <3>3. claiming.at = "claim" /\ (run' = To(r, "off") \/ run' = [run EXCEPT ![r] = claiming])
      BY <2>2, <3>1
    <3> HIDE DEF claiming
    <3> QED
      BY <3>2, <3>3
  <2> QED
    BY <2>1, <2>3
<1>3. CASE Claim(r)
  BY <1>3 DEF Claim
<1>4. CASE PlanClaimed(r)
  <2>1. planPass(run[r], TRUE) = "pass" => pr.passes < FOLLOW_UP_PASS_CAP
    BY <1>b, BoundsTyped DEF planPass, AtCap
  <2> QED
    <3>1. run[r].at = "planPass" /\ UNCHANGED claim
      BY <1>4 DEF PlanClaimed
    <3>2. \/ run' \in {To(r, "release"), To(r, "giveUp")} /\ UNCHANGED pass
          \/ run' = To(r, "prepare") /\ pr.passes < FOLLOW_UP_PASS_CAP
      BY <1>4, <2>1 DEF PlanClaimed
    <3> QED
      BY <3>1, <3>2
<1>5. CASE Prepare(r)
  <2>1. run[r].at = "prepare" /\ UNCHANGED claim
    BY <1>5 DEF Prepare
  <2>2. run' = To(r, "role") \/ (run' = To(r, "giveUp") /\ pass' = NoPass)
    BY <1>5 DEF Prepare, EndPass
  <2> QED
    BY <2>1, <2>2
<1>6. CASE Role(r)
  BY <1>6 DEF Role, EndPass
<1>7. CASE Push(r)
  BY <1>7 DEF Push, Pushed, EndPass
<1>8. CASE RemoteHead(r)
  BY <1>8 DEF RemoteHead, Pushed, EndPass
<1>9. ASSUME NEW t \in Threads, Reply(r, t)
      PROVE run[r].at = "answer" /\ run' \in {To(r, "answer"), To(r, "resolve")} /\ UNCHANGED claim
  BY <1>9 DEF Reply, Try
<1>10. CASE Resolve(r)
  BY <1>10 DEF Resolve, Try
<1>11. CASE Rerun(r)
  BY <1>11 DEF Rerun, rerunFailedChecksOnce, Try
<1>12. CASE Summary(r)
  BY <1>12 DEF Summary, Try
<1>13. CASE giveUp(r)
  BY <1>13 DEF giveUp, Try
<1>14. CASE Release(r)
  BY <1>14 DEF Release
<1> QED
  BY <1>1, <1>2, <1>3, <1>4, <1>5, <1>6, <1>7, <1>8, <1>9, <1>10, <1>11, <1>12,
     <1>13, <1>14 DEF Step

\* No step of a run takes a commit off the pull request or counts a pass twice.
LEMMA StepOnPr ==
    ASSUME Typed, NEW r \in Runs, Step(r)
    PROVE  /\ pr.work \subseteq pr'.work
           /\ pr'.passes # pr.passes => pr'.passes = pr.passes + 1 /\ run[r].at = "summary"
<1>a. pr \in PullRequests /\ main \in 0..MaxMain
  BY DEF Typed
<1>1. CASE updateBranch(r)
  <2>1. /\ Head.work = pr.work
        /\ Head.work \subseteq WithHead(Merge(Head, main, "github")).work
        /\ WithHead(Merge(Head, main, "github")).passes = pr.passes
    BY <1>a, HeadTyped, MergeTyped, WithHeadTyped DEF Head
  <2> QED
    BY <1>1, <2>1 DEF updateBranch, Try
<1>2. CASE Push(r)
  <2>1. /\ pass.tree \in Commits
        /\ WithHead(pass.tree).work = pass.tree.work /\ WithHead(pass.tree).passes = pr.passes
    BY WithHeadTyped DEF Typed, PassRecords
  <2> QED
    BY <1>2, <2>1 DEF Push, Contains, Head
<1>3. CASE Rerun(r)
  BY <1>3, <1>a DEF Rerun, rerunFailedChecksOnce, Try, PullRequests
<1>4. CASE Summary(r)
  BY <1>4, <1>a DEF Summary, Try, PullRequests
<1>5. CASE giveUp(r)
  BY <1>5, <1>a DEF giveUp, Try, PullRequests
<1>6. ASSUME NEW t \in Threads, Reply(r, t) PROVE pr' = pr
  BY <1>6 DEF Reply, Try
<1>7. CASE Resolve(r)
  BY <1>7 DEF Resolve, Try
<1>8. CASE Plan(r) \/ Claim(r) \/ PlanClaimed(r) \/ Prepare(r) \/ Role(r) \/ RemoteHead(r) \/ Release(r)
  BY <1>8 DEF Plan, Claim, PlanClaimed, Prepare, Role, RemoteHead, Release
<1>9. CASE requestCopilotReview(r)
  BY <1>9, <1>a DEF requestCopilotReview, Try, PullRequests
<1> QED
  BY <1>1, <1>2, <1>3, <1>4, <1>5, <1>6, <1>7, <1>8, <1>9 DEF Step

LEMMA NextClaimHeld == ASSUME Typed, ClaimHeld, [Next]_vars PROVE ClaimHeld'
<1> USE RunsAssumption DEF RunsAssumption
<1>1. ASSUME NEW r \in Runs, Step(r) PROVE ClaimHeld'
  BY <1>1, StepMoves DEF ClaimHeld, Moves, InSandbox, Uncounted, UnderClaim
<1>2. ASSUME NEW r \in Runs, Sweep(r) PROVE ClaimHeld'
  <2>1. run'[r].at \in {"needs-pass", "request-review", "update-branch"} /\ \A q \in Runs \ {r} : run'[q] = run[q]
    BY <1>2 DEF Sweep, Typed
  <2> QED
    BY <1>2, <2>1 DEF Sweep, ClaimHeld, InSandbox, Uncounted, UnderClaim
<1>3. ASSUME NEW r \in Runs, Dies(r) PROVE ClaimHeld'
  <2>1. run'[r].at = "off" /\ \A q \in Runs \ {r} : run'[q] = run[q]
    <3>1. To(r, "off")[r].at = "off" /\ \A q \in Runs \ {r} : To(r, "off")[q] = run[q]
      BY ToTyped DEF Steps
    <3> QED
      BY <1>3, <3>1 DEF Dies, EndPass, Goes
  <2> QED
    BY <1>3, <2>1 DEF Dies, EndPass, ClaimHeld, InSandbox, Uncounted, UnderClaim
<1>4. CASE ClearStale
  BY <1>4 DEF ClearStale, ClaimHeld
<1>5. CASE ChecksFinish \/ CopilotAnswers \/ People \/ UNCHANGED vars
  BY <1>5 DEF ChecksFinish, CopilotAnswers, People, MainMoves, PeoplePush, Ask, Requeue, vars, ClaimHeld
<1> QED
  BY <1>1, <1>2, <1>3, <1>4, <1>5 DEF Next

-----------------------------------------------------------------------------
(* The cap.                                                                  *)

LEMMA NextCapped ==
    ASSUME Typed, ClaimHeld, RoomToCount, PassesCapped, [Next]_vars
    PROVE  RoomToCount' /\ PassesCapped'
<1>a. pr \in PullRequests /\ pr.passes \in Nat /\ FOLLOW_UP_PASS_CAP \in Nat /\ FOLLOW_UP_PASS_CAP > 0
  BY BoundsTyped DEF Typed, PullRequests
<1>1. ASSUME NEW r \in Runs, Step(r) PROVE RoomToCount' /\ PassesCapped'
  <2>1. CASE run[r].at = "summary"
    <3>1. pr'.passes \in {pr.passes, pr.passes + 1} /\ pr.passes < FOLLOW_UP_PASS_CAP
      BY <1>1, <2>1, StepOnPr DEF RoomToCount, Uncounted
    <3>2. ASSUME NEW q \in Runs PROVE run'[q].at \notin Uncounted
      BY <1>1, <2>1, StepMoves DEF Moves, ClaimHeld, InSandbox, Uncounted, UnderClaim
    <3> QED
      BY <1>a, <3>1, <3>2 DEF RoomToCount, PassesCapped
  <2>2. CASE run[r].at # "summary"
    <3>1. pr'.passes = pr.passes
      BY <1>1, <2>2, StepOnPr
    <3>2. ASSUME NEW q \in Runs, run'[q].at \in Uncounted
          PROVE  run[q].at \in Uncounted \/ pr.passes < FOLLOW_UP_PASS_CAP
      BY <1>1, <2>2, <3>2, StepMoves DEF Moves, InSandbox, Uncounted, UnderClaim
    <3> QED
      BY <3>1, <3>2 DEF RoomToCount, PassesCapped
  <2> QED
    BY <2>1, <2>2
<1>2. ASSUME NEW r \in Runs, Sweep(r) \/ Dies(r) PROVE RoomToCount' /\ PassesCapped'
  <2>1. pr' = pr /\ \A q \in Runs : run'[q] = run[q] \/ run'[q].at \notin Uncounted
    <3>1. CASE Sweep(r)
      BY <3>1 DEF Sweep, Typed, InSandbox, Uncounted
    <3>2. CASE Dies(r)
      <4>1. To(r, "off")[r].at = "off" /\ \A q \in Runs \ {r} : To(r, "off")[q] = run[q]
        BY ToTyped DEF Steps
      <4> QED
        BY <3>2, <4>1 DEF Dies, EndPass, Goes, InSandbox, Uncounted
    <3> QED
      BY <1>2, <3>1, <3>2
  <2> QED
    BY <2>1 DEF RoomToCount, PassesCapped
<1>3. CASE ClearStale \/ UNCHANGED vars \/ MainMoves \/ \E t \in Threads : Ask(t)
  BY <1>3 DEF ClearStale, vars, MainMoves, Ask, RoomToCount, PassesCapped
<1>4. CASE ChecksFinish \/ CopilotAnswers
  <2>1. pr'.passes = pr.passes /\ run' = run
    BY <1>4, <1>a DEF ChecksFinish, CopilotAnswers, PullRequests
  <2> QED
    BY <2>1 DEF RoomToCount, PassesCapped
<1>5. CASE PeoplePush
  <2>1. \A head : WithHead(head).passes = pr.passes
    BY <1>a DEF WithHead, PullRequests
  <2>2. pr'.passes = pr.passes /\ run' = run
    BY <1>5, <2>1 DEF PeoplePush
  <2> QED
    BY <2>2 DEF RoomToCount, PassesCapped
<1>6. CASE Requeue
  <2>1. pr'.passes = 0 /\ run' = run
    BY <1>6, <1>a DEF Requeue, PullRequests
  <2> QED
    BY <1>a, <2>1 DEF RoomToCount, PassesCapped
<1> QED
  BY <1>1, <1>2, <1>3, <1>4, <1>5, <1>6 DEF Next, People

-----------------------------------------------------------------------------
(* What replies say is in the pull request.                                  *)

\* Nobody takes a commit off the pull request.
LEMMA WorkOnlyGrows == ASSUME Typed, [Next]_vars PROVE pr.work \subseteq pr'.work
<1>a. pr \in PullRequests /\ main \in 0..MaxMain
  BY DEF Typed
<1>1. ASSUME NEW r \in Runs, Step(r) PROVE pr.work \subseteq pr'.work
  BY <1>1, StepOnPr
<1>2. CASE PeoplePush
  <2>1. PICK base \in {pr.main, main} : pr' = WithHead(Merge(Head, base, "people"))
    BY <1>2 DEF PeoplePush
  <2>2. base \in 0..MaxMain
    BY <1>a DEF PullRequests
  <2>3. Head.work = pr.work /\ Head.work \subseteq WithHead(Merge(Head, base, "people")).work
    BY <2>2, HeadTyped, MergeTyped, WithHeadTyped DEF Head
  <2> QED
    BY <2>1, <2>3
<1>3. CASE Requeue \/ ChecksFinish \/ CopilotAnswers
  BY <1>a, <1>3 DEF Requeue, ChecksFinish, CopilotAnswers, PullRequests
<1>4. CASE ClearStale \/ UNCHANGED vars \/ MainMoves \/ \E t \in Threads : Ask(t)
  BY <1>4 DEF ClearStale, vars, MainMoves, Ask
<1>5. ASSUME NEW r \in Runs, Sweep(r) \/ Dies(r) PROVE pr.work \subseteq pr'.work
  BY <1>5 DEF Sweep, Dies
<1> QED
  BY <1>1, <1>2, <1>3, <1>4, <1>5 DEF Next, People

\* What a run has read as its head stays, or is read anew.
LEMMA HeadsStay ==
    ASSUME Typed, NEW r \in Runs, Step(r)
    PROVE  run'[r].head.work \in {run[r].head.work, {}}
<1>a. \A at \in Steps : To(r, at)[r].head.work \in {run[r].head.work, {}}
  BY ToTyped
<1>b. run \in [Runs -> RunRecords]
  BY DEF Typed
<1>1. CASE Plan(r)
  <2>1. run[r] \in RunRecords
    BY <1>b
  <2> DEFINE claiming == [[run[r] EXCEPT !.base = main] EXCEPT !.at = "claim"]
  <2>2. claiming.head = run[r].head
    BY <2>1 DEF RunRecords
  <2>3. run' = To(r, "off") \/ run' = [run EXCEPT ![r] = claiming]
    BY <1>1 DEF Plan, Goes
  <2> HIDE DEF claiming
  <2> QED
    BY <1>a, <1>b, <2>2, <2>3 DEF Steps
<1>2. CASE ~Plan(r)
  <2>1. \E at \in Steps : run' = To(r, at)
    BY <1>2 DEF Step, requestCopilotReview, updateBranch, Claim, PlanClaimed, Prepare, Role, Push, Pushed, RemoteHead,
        EndPass, Reply, Resolve, Rerun, rerunFailedChecksOnce, Summary, giveUp, Release, Try, Goes, Steps
  <2> QED
    BY <1>a, <2>1
<1> QED
  BY <1>1, <1>2

\* Only the run under the claim touches the pass.
LEMMA OthersKeepPass ==
    ASSUME Typed, ClaimHeld, NEW r \in Runs, Step(r),
           NEW q \in Runs \ {r}, run[q].at \in UnderClaim
    PROVE  UNCHANGED pass
<1>1. claim = q /\ run[r].at \notin UnderClaim
  BY DEF ClaimHeld
<1> QED
  BY <1>1, StepMoves, RunsAssumption
  DEF RunsAssumption, Moves, InSandbox, Uncounted, UnderClaim

\* A run answers once its work is known to be there.
LEMMA AnswersWhatIsThere ==
    ASSUME Typed, WorkStays, NEW r \in Runs, Step(r), run'[r].at \in {"answer", "resolve"}
    PROVE  pass'.tree.work \subseteq pr'.work
<1>a. \A at \in Steps : To(r, at)[r].at = at
  BY ToTyped
<1>b. pr.work \subseteq pr'.work /\ pass \in PassRecords
  BY StepOnPr DEF Typed
<1>c. run[r].at \in InSandbox
  BY StepMoves DEF Moves, InSandbox, Uncounted, UnderClaim
<1>1. CASE Role(r)
  <2>1. pass' = [pass EXCEPT !.tree = run[r].head]
    <3>1. ~EndPass(r, "giveUp") /\ ~EndPass(r, "release")
      BY <1>a DEF EndPass, Goes, Steps
    <3>2. PICK c \in Gated(r) :
            pass' = [pass EXCEPT !.tree = c] /\ Goes(r, IF c = run[r].head THEN "answer" ELSE "push")
      BY <1>1, <3>1 DEF Role
    <3>3. c = run[r].head
      BY <1>a, <3>2 DEF Goes, Steps
    <3> QED
      BY <3>2, <3>3
  <2> QED
    BY <1>b, <2>1 DEF WorkStays, PassRecords
<1>2. CASE Push(r)
  <2>1. Pushed(r) /\ pr' = WithHead(pass.tree)
    BY <1>2, <1>a DEF Push, EndPass, Goes, Steps
  <2>2. pr'.work = pass.tree.work /\ pass'.tree = pass.tree
    BY <1>b, <2>1, WithHeadTyped DEF Pushed, PassRecords
  <2> QED
    BY <2>2
<1>3. CASE RemoteHead(r)
  <2>1. Pushed(r) /\ pr' = pr /\ Head = pass.tree
    BY <1>3, <1>a DEF RemoteHead, EndPass, Goes, Steps
  <2>2. pr'.work = pass.tree.work /\ pass'.tree = pass.tree
    BY <1>b, <2>1 DEF Pushed, PassRecords, Head
  <2> QED
    BY <2>2
<1>4. ASSUME NEW t \in Threads, Reply(r, t) PROVE pass'.tree.work \subseteq pr'.work
  BY <1>4, <1>b DEF Reply, WorkStays, PassRecords
<1>5. CASE Resolve(r)
  BY <1>5, <1>b DEF Resolve, WorkStays
<1>6. CASE Prepare(r)
  BY <1>6, <1>a DEF Prepare, EndPass, Goes, Steps
<1>7. CASE Rerun(r)
  BY <1>7, <1>a DEF Rerun, rerunFailedChecksOnce, Try, Goes, Steps
<1>8. CASE \/ requestCopilotReview(r) \/ updateBranch(r) \/ Plan(r) \/ Claim(r) \/ PlanClaimed(r)
           \/ Summary(r) \/ giveUp(r) \/ Release(r)
  BY <1>8, <1>c DEF requestCopilotReview, updateBranch, Plan, Claim, PlanClaimed, Summary, giveUp, Release, InSandbox
<1> QED
  BY <1>1, <1>2, <1>3, <1>4, <1>5, <1>6, <1>7, <1>8 DEF Step

LEMMA NextWorkStays ==
    ASSUME Typed, ClaimHeld, WorkStays, [Next]_vars
    PROVE  WorkStays'
<1>a. pr.work \subseteq pr'.work
  BY WorkOnlyGrows
<1>1. ASSUME NEW r \in Runs, Step(r) PROVE WorkStays'
  <2>1. ASSUME NEW q \in Runs PROVE run'[q].head.work \subseteq pr'.work
    BY <1>1, <1>a, StepMoves, HeadsStay DEF WorkStays
  <2>2. ASSUME NEW q \in Runs \ {r}, run'[q].at \in {"answer", "resolve"}
        PROVE  pass'.tree.work \subseteq pr'.work
    <3>1. run'[q] = run[q]
      BY <1>1, StepMoves
    <3>2. pass' = pass
      BY <1>1, <2>2, <3>1, OthersKeepPass DEF InSandbox, Uncounted, UnderClaim
    <3> QED
      BY <1>a, <2>2, <3>1, <3>2 DEF WorkStays
  <2> QED
    BY <1>1, <2>1, <2>2, AnswersWhatIsThere DEF WorkStays
<1>2. ASSUME NEW r \in Runs, Sweep(r) PROVE WorkStays'
  <2>1. /\ run'[r].head = Head /\ run'[r].at \in {"needs-pass", "request-review", "update-branch"}
        /\ \A q \in Runs \ {r} : run'[q] = run[q]
        /\ UNCHANGED <<pr, pass>>
    BY <1>2 DEF Sweep, Typed
  <2> QED
    BY <2>1 DEF WorkStays, Head
<1>3. ASSUME NEW r \in Runs, Dies(r) PROVE WorkStays'
  <2>1. /\ run'[r].at = "off" /\ run'[r].head.work \in {run[r].head.work, {}}
        /\ \A q \in Runs \ {r} : run'[q] = run[q] /\ run[q].at \notin UnderClaim
    <3>1. /\ To(r, "off")[r].at = "off" /\ \A q \in Runs \ {r} : To(r, "off")[q] = run[q]
          /\ To(r, "off")[r].head.work \in {run[r].head.work, {}}
      BY ToTyped DEF Steps
    <3> QED
      BY <1>3, <3>1 DEF Dies, EndPass, Goes, ClaimHeld
  <2> QED
    BY <1>3, <2>1 DEF Dies, WorkStays, InSandbox, Uncounted, UnderClaim
<1>4. CASE ClearStale \/ ChecksFinish \/ CopilotAnswers \/ People \/ UNCHANGED vars
  <2>1. UNCHANGED <<run, pass>>
    BY <1>4 DEF ClearStale, ChecksFinish, CopilotAnswers, People, MainMoves, PeoplePush, Ask, Requeue, vars
  <2> QED
    BY <1>a, <2>1 DEF WorkStays
<1> QED
  BY <1>1, <1>2, <1>3, <1>4 DEF Next

-----------------------------------------------------------------------------
(* The threads.                                                              *)

\* What a step of a run does to the threads: it replies to one still to be
\* answered with a fix that is its own, or resolves the bot's, or nothing.
LEMMA StepOnThreads ==
    ASSUME Typed, NEW r \in Runs, Step(r)
    PROVE  \/ UNCHANGED thread
           \/ /\ run[r].at = "answer"
              /\ \E t \in pass.left, fix \in SUBSET pass.tree.work : thread' = Replied(t, fix)
           \/ /\ run[r].at = "resolve"
              /\ thread' = [thread EXCEPT !["bot"].resolved = TRUE]
<1>1. ASSUME NEW t \in Threads, Reply(r, t)
      PROVE  \/ UNCHANGED thread
             \/ /\ run[r].at = "answer"
                /\ \E q \in pass.left, fix \in SUBSET pass.tree.work : thread' = Replied(q, fix)
  <2>1. run[r].at = "answer" /\ t \in pass.left
    BY <1>1 DEF Reply
  <2>2. \/ UNCHANGED thread
        \/ \E fix \in {{}} \cup {{c} : c \in Named(r) \cap fixesInPush(r)} : thread' = Replied(t, fix)
    BY <1>1 DEF Reply, Try
  <2>3. {{}} \cup {{c} : c \in Named(r) \cap fixesInPush(r)} \subseteq SUBSET pass.tree.work
    BY DEF fixesInPush
  <2> QED
    BY <2>1, <2>2, <2>3
<1>2. CASE Resolve(r)
  BY <1>2 DEF Resolve, Try
<1>3. CASE Rerun(r)
  BY <1>3 DEF Rerun, rerunFailedChecksOnce, Try
<1>4. CASE requestCopilotReview(r) \/ updateBranch(r) \/ Summary(r) \/ giveUp(r)
  BY <1>4 DEF requestCopilotReview, updateBranch, Summary, giveUp, Try
<1>5. CASE \/ Plan(r) \/ Claim(r) \/ PlanClaimed(r) \/ Prepare(r) \/ Role(r)
           \/ Push(r) \/ RemoteHead(r) \/ Release(r)
  BY <1>5 DEF Plan, Claim, PlanClaimed, Prepare, Role, Push, RemoteHead, Release
<1> QED
  BY <1>1, <1>2, <1>3, <1>4, <1>5 DEF Step

LEMMA NextFixes ==
    ASSUME Typed, WorkStays, FixesAreInThePullRequest, [Next]_vars
    PROVE  FixesAreInThePullRequest'
<1>a. pr.work \subseteq pr'.work /\ thread \in [Threads -> ThreadRecords]
  BY WorkOnlyGrows DEF Typed
<1>1. CASE \A t \in Threads : thread'[t].fixed = thread[t].fixed
  BY <1>a, <1>1 DEF FixesAreInThePullRequest
<1>2. ASSUME NEW r \in Runs, Step(r) PROVE FixesAreInThePullRequest'
  <2>1. CASE run[r].at = "answer"
             /\ \E t \in pass.left, fix \in SUBSET pass.tree.work : thread' = Replied(t, fix)
    <3>1. PICK t \in pass.left, fix \in SUBSET pass.tree.work : thread' = Replied(t, fix)
      BY <2>1
    <3>2. pass.tree.work \subseteq pr'.work
      BY <1>a, <2>1 DEF WorkStays
    <3>3. ASSUME NEW q \in Threads PROVE thread'[q].fixed \subseteq thread[q].fixed \cup fix
      BY <1>a, <3>1 DEF Replied, ThreadRecords
    <3> QED
      BY <1>a, <3>2, <3>3 DEF FixesAreInThePullRequest
  <2>2. CASE thread' = [thread EXCEPT !["bot"].resolved = TRUE]
    BY <1>1, <1>a, <2>2 DEF ThreadRecords
  <2> QED
    BY <1>1, <1>2, <2>1, <2>2, StepOnThreads
<1>3. ASSUME NEW t \in Threads, Ask(t) PROVE FixesAreInThePullRequest'
  BY <1>1, <1>3, <1>a DEF Ask, ThreadRecords
<1>4. CASE UNCHANGED thread
  BY <1>1, <1>4
<1> QED
  BY <1>2, <1>3, <1>4 DEF Next, Sweep, Dies, ClearStale, ChecksFinish, CopilotAnswers,
     People, MainMoves, PeoplePush, Requeue, vars

\* A pass takes up open threads, and leaves them one by one.
LEMMA LeftShrinks ==
    ASSUME Typed, NEW r \in Runs, Step(r)
    PROVE  \/ pass'.left \subseteq pass.left
           \/ pass'.left = threadsForRole /\ UNCHANGED thread
<1>a. pass \in PassRecords
  BY DEF Typed
<1>b. NoPass.left = {}
  BY DEF NoPass
<1>1. CASE PlanClaimed(r)
  <2>1. UNCHANGED thread
    BY <1>1 DEF PlanClaimed
  <2>2. [NoPass EXCEPT !.forRole = threadsForRole, !.left = threadsForRole,
                       !.needsMerge = needsMerge(run[r]), !.red = redChecks].left = threadsForRole
    BY DEF NoPass
  <2> QED
    BY <1>1, <2>1, <2>2 DEF PlanClaimed
<1>2. CASE Prepare(r)
  <2>1. CASE EndPass(r, "giveUp")
    BY <1>b, <2>1 DEF EndPass
  <2>2. CASE ~EndPass(r, "giveUp")
    BY <1>2, <1>a, <2>2 DEF Prepare, PassRecords
  <2> QED
    BY <2>1, <2>2
<1>3. CASE Role(r)
  <2>1. pass' = NoPass \/ \E c \in Gated(r) : pass' = [pass EXCEPT !.tree = c]
    BY <1>3 DEF Role, EndPass
  <2> QED
    BY <1>a, <1>b, <2>1 DEF PassRecords
<1>4. CASE Push(r) \/ RemoteHead(r)
  <2>1. pass' \in {NoPass, pass, [pass EXCEPT !.pushed = TRUE]}
    BY <1>4 DEF Push, RemoteHead, Pushed, EndPass
  <2> QED
    BY <1>a, <1>b, <2>1 DEF PassRecords
<1>5. ASSUME NEW t \in Threads, Reply(r, t) PROVE pass'.left \subseteq pass.left
  BY <1>5, <1>a DEF Reply, PassRecords
<1>6. CASE Rerun(r)
  BY <1>6, <1>b DEF Rerun
<1>7. CASE \/ requestCopilotReview(r) \/ updateBranch(r) \/ Plan(r) \/ Claim(r)
           \/ Resolve(r) \/ Summary(r) \/ giveUp(r) \/ Release(r)
  BY <1>7 DEF requestCopilotReview, updateBranch, Plan, Claim, Resolve, Summary, giveUp, Release
<1> QED
  BY <1>1, <1>2, <1>3, <1>4, <1>5, <1>6, <1>7 DEF Step

\* Only a reply to the bot goes on to the resolution.
LEMMA ResolvesAfterReply ==
    ASSUME Typed, NEW r \in Runs, Step(r), run'[r].at = "resolve"
    PROVE  /\ "bot" \in pass.left /\ pass'.left = pass.left \ {"bot"}
           /\ \E fix : thread' = Replied("bot", fix)
<1>a. \A at \in Steps : To(r, at)[r].at = at
  BY ToTyped
<1>b. pass \in PassRecords /\ run[r].at \in InSandbox
  BY StepMoves DEF Typed, Moves, InSandbox, Uncounted, UnderClaim
<1>1. ASSUME NEW t \in Threads, Reply(r, t)
      PROVE  /\ "bot" \in pass.left /\ pass'.left = pass.left \ {"bot"}
             /\ \E fix : thread' = Replied("bot", fix)
  <2>1. t \in pass.left /\ pass'.left = pass.left \ {t}
    BY <1>1, <1>b DEF Reply, PassRecords
  <2>2. PICK fix : Try(r, pr, Replied(t, fix), IF t = "bot" THEN "resolve" ELSE "answer", "answer")
    BY <1>1, <1>a DEF Reply, Goes, Steps
  <2>3. t = "bot" /\ thread' = Replied(t, fix)
    BY <1>a, <2>2 DEF Try, Goes, Steps
  <2> QED
    BY <2>1, <2>3
<1>2. ~ \/ Prepare(r) \/ Role(r) \/ Push(r) \/ RemoteHead(r)
  BY <1>a DEF Prepare, Role, Push, Pushed, RemoteHead, EndPass, Goes, Steps
<1>3. ~ (Resolve(r) \/ Rerun(r))
  BY <1>a DEF Resolve, Rerun, rerunFailedChecksOnce, Try, Goes, Steps
<1>4. ~ \/ requestCopilotReview(r) \/ updateBranch(r) \/ Plan(r) \/ Claim(r) \/ PlanClaimed(r)
        \/ Summary(r) \/ giveUp(r) \/ Release(r)
  BY <1>b DEF requestCopilotReview, updateBranch, Plan, Claim, PlanClaimed, Summary, giveUp, Release, InSandbox
<1> QED
  BY <1>1, <1>2, <1>3, <1>4 DEF Step

LEMMA RepliedFields ==
    ASSUME Typed, NEW t \in Threads, NEW fix
    PROVE  /\ Replied(t, fix)[t].last = "host" /\ Replied(t, fix)[t].replies = thread[t].replies + 1
           /\ Replied(t, fix)[t].resolved = thread[t].resolved
           /\ Replied(t, fix)[t].asks = thread[t].asks
           /\ \A q \in Threads \ {t} : Replied(t, fix)[q] = thread[q]
<1>1. thread \in [Threads -> ThreadRecords]
  BY DEF Typed
<1> QED
  BY <1>1 DEF Replied, ThreadRecords

LEMMA NextThreadsAwait ==
    ASSUME Typed, ClaimHeld, ThreadsAwait, [Next]_vars
    PROVE  ThreadsAwait'
<1>a. thread \in [Threads -> ThreadRecords] /\ pass.left \subseteq Threads
  BY DEF Typed, PassRecords
<1>b. \A t \in Threads : thread[t].replies \in Nat
  BY <1>a DEF ThreadRecords
<1>1. ASSUME NEW r \in Runs, Step(r) PROVE ThreadsAwait'
  <2>1. ASSUME NEW t \in pass'.left PROVE threadStanding(t)' = "open"
    <3>1. CASE UNCHANGED thread
      BY <1>1, <2>1, <3>1, LeftShrinks DEF ThreadsAwait, threadStanding, threadsForRole
    <3>2. CASE run[r].at = "answer" /\ thread' # thread
               /\ \E q \in pass.left, fix \in SUBSET pass.tree.work : thread' = Replied(q, fix)
      <4>1. PICK q \in pass.left, fix \in SUBSET pass.tree.work : thread' = Replied(q, fix) /\ thread' # thread
        BY <3>2
      <4>2. pass'.left = pass.left \ {q}
        <5>1. PICK s \in Threads : Reply(r, s)
          BY <1>1, <3>2, <4>1 DEF Step, requestCopilotReview, updateBranch, Plan, Claim, PlanClaimed, Prepare, Role, Push,
             RemoteHead, Resolve, Rerun, rerunFailedChecksOnce, Summary, giveUp, Release, Try
        <5>2. pass'.left = pass.left \ {s}
          BY <5>1 DEF Reply, Typed, PassRecords
        <5>3. PICK f : thread' = Replied(s, f)
          BY <4>1, <5>1 DEF Reply, Try
        <5>4. thread'[q].replies = thread[q].replies + 1
          BY <1>a, <4>1, RepliedFields
        <5>5. s # q => thread'[q] = thread[q]
          BY <1>a, <5>3, RepliedFields
        <5> QED
          BY <1>a, <1>b, <5>2, <5>4, <5>5
      <4>3. t \in pass.left /\ t # q
        BY <2>1, <4>2
      <4>4. thread'[t] = thread[t]
        BY <1>a, <4>1, <4>3, RepliedFields
      <4> QED
        BY <4>3, <4>4 DEF ThreadsAwait, threadStanding
    <3>3. CASE run[r].at = "resolve" /\ thread' # thread
               /\ thread' = [thread EXCEPT !["bot"].resolved = TRUE]
      <4>1. t \in pass.left /\ t # "bot"
        BY <1>1, <2>1, <3>3, LeftShrinks DEF ThreadsAwait
      <4>2. thread'[t] = thread[t]
        BY <1>a, <3>3, <4>1
      <4> QED
        BY <4>1, <4>2 DEF ThreadsAwait, threadStanding
    <3> QED
      BY <1>1, <3>1, <3>2, <3>3, StepOnThreads
  <2>2. ASSUME NEW q \in Runs, run'[q].at = "resolve"
        PROVE  /\ "bot" \in Threads \ pass'.left
               /\ ~thread'["bot"].resolved /\ thread'["bot"].replies > 0
    <3>1. CASE q = r
      <4>1. PICK fix : thread' = Replied("bot", fix)
        BY <1>1, <2>2, <3>1, ResolvesAfterReply
      <4>2. "bot" \in pass.left /\ pass'.left = pass.left \ {"bot"}
        BY <1>1, <2>2, <3>1, ResolvesAfterReply
      <4>3. ~thread["bot"].resolved
        BY <4>2 DEF ThreadsAwait, threadStanding
      <4> QED
        BY <1>a, <1>b, <4>1, <4>2, <4>3, RepliedFields
    <3>2. CASE q # r
      <4>1. run[q].at = "resolve"
        BY <1>1, <2>2, <3>2, StepMoves
      <4>2. UNCHANGED pass
        BY <1>1, <3>2, <4>1, OthersKeepPass DEF InSandbox, Uncounted, UnderClaim
      <4>3. run[r].at \notin {"answer", "resolve"}
        BY <3>2, <4>1 DEF ClaimHeld, InSandbox, Uncounted, UnderClaim
      <4>4. UNCHANGED thread
        BY <1>1, <4>3, StepOnThreads
      <4> QED
        BY <4>1, <4>2, <4>4 DEF ThreadsAwait
    <3> QED
      BY <3>1, <3>2
  <2> QED
    BY <2>1, <2>2 DEF ThreadsAwait
<1>2. ASSUME NEW r \in Runs, Sweep(r) PROVE ThreadsAwait'
  <2>1. /\ run'[r].at # "resolve" /\ \A q \in Runs \ {r} : run'[q] = run[q]
        /\ UNCHANGED <<thread, pass>>
    BY <1>2 DEF Sweep, Typed
  <2> QED
    BY <2>1 DEF ThreadsAwait, threadStanding
<1>3. ASSUME NEW r \in Runs, Dies(r) PROVE ThreadsAwait'
  <2>1. /\ run'[r].at # "resolve" /\ pass'.left = {}
        /\ \A q \in Runs \ {r} : run'[q] = run[q] /\ run[q].at \notin UnderClaim
    <3>1. To(r, "off")[r].at = "off" /\ \A q \in Runs \ {r} : To(r, "off")[q] = run[q]
      BY ToTyped DEF Steps
    <3> QED
      BY <1>3, <3>1 DEF Dies, EndPass, Goes, NoPass, ClaimHeld
  <2> QED
    BY <2>1 DEF ThreadsAwait, InSandbox, Uncounted, UnderClaim
<1>4. ASSUME NEW t \in Threads, Ask(t) PROVE ThreadsAwait'
  <2>1. /\ UNCHANGED <<run, pass>>
        /\ \A q \in Threads : thread'[q].resolved = thread[q].resolved
                              /\ thread'[q].replies = thread[q].replies
                              /\ thread'[q].last \in {thread[q].last, "asker"}
    BY <1>4, <1>a DEF Ask, ThreadRecords
  <2> QED
    BY <1>a, <2>1 DEF ThreadsAwait, threadStanding
<1>5. CASE ClearStale \/ ChecksFinish \/ CopilotAnswers \/ MainMoves \/ PeoplePush \/ Requeue \/ UNCHANGED vars
  <2>1. UNCHANGED <<run, pass, thread>>
    BY <1>5 DEF ClearStale, ChecksFinish, CopilotAnswers, MainMoves, PeoplePush, Requeue, vars
  <2> QED
    BY <2>1 DEF ThreadsAwait, threadStanding
<1> QED
  BY <1>1, <1>2, <1>3, <1>4, <1>5 DEF Next, People

-----------------------------------------------------------------------------
(* The theorems.                                                             *)

LEMMA InitIInv == ASSUME Init PROVE IInv
<1>1. Typed
  BY InitTyped
<1>2. \A r \in Runs : run[r].at = "off" /\ run[r].head.work = {}
  BY DEF Init, Idle, NoHead
<1>3. pass = NoPass /\ NoPass.left = {} /\ pr.passes = 0
  BY DEF Init, NoPass
<1>4. \A t \in Threads : thread[t].fixed = {}
  BY DEF Init
<1>5. 0 < FOLLOW_UP_PASS_CAP /\ 0 <= FOLLOW_UP_PASS_CAP
  BY BoundsTyped
<1> QED
  BY <1>1, <1>2, <1>3, <1>4, <1>5
  DEF IInv, ClaimHeld, RoomToCount, WorkStays, ThreadsAwait, PassesCapped,
      FixesAreInThePullRequest, InSandbox, Uncounted, UnderClaim

LEMMA NextIInv == ASSUME IInv, [Next]_vars PROVE IInv'
BY NextTyped, NextClaimHeld, NextCapped, NextWorkStays, NextFixes, NextThreadsAwait DEF IInv

\* The inductive invariant of the follow-up: only the run under the claim is in
\* a pass, with room to count it, on work that stays and threads that wait.
THEOREM InvHolds == Spec => []IInv
<1>1. Init => IInv
  BY InitIInv
<1>2. IInv /\ [Next]_vars => IInv'
  BY NextIInv
<1> QED
  BY <1>1, <1>2, PTL DEF Spec

\* Every reachable state of the follow-up has its types.
THEOREM TypeCorrect == Spec => []TypeOK
<1>1. ASSUME IInv PROVE TypeOK
  <2>1. Typed /\ ClaimHeld
    BY <1>1 DEF IInv
  <2>2. IsCommit(Head) /\ pr.checks \in [Checks -> {"running", "green", "red"}]
        /\ pr.passes \in Nat /\ {pr.reran, pr.needsHuman, pr.requested, pr.asked, pr.reviewed} \subseteq BOOLEAN
    BY <2>1 DEF Typed, PullRequests, Head, IsCommit
  <2>3. ASSUME NEW t \in Threads
        PROVE  /\ thread[t].last \in {"asker", "host"} /\ thread[t].fixed \subseteq Works
               /\ thread[t].resolved \in BOOLEAN
               /\ thread[t].asks \in 1..(MaxActs + 1) /\ thread[t].replies \in Nat
    <3>1. thread[t] \in ThreadRecords
      BY <2>1 DEF Typed
    <3>2. spent.acts \in 0..MaxActs /\ MaxActs \in Nat
      BY <2>1, BoundsTyped DEF Typed
    <3>3. thread[t].asks \in 1..(spent.acts + 1)
      BY <3>1 DEF ThreadRecords
    <3>4. thread[t].asks \in 1..(MaxActs + 1)
      BY <3>2, <3>3
    <3> QED
      BY <3>1, <3>4 DEF ThreadRecords
  <2>4. ASSUME NEW r \in Runs PROVE IsCommit(run[r].head) /\ run[r].base \in 0..main
    BY <2>1 DEF Typed, RunRecords, Commits, IsCommit
  <2>5. /\ IsCommit(pass.tree) /\ pass.left \subseteq pass.forRole /\ pass.forRole \subseteq Threads
        /\ pass.red \subseteq Checks /\ pass.rerun \cup pass.forward \subseteq pass.red
    BY <2>1 DEF Typed, PassRecords, Commits, IsCommit
  <2>6. /\ main \in 0..MaxMain /\ clash \subseteq 1..main
        /\ claim \in Runs \cup {"none", "left over"}
        /\ claim \notin Runs => pass = NoPass
    BY <2>1 DEF Typed, ClaimHeld
  <2> QED
    BY <2>2, <2>3, <2>4, <2>5, <2>6 DEF TypeOK
<1> QED
  BY <1>1, InvHolds, PTL

\* However many runs plan a pass at once, no more than the cap are counted
\* before a person takes the pull request back.
THEOREM NeverBeyondTheCap == Spec => []PassesCapped
<1>1. IInv => PassesCapped
  BY DEF IInv
<1> QED
  BY <1>1, InvHolds, PTL

\* A fix a reply names is in the pull request, whatever became of the push.
THEOREM RepliesAreTrue == Spec => []FixesAreInThePullRequest
<1>1. IInv => FixesAreInThePullRequest
  BY DEF IInv
<1> QED
  BY <1>1, InvHolds, PTL

\* A reply to an open thread is the promise's answer, counted once.
LEMMA ReplyAnswers ==
    ASSUME IInv, NEW t \in pass.left, NEW fix, thread' = Replied(t, fix)
    PROVE  Promise!Answer(t) /\ t \in Threads
<1>1. t \in Threads /\ threadStanding(t) = "open"
  BY DEF IInv, Typed, PassRecords, ThreadsAwait
<1>2. /\ threadStanding(t)' = "answered"
      /\ thread'[t].replies = thread[t].replies + 1 /\ thread'[t].asks = thread[t].asks
      /\ \A q \in Threads \ {t} : thread'[q] = thread[q]
  BY <1>1, RepliedFields DEF IInv, threadStanding
<1>3. \A q \in Threads \ {t} : threadStanding(q)' = threadStanding(q)
  BY <1>2 DEF threadStanding
<1> QED
  BY <1>1, <1>2, <1>3 DEF Promise!Answer

\* The resolution of the bot's thread follows its reply.
LEMMA ResolutionResolves ==
    ASSUME IInv, NEW r \in Runs, run[r].at = "resolve",
           thread' = [thread EXCEPT !["bot"].resolved = TRUE]
    PROVE  Promise!Resolve("bot") /\ "bot" \in Threads
<1>1. /\ "bot" \in Threads /\ ~thread["bot"].resolved /\ thread["bot"].replies > 0
      /\ thread \in [Threads -> ThreadRecords]
  BY DEF IInv, Typed, ThreadsAwait
<1>2. /\ threadStanding("bot")' = "resolved" /\ threadStanding("bot") # "resolved"
      /\ \A q \in Threads : /\ q # "bot" => threadStanding(q)' = threadStanding(q)
                            /\ thread'[q].asks = thread[q].asks
                            /\ thread'[q].replies = thread[q].replies
  BY <1>1 DEF threadStanding, ThreadRecords
<1> QED
  BY <1>1, <1>2 DEF Promise!Resolve

LEMMA AskAsks ==
    ASSUME IInv, NEW t \in Threads, Ask(t)
    PROVE  Promise!Ask(t)
<1>1. thread \in [Threads -> ThreadRecords] /\ threadStanding(t) # "resolved"
  BY DEF IInv, Typed, Ask
<1>2. thread' = [thread EXCEPT ![t].asks = @ + 1, ![t].last = "asker"]
  BY DEF Ask
<1>3. /\ threadStanding(t)' = "open" /\ thread'[t].asks = thread[t].asks + 1
      /\ \A q \in Threads : /\ q # t => threadStanding(q)' = threadStanding(q)
                                        /\ thread'[q].asks = thread[q].asks
                            /\ thread'[q].replies = thread[q].replies
  BY <1>1, <1>2 DEF threadStanding, ThreadRecords
<1> QED
  BY <1>1, <1>3 DEF Promise!Ask

\* The follow-up implements the promise about threads: one reply to whatever was
\* asked last, and a bot's thread resolved only after it.
THEOREM AnswersEachAskOnce == Spec => AnswersOnce
<1>1. Init => Promise!Init
  BY DEF Init, Promise!Init, threadStanding
<1>2. ASSUME IInv, [Next]_vars PROVE [Promise!Next]_(Promise!vars)
  <2>1. CASE UNCHANGED thread
    BY <2>1 DEF Promise!vars, threadStanding
  <2>2. ASSUME NEW r \in Runs, Step(r) PROVE [Promise!Next]_(Promise!vars)
    <3>1. CASE \E t \in pass.left, fix \in SUBSET pass.tree.work : thread' = Replied(t, fix)
      BY <1>2, <3>1, ReplyAnswers DEF Promise!Next
    <3>2. CASE run[r].at = "resolve" /\ thread' = [thread EXCEPT !["bot"].resolved = TRUE]
      BY <1>2, <3>2, ResolutionResolves DEF Promise!Next
    <3> QED
      BY <1>2, <2>1, <2>2, <3>1, <3>2, StepOnThreads DEF IInv
  <2>3. ASSUME NEW t \in Threads, Ask(t) PROVE [Promise!Next]_(Promise!vars)
    BY <1>2, <2>3, AskAsks DEF Promise!Next
  <2> QED
    BY <1>2, <2>1, <2>2, <2>3
    DEF Next, Sweep, Dies, ClearStale, ChecksFinish, CopilotAnswers,
     People, MainMoves, PeoplePush, Requeue, vars
<1> QED
  BY <1>1, <1>2, InvHolds, PTL DEF Spec, AnswersOnce, Promise!Spec

=============================================================================
