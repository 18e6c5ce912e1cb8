------------------------- MODULE BuildPipelineProofs -------------------------
(* What a build publishes, proved for any number of developer roles and      *)
(* gate-fixer attempts, any edits git status shows and any gate script.      *)
EXTENDS BuildPipeline, TLAPS

\* A worktree that git status shows clean is one.  Ignored files, and files a
\* gate run deletes, break this, and PushedPassedGate with it.
NoUnseenEdits == "unseen" \notin EditKinds

\* What any run of an agent's code makes of the worktree.
LEMMA AgentsLeaveTyped ==
    ASSUME AgentsLeave
    PROVE  /\ head' \in CommitRecords
           /\ edits' \subseteq EditKinds \cup {"tracked"}
           /\ checkpoint = 1 /\ ~head.late => ~head'.late
BY DEF AgentsLeave, Commits

\* A gate run passes only on a commit that can pass, with main's script, and
\* then leaves HEAD where it was.
LEMMA GateRunSound ==
    ASSUME NoUnseenEdits, TypeOK, NEW trusted \in BOOLEAN, NEW passed \in BOOLEAN,
           GateRun(trusted, passed)
    PROVE  /\ head' \in CommitRecords
           /\ edits' \subseteq EditKinds \cup {"tracked"}
           /\ passed => head' = head /\ head.green /\ head.script # "changed"
           /\ checkpoint = 1 /\ ~head.late => ~head'.late
<1>1. CASE ~ScriptIsMains(head, trusted) /\ ~passed /\ KeepTree
  BY <1>1 DEF TypeOK, KeepTree
<1>2. CASE /\ ScriptIsMains(head, trusted)
           /\ \E exit0 \in {e \in BOOLEAN : e => head.green \/ edits # {}} :
                 /\ AgentsLeave
                 /\ edits \subseteq edits'
                 /\ passed = GatePasses(exit0, head', edits')
  <2>1. head.script # "changed"
    BY <1>2 DEF ScriptIsMains
  <2>2. PICK exit0 \in {e \in BOOLEAN : e => head.green \/ edits # {}} :
                 /\ AgentsLeave
                 /\ edits \subseteq edits'
                 /\ passed = GatePasses(exit0, head', edits')
    BY <1>2
  <2>3. /\ head' \in CommitRecords
        /\ edits' \subseteq EditKinds
        /\ checkpoint = 1 /\ ~head.late => ~head'.late
    BY <2>2 DEF AgentsLeave, Commits
  <2>4. passed => head' = head /\ edits = {}
    BY <2>2, <2>3, NoUnseenEdits DEF GatePasses, Uncommitted, NoUnseenEdits
  <2> QED
    BY <2>1, <2>2, <2>3, <2>4 DEF GatePasses
<1> QED
  BY <1>1, <1>2 DEF GateRun

LEMMA InitIInv == Init => IInv
BY DeveloperAssumption, FixerAssumption
   DEF Init, IInv, TypeOK, PCs, Outcomes, Commits, CommitRecords, CountersInRange,
       ReviewedIsNotLate, MergeGatedAlone, GatedIsSound, PushIsLast,
       PushedPassedGate, NothingLeaks, MergeUnrepaired

LEMMA NextIInv == ASSUME NoUnseenEdits, IInv, [Next]_vars PROVE IInv'
<1> USE DeveloperAssumption, FixerAssumption
    DEF IInv, PCs, Outcomes, CountersInRange,
        ReviewedIsNotLate, MergeGatedAlone, GatedIsSound, PushIsLast,
        PushedPassedGate, NothingLeaks, MergeUnrepaired,
        KeepPublish, KeepMerge, KeepTree, KeepGate, GoTo, Leave
<1>1. CASE Start
  BY <1>1 DEF Start, TypeOK
<1>2. CASE Develop
  BY <1>2, AgentsLeaveTyped DEF Develop, RecordFailure, TypeOK
<1>3. CASE CheckAhead
  BY <1>3 DEF CheckAhead, TypeOK
<1>4. CASE Gate
  <2>1. /\ pc = "gate"
        /\ UNCHANGED <<left, pushed, checkpoint, attempt, reviewedHead, mergedMain>>
    BY <1>4 DEF Gate
  <2>2. /\ head' \in CommitRecords /\ edits' \subseteq EditKinds \cup {"tracked"}
        /\ checkpoint = 1 /\ ~head.late => ~head'.late
    BY <1>4, GateRunSound DEF Gate
  <2>3. \/ pc' \in {"scribe", "review"} /\ checkpoint = 1 /\ UNCHANGED <<gated, failures, outcome>>
        \/ /\ pc' = "scan" /\ checkpoint = 2 /\ UNCHANGED <<failures, outcome>>
           /\ gated' = head /\ head.green /\ head.script # "changed"
        \/ pc' = "fix" /\ attempt < FixerAttempts /\ UNCHANGED <<gated, failures, outcome>>
        \/ /\ pc' = "close" /\ failures' \in {failures, failures + 1} /\ UNCHANGED gated
           /\ outcome' \in {"notPublished", "gateFailed", "threw"}
    BY <1>4, GateRunSound DEF Gate, MayFix, RecordFailure
  <2> QED
    BY <2>1, <2>2, <2>3, NoneAssumption DEF TypeOK
<1>5. CASE Fix
  BY <1>5, AgentsLeaveTyped DEF Fix, TypeOK
<1>6. CASE Scribe
  BY <1>6, AgentsLeaveTyped DEF Scribe, TypeOK
<1>7. CASE Review
  BY <1>7, AgentsLeaveTyped DEF Review, TypeOK
<1>8. CASE Sync
  BY <1>8 DEF Sync, TypeOK
<1>9. CASE Undo
  BY <1>9 DEF Undo, TypeOK
<1>10. CASE GateMerged
  <2>1. /\ pc = "gateMerged"
        /\ UNCHANGED <<left, pushed, failures, checkpoint, attempt, reviewedHead, mergedMain, outcome>>
    BY <1>10 DEF GateMerged
  <2>2. head' \in CommitRecords /\ edits' \subseteq EditKinds \cup {"tracked"}
    BY <1>10, GateRunSound DEF GateMerged
  <2>3. \/ pc' = "scan" /\ gated' = head /\ head.green /\ head.script # "changed"
        \/ pc' = "undo" /\ UNCHANGED gated
    BY <1>10, GateRunSound DEF GateMerged
  <2> QED
    BY <2>1, <2>2, <2>3, NoneAssumption DEF TypeOK
<1>11. CASE Linger
  BY <1>11, AgentsLeaveTyped DEF Linger, TypeOK
<1>12. CASE Scan
  BY <1>12 DEF Scan, ScanFinds, Trusts, TypeOK
<1>13. CASE Publish
  BY <1>13 DEF Publish, TypeOK
<1>14. CASE Throw
  BY <1>14 DEF Throw, TypeOK
<1>15. CASE Close
  BY <1>15 DEF Close, TypeOK
<1>16. CASE UNCHANGED vars
  BY <1>16 DEF vars, TypeOK
<1> QED
  BY <1>1, <1>2, <1>3, <1>4, <1>5, <1>6, <1>7, <1>8, <1>9, <1>10, <1>11, <1>12,
     <1>13, <1>14, <1>15, <1>16 DEF Next

\* The inductive invariant holds in every state of every build.
THEOREM InvHolds == ASSUME NoUnseenEdits PROVE Spec => []IInv
BY InitIInv, NextIInv, PTL DEF Spec

\* Whatever roles, test code and lingering processes do to the worktree, what
\* a build pushes is a commit the gate can pass on, under main's gate script.
THEOREM PushesWhatTheGateChecked == ASSUME NoUnseenEdits PROVE Spec => []PushedPassedGate
<1>1. IInv => PushedPassedGate
  BY DEF IInv
<1> QED
  BY <1>1, InvHolds, PTL

\* And it holds no secret, even when main's ref in the shared repository was
\* moved onto a commit GitHub's main never was.
THEOREM PushesNoSecret == ASSUME NoUnseenEdits PROVE Spec => []NothingLeaks
<1>1. IInv => NothingLeaks
  BY DEF IInv
<1> QED
  BY <1>1, InvHolds, PTL

\* And with main merged in, it holds no agent's work from after the review.
THEOREM PushesNoUnreviewedRepair == ASSUME NoUnseenEdits PROVE Spec => []MergeUnrepaired
<1>1. IInv => MergeUnrepaired
  BY DEF IInv
<1> QED
  BY <1>1, InvHolds, PTL

-----------------------------------------------------------------------------
(* What is counted, and what a bad merge leaves.                             *)

\* An outcome ends the build.
OutcomeIsLast == pc \notin {"close", "done"} => outcome = "none"

LEMMA NextCounts ==
    ASSUME TypeOK, CountersInRange, PushIsLast, OutcomeIsLast, CountsFailedAttempts, [Next]_vars
    PROVE  OutcomeIsLast' /\ CountsFailedAttempts'
<1> USE DEF CountersInRange, PushIsLast, OutcomeIsLast, CountsFailedAttempts, KeepPublish, GoTo, Leave
<1>1. CASE Start
  BY <1>1 DEF Start
<1>2. CASE Develop
  BY <1>2 DEF Develop, RecordFailure
<1>3. CASE CheckAhead
  BY <1>3 DEF CheckAhead
<1>4. CASE Gate
  BY <1>4 DEF Gate, RecordFailure
<1>5. CASE Fix
  BY <1>5 DEF Fix
<1>6. CASE Scribe
  BY <1>6 DEF Scribe
<1>7. CASE Review
  BY <1>7 DEF Review
<1>8. CASE Sync
  BY <1>8 DEF Sync
<1>9. CASE Undo
  BY <1>9 DEF Undo
<1>10. CASE GateMerged
  BY <1>10 DEF GateMerged
<1>11. CASE Linger
  BY <1>11 DEF Linger
<1>12. CASE Scan
  BY <1>12 DEF Scan
<1>13. CASE Publish
  BY <1>13 DEF Publish
<1>14. CASE Throw
  BY <1>14 DEF Throw
<1>15. CASE Close
  BY <1>15 DEF Close
<1>16. CASE UNCHANGED vars
  BY <1>16 DEF vars
<1> QED
  BY <1>1, <1>2, <1>3, <1>4, <1>5, <1>6, <1>7, <1>8, <1>9, <1>10, <1>11, <1>12, <1>13, <1>14, <1>15, <1>16 DEF Next

\* A failed attempt is counted once at most, and not for what no fixing of the
\* branch can help: a limit that stopped the build, or a publish.
THEOREM CountsOnceAtMost == ASSUME NoUnseenEdits PROVE Spec => []CountsFailedAttempts
<1>1. Init => OutcomeIsLast /\ CountsFailedAttempts
  BY DEF Init, OutcomeIsLast, CountsFailedAttempts
<1>2. IInv /\ OutcomeIsLast /\ CountsFailedAttempts /\ [Next]_vars
      => OutcomeIsLast' /\ CountsFailedAttempts'
  BY NextCounts DEF IInv
<1> QED
  BY <1>1, <1>2, InvHolds, PTL DEF Spec

\* The commit to fall back to is known from the merge on.
ReviewedAtSync == checkpoint = 1 \/ pc = "sync" => reviewedHead = None

LEMMA NextFallsBack ==
    ASSUME TypeOK, ReviewedIsNotLate, ReviewedAtSync, FallsBackToReviewed, [Next]_vars
    PROVE  ReviewedAtSync' /\ FallsBackToReviewed'
<1> USE FixerAssumption DEF TypeOK, ReviewedIsNotLate, ReviewedAtSync, FallsBackToReviewed, KeepGate, KeepMerge, GoTo, Leave
<1>1. CASE Start
  BY <1>1 DEF Start
<1>2. CASE Develop
  BY <1>2 DEF Develop, RecordFailure
<1>3. CASE CheckAhead
  BY <1>3 DEF CheckAhead
<1>4. CASE Gate
  BY <1>4 DEF Gate, RecordFailure
<1>5. CASE Fix
  BY <1>5 DEF Fix
<1>6. CASE Scribe
  BY <1>6 DEF Scribe
<1>7. CASE Review
  BY <1>7 DEF Review
<1>8. CASE Sync
  BY <1>8 DEF Sync
<1>9. CASE Undo
  <2>1. "untracked" \notin edits => Uncommitted(edits \ {"tracked"}) = {}
    BY EditAssumption DEF EditAssumption, Uncommitted
  <2>2. CASE "untracked" \in edits
    BY <1>9, <2>2 DEF Undo
  <2>3. CASE "untracked" \notin edits
    <3>1. head' = reviewedHead /\ mergedMain' = None /\ reviewedHead' = reviewedHead
      BY <1>9 DEF Undo
    <3>2. Uncommitted(edits') = {}
      BY <1>9, <2>1, <2>3 DEF Undo
    <3>3. Uncommitted(edits)' = Uncommitted(edits')
      BY DEF Uncommitted
    <3>4. checkpoint' = checkpoint /\ pc' = "gate"
      BY <1>9, <2>3 DEF Undo
    <3> QED
      BY <3>1, <3>2, <3>3, <3>4, <1>9 DEF Undo
  <2> QED
    BY <2>2, <2>3
<1>10. CASE GateMerged
  BY <1>10 DEF GateMerged
<1>11. CASE Linger
  BY <1>11 DEF Linger
<1>12. CASE Scan
  BY <1>12 DEF Scan
<1>13. CASE Publish
  BY <1>13 DEF Publish
<1>14. CASE Throw
  BY <1>14 DEF Throw
<1>15. CASE Close
  BY <1>15 DEF Close
<1>16. CASE UNCHANGED vars
  BY <1>16 DEF vars
<1> QED
  BY <1>1, <1>2, <1>3, <1>4, <1>5, <1>6, <1>7, <1>8, <1>9, <1>10, <1>11, <1>12, <1>13, <1>14, <1>15, <1>16 DEF Next

\* syncWithMain: a merge that conflicts or is red leaves the reviewed commit and
\* a clean tree.
THEOREM FallsBackClean == ASSUME NoUnseenEdits PROVE Spec => []FallsBackToReviewed
<1>1. Init => ReviewedAtSync /\ FallsBackToReviewed
  BY DEF Init, ReviewedAtSync, FallsBackToReviewed
<1>2. IInv /\ ReviewedAtSync /\ FallsBackToReviewed /\ [Next]_vars
      => ReviewedAtSync' /\ FallsBackToReviewed'
  BY NextFallsBack DEF IInv
<1> QED
  BY <1>1, <1>2, InvHolds, PTL DEF Spec
=============================================================================
