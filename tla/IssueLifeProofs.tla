--------------------------- MODULE IssueLifeProofs ---------------------------
(***************************************************************************)
(* IssueLife's types and safety invariants, for any cap, any number of     *)
(* publish tries and any of the failures GitHub's calls can have.          *)
(*                                                                         *)
(* One person's act is behind every exception: a label put on by hand      *)
(* while the run is at work can be taken off again before the run's own    *)
(* hand-back is through, and then the comments no longer match.            *)
(***************************************************************************)
EXTENDS IssueLife, TLAPS

Meddled == "by hand" \in mishaps

\* Where the run holds an issue that the gate or the sweep found workable.
Working == {"start", "discard", "build", "record", "create", "push", "refused",
            "comment", "label"}

HandingBack == pc \in {"comment", "label"}

\* A hand-back has a reason; the issue has no open pull request when a build
\* or a hand-back of it begins, and gets one only at its end; and the label
\* that hands it back is not on meanwhile, unless a person put it there.
AtWork ==
    /\ HandingBack => why # "none"
    /\ pc \in Working => pr \in {"none", "closed"}
    /\ pc = "discard" => pr = "closed"
    /\ pc \notin {"idle", "gate"} /\ needsHuman => Meddled

\* Labels follow their comment.
CommentFirst ==
    pc = "label" => Says(why) \in told \/ (Meddled /\ why # "move")

\* No more attempts are counted than failed.
CountsFailures ==
    /\ markers <= failed
    /\ pc = "record" => markers < failed
    /\ HandingBack /\ why = "cap" => failed = BUILD_FAILURE_CAP
    /\ "cap" \in told => failed = BUILD_FAILURE_CAP

\* Who re-queued the issue since its pull request closed had read the comment,
\* and no build is past startFromMain otherwise.
AskedFirst ==
    /\ requeued => consented
    /\ pr = "open" => ~needsHuman
    /\ pr = "closed" /\ needsHuman => consented \/ "closed" \in told
    /\ pr = "closed" /\ pc \in {"discard", "build", "record", "create", "push",
       "refused"} => consented
    /\ pr = "closed" /\ HandingBack => consented \/ why \in {"sweep", "start"}

\* Only a closed pull request leaves work behind.
OldWorkGone ==
    /\ pr = "none" => held = {}
    /\ pc = "build" => held = {}

\* What a build does not take back of its branch at base is a stray.
TakenBack ==
    /\ pc \in {"push", "refused"} /\ made = "failed" => origin # "base"
    /\ HandingBack /\ why = "move" => origin # "base"
    /\ queue = "Sandcastle:local" => origin # "base"

IInv ==
    /\ TypeOK
    /\ AtWork
    /\ CommentFirst
    /\ Meddled \/ CountsFailures
    /\ Meddled \/ AskedFirst
    /\ OldWorkGone
    /\ "stray" \in mishaps \/ TakenBack
    /\ HandBacksAreExplained

-----------------------------------------------------------------------------
(* Types, in the three parts a step is checked against.                      *)

FlagsTyped ==
    /\ needsHuman \in BOOLEAN /\ ready \in BOOLEAN
    /\ byHand \in BOOLEAN /\ requeued \in BOOLEAN /\ consented \in BOOLEAN

DataTyped ==
    /\ queue \in {"Sandcastle", "Sandcastle:local"}
    /\ markers \in 0..BUILD_FAILURE_CAP - 1
    /\ told \subseteq {"closed", "cap", "workflow", "move"}
    /\ failed \in 0..BUILD_FAILURE_CAP
    /\ origin \in {"none", "base", "work"} /\ held \subseteq Refs
    /\ pr \in {"none", "open", "closed", "merged"}
    /\ mishaps \subseteq {"by hand", "stray"}

RunTyped ==
    /\ pc \in PCs /\ why \in Whys /\ made \in {"no", "yes", "failed"}
    /\ tries \in 1..PUBLISH_RETRY_ATTEMPTS

LEMMA CapTyped == BUILD_FAILURE_CAP \in Nat /\ BUILD_FAILURE_CAP >= 1
  BY CapAssumption DEF CapAssumption

LEMMA TypeParts == TypeOK <=> FlagsTyped /\ DataTyped /\ RunTyped
  BY DEF TypeOK, FlagsTyped, DataTyped, RunTyped

LEMMA InitTypes == Init => TypeOK
<1> SUFFICES ASSUME Init PROVE TypeOK
  OBVIOUS
<1>1. FlagsTyped
  BY DEF Init, FlagsTyped
<1>2. DataTyped
  BY CapTyped DEF Init, DataTyped
<1>3. RunTyped
  BY RetryAssumption DEF RetryAssumption, Init, RunTyped, PCs, Whys
<1>4. QED
  BY <1>1, <1>2, <1>3, TypeParts

LEMMA StepFlags == FlagsTyped /\ Next => FlagsTyped'
  BY DEF FlagsTyped, moveToLocalQueue, addNeedsHuman, Unanswered, Next, Sweep, Intake, Gate,
     Start, Discard, Build, Record, Create, Push,
     List, Open, Refused, Comment, Label, Requeue, LabelByHand, ClosePR, MergePR, ByHand, Kill,
     NewPR, issueVars, prVars

LEMMA StepCounts ==
  ASSUME markers \in 0..BUILD_FAILURE_CAP - 1, failed \in 0..BUILD_FAILURE_CAP,
     Build \/ Record \/ Requeue
  PROVE  markers' \in 0..BUILD_FAILURE_CAP - 1 /\ failed' \in 0..BUILD_FAILURE_CAP
  BY CapTyped DEF Build, Record, Requeue

\* A hand-back that is begun has a reason, which its comment says.
LEMMA StepData == ASSUME DataTyped, RunTyped, AtWork, Next PROVE DataTyped'
<1> USE DEF DataTyped, Refs, issueVars, branchVars, prVars
<1>1. CASE Sweep
  BY <1>1 DEF Sweep, Unanswered
<1>2. CASE Intake
  BY <1>2 DEF Intake
<1>3. CASE Gate
  BY <1>3 DEF Gate
<1>4. CASE Start
  BY <1>4 DEF Start, Unanswered
<1>5. CASE Discard
  BY <1>5 DEF Discard, Deleted, NextRef
<1>6. CASE Build
  BY <1>6, StepCounts DEF Build
<1>7. CASE Record
  BY <1>7, StepCounts DEF Record
<1>8. CASE Create
  BY <1>8 DEF Create, Strays
<1>9. CASE Push
  BY <1>9 DEF Push
<1>10. CASE List
  BY <1>10 DEF List
<1>11. CASE Open
  BY <1>11 DEF Open, NewPR
<1>12. CASE Refused
  BY <1>12 DEF Refused, Strays
<1>13. CASE Comment
  BY <1>13 DEF Comment, RunTyped, Whys, AtWork, HandingBack, Says
<1>14. CASE Label
  BY <1>14 DEF Label, moveToLocalQueue, addNeedsHuman
<1>15. CASE Requeue
  BY <1>15, StepCounts DEF Requeue
<1>16. CASE LabelByHand
  BY <1>16 DEF LabelByHand
<1>17. CASE ClosePR
  BY <1>17 DEF ClosePR
<1>18. CASE MergePR
  BY <1>18 DEF MergePR
<1>19. CASE ByHand
  BY <1>19 DEF ByHand
<1>20. CASE Kill
  BY <1>20 DEF Kill
<1>q. QED
  BY <1>1, <1>2, <1>3, <1>4, <1>5, <1>6, <1>7, <1>8, <1>9, <1>10, <1>11, <1>12, <1>13, <1>14,
     <1>15, <1>16, <1>17, <1>18, <1>19, <1>20 DEF Next

LEMMA StepRun == ASSUME RunTyped, Next PROVE RunTyped'
<1> USE RetryAssumption DEF RetryAssumption, RunTyped, PCs, Whys, GoTo, Leave, Done, HandBack,
      HandedBack, Retry, runVars
<1>1. CASE Sweep
  BY <1>1 DEF Sweep, Unanswered
<1>2. CASE Intake
  BY <1>2 DEF Intake
<1>3. CASE Gate
  BY <1>3 DEF Gate
<1>4. CASE Start
  BY <1>4 DEF Start, Unanswered
<1>5. CASE Discard
  BY <1>5 DEF Discard
<1>6. CASE Build
  BY <1>6 DEF Build
<1>7. CASE Record
  BY <1>7 DEF Record
<1>8. CASE Create
  BY <1>8 DEF Create
<1>9. CASE Push
  BY <1>9 DEF Push
<1>10. CASE List
  BY <1>10 DEF List
<1>11. CASE Open
  BY <1>11 DEF Open
<1>12. CASE Refused
  BY <1>12 DEF Refused
<1>13. CASE Comment
  BY <1>13 DEF Comment
<1>14. CASE Label
  BY <1>14 DEF Label, moveToLocalQueue, addNeedsHuman
<1>15. CASE Requeue
  BY <1>15 DEF Requeue
<1>16. CASE LabelByHand
  BY <1>16 DEF LabelByHand
<1>17. CASE ClosePR
  BY <1>17 DEF ClosePR
<1>18. CASE MergePR
  BY <1>18 DEF MergePR
<1>19. CASE ByHand
  BY <1>19 DEF ByHand
<1>20. CASE Kill
  BY <1>20 DEF Kill
<1>q. QED
  BY <1>1, <1>2, <1>3, <1>4, <1>5, <1>6, <1>7, <1>8, <1>9, <1>10, <1>11, <1>12, <1>13, <1>14,
     <1>15, <1>16, <1>17, <1>18, <1>19, <1>20 DEF Next

-----------------------------------------------------------------------------
(* The inductive invariant.                                                  *)

\* What a run meets when it begins stays so until it is done.
LEMMA StepAtWork ==
  ASSUME DataTyped, RunTyped, AtWork, Next
  PROVE  AtWork'
<1> USE DEF AtWork, Working, HandingBack, Meddled, GoTo, Leave, Done, HandBack, HandedBack,
      Retry, runVars, issueVars, branchVars, prVars
<1>1. CASE Gate
  BY <1>1 DEF Gate, DataTyped
<1>2. CASE Open
  BY <1>2 DEF Open, NewPR
<1>3. CASE Sweep
  BY <1>3 DEF Sweep, Unanswered
<1>4. CASE Intake
  BY <1>4 DEF Intake
<1>5. CASE Start
  BY <1>5 DEF Start, Unanswered
<1>6. CASE Discard
  BY <1>6 DEF Discard
<1>7. CASE Build
  BY <1>7 DEF Build
<1>8. CASE Record
  BY <1>8 DEF Record
<1>9. CASE Create
  BY <1>9 DEF Create, Strays
<1>10. CASE Push
  BY <1>10 DEF Push
<1>11. CASE List
  BY <1>11 DEF List
<1>12. CASE Refused
  BY <1>12 DEF Refused, Strays
<1>13. CASE Comment
  BY <1>13 DEF Comment
<1>14. CASE Label
  BY <1>14 DEF Label, moveToLocalQueue, addNeedsHuman
<1>15. CASE Requeue
  BY <1>15 DEF Requeue
<1>16. CASE LabelByHand
  BY <1>16 DEF LabelByHand
<1>17. CASE ClosePR
  BY <1>17 DEF ClosePR
<1>18. CASE MergePR
  BY <1>18 DEF MergePR
<1>19. CASE ByHand
  BY <1>19 DEF ByHand
<1>20. CASE Kill
  BY <1>20 DEF Kill
<1>q. QED
  BY <1>1, <1>2, <1>3, <1>4, <1>5, <1>6, <1>7, <1>8, <1>9, <1>10, <1>11, <1>12, <1>13, <1>14,
     <1>15, <1>16, <1>17, <1>18, <1>19, <1>20 DEF Next

\* A label is reached through its comment only.
LEMMA StepCommentFirst ==
  ASSUME AtWork, CommentFirst, Next
  PROVE  CommentFirst'
<1> USE DEF CommentFirst, AtWork, Working, HandingBack, Meddled, Says, GoTo, Leave, Done,
      HandBack, HandedBack, Retry, runVars, issueVars, branchVars, prVars
<1>1. CASE Comment
  BY <1>1 DEF Comment
<1>2. CASE Requeue
  BY <1>2 DEF Requeue
<1>3. CASE Sweep
  BY <1>3 DEF Sweep, Unanswered
<1>4. CASE Intake
  BY <1>4 DEF Intake
<1>5. CASE Gate
  BY <1>5 DEF Gate
<1>6. CASE Start
  BY <1>6 DEF Start, Unanswered
<1>7. CASE Discard
  BY <1>7 DEF Discard
<1>8. CASE Build
  BY <1>8 DEF Build
<1>9. CASE Record
  BY <1>9 DEF Record
<1>10. CASE Create
  BY <1>10 DEF Create, Strays
<1>11. CASE Push
  BY <1>11 DEF Push
<1>12. CASE List
  BY <1>12 DEF List
<1>13. CASE Open
  BY <1>13 DEF Open, NewPR
<1>14. CASE Refused
  BY <1>14 DEF Refused, Strays
<1>15. CASE Label
  BY <1>15 DEF Label, moveToLocalQueue, addNeedsHuman
<1>16. CASE LabelByHand
  BY <1>16 DEF LabelByHand
<1>17. CASE ClosePR
  BY <1>17 DEF ClosePR
<1>18. CASE MergePR
  BY <1>18 DEF MergePR
<1>19. CASE ByHand
  BY <1>19 DEF ByHand
<1>20. CASE Kill
  BY <1>20 DEF Kill
<1>q. QED
  BY <1>1, <1>2, <1>3, <1>4, <1>5, <1>6, <1>7, <1>8, <1>9, <1>10, <1>11, <1>12, <1>13, <1>14,
     <1>15, <1>16, <1>17, <1>18, <1>19, <1>20 DEF Next

\* A build that failed is counted once at most, and the count starts anew with the
\* failures it is of.
LEMMA StepCountsFailures ==
  ASSUME DataTyped, AtWork, CountsFailures, Next, ~Meddled, ~Meddled'
  PROVE  CountsFailures'
<1>0. markers \in 0..BUILD_FAILURE_CAP - 1 /\ failed \in 0..BUILD_FAILURE_CAP
  BY DEF DataTyped
<1> USE DEF CountsFailures, HandingBack, GoTo, Leave, Done, HandBack
<1>1. CASE Build
  BY <1>0, <1>1, CapTyped DEF Build
<1>2. CASE Record
  BY <1>0, <1>2, CapTyped DEF Record
<1>3. CASE Comment
  <2>1. ("cap" \in told => failed = BUILD_FAILURE_CAP)'
    BY <1>3 DEF Comment, Says
  <2>2. pc' # "record" /\ UNCHANGED <<markers, failed>>
    BY <1>3 DEF Comment, HandedBack
  <2>3. (HandingBack /\ why = "cap" => failed = BUILD_FAILURE_CAP)'
    BY <1>3 DEF Comment, HandedBack, runVars
  <2>4. QED
    BY <2>1, <2>2, <2>3
<1>4. CASE Requeue
  <2>1. pc \in {"idle", "gate"}
    BY <1>4 DEF Requeue, AtWork, Meddled
  <2>2. QED
    BY <1>4, <2>1 DEF Requeue
<1>5. CASE Sweep \/ Intake \/ Gate \/ Start \/ Discard \/ Create \/ Push \/ List \/ Open \/ Refused \/ Label
  BY <1>5 DEF moveToLocalQueue, addNeedsHuman, Unanswered, Sweep, Intake, Gate, Start, Discard,
     Create, Push, List, Open, Refused, Label,
     HandedBack, Retry, issueVars, runVars
<1>6. CASE LabelByHand \/ ClosePR \/ MergePR \/ ByHand \/ Kill
  BY <1>6 DEF LabelByHand, ClosePR, MergePR, ByHand, Kill, issueVars, runVars
<1>q. QED
  BY <1>1, <1>2, <1>3, <1>4, <1>5, <1>6 DEF Next

\* Only a person's answer takes the label off a handed-back issue.
LEMMA StepAskedFirst ==
  ASSUME AtWork, CommentFirst, AskedFirst, ~Meddled, ~Meddled', Next
  PROVE  AskedFirst'
<1> USE DEF AskedFirst, CommentFirst, AtWork, Working, HandingBack, Meddled, Says, GoTo, Leave,
      Done, HandBack, HandedBack, Retry, runVars, issueVars, branchVars, prVars
<1>1. CASE Start
  BY <1>1 DEF Start, Unanswered
<1>2. CASE Label
  BY <1>2 DEF Label, moveToLocalQueue, addNeedsHuman
<1>3. CASE Requeue
  BY <1>3 DEF Requeue
<1>4. CASE Open
  <2>1. ~needsHuman /\ ~needsHuman'
    BY <1>4 DEF Open
  <2>2. pc' \in {"idle", "list"}
    BY <1>4 DEF Open
  <2>3. (requeued => consented)'
    BY <1>4 DEF Open, NewPR
  <2>4. QED
    BY <2>1, <2>2, <2>3
<1>5. CASE Sweep
  BY <1>5 DEF Sweep, Unanswered
<1>6. CASE Intake
  BY <1>6 DEF Intake
<1>7. CASE Gate
  BY <1>7 DEF Gate
<1>8. CASE Discard
  BY <1>8 DEF Discard
<1>9. CASE Build
  BY <1>9 DEF Build
<1>10. CASE Record
  BY <1>10 DEF Record
<1>11. CASE Create
  BY <1>11 DEF Create, Strays
<1>12. CASE Push
  BY <1>12 DEF Push
<1>13. CASE List
  BY <1>13 DEF List
<1>14. CASE Refused
  BY <1>14 DEF Refused, Strays
<1>15. CASE Comment
  BY <1>15 DEF Comment
<1>16. CASE LabelByHand
  BY <1>16 DEF LabelByHand
<1>17. CASE ClosePR
  BY <1>17 DEF ClosePR
<1>18. CASE MergePR
  BY <1>18 DEF MergePR
<1>19. CASE ByHand
  BY <1>19 DEF ByHand
<1>20. CASE Kill
  BY <1>20 DEF Kill
<1>q. QED
  BY <1>1, <1>2, <1>3, <1>4, <1>5, <1>6, <1>7, <1>8, <1>9, <1>10, <1>11, <1>12, <1>13, <1>14,
     <1>15, <1>16, <1>17, <1>18, <1>19, <1>20 DEF Next

\* A build of an issue whose pull request closed comes after the deletions.
LEMMA StepOldWorkGone ==
  ASSUME AtWork, OldWorkGone, Next
  PROVE  OldWorkGone'
<1> USE DEF OldWorkGone, AtWork, Working, HandingBack, GoTo, Leave, Done, HandBack, HandedBack,
      Retry, runVars, issueVars, branchVars, prVars
<1>1. CASE Start
  BY <1>1 DEF Start, Unanswered
<1>2. CASE Discard
  BY <1>2 DEF Discard, Deleted
<1>3. CASE ClosePR
  BY <1>3 DEF ClosePR
<1>4. CASE Sweep
  BY <1>4 DEF Sweep, Unanswered
<1>5. CASE Intake
  BY <1>5 DEF Intake
<1>6. CASE Gate
  BY <1>6 DEF Gate
<1>7. CASE Build
  BY <1>7 DEF Build
<1>8. CASE Record
  BY <1>8 DEF Record
<1>9. CASE Create
  BY <1>9 DEF Create, Strays
<1>10. CASE Push
  BY <1>10 DEF Push
<1>11. CASE List
  BY <1>11 DEF List
<1>12. CASE Open
  BY <1>12 DEF Open, NewPR
<1>13. CASE Refused
  BY <1>13 DEF Refused, Strays
<1>14. CASE Comment
  BY <1>14 DEF Comment
<1>15. CASE Label
  BY <1>15 DEF Label, moveToLocalQueue, addNeedsHuman
<1>16. CASE Requeue
  BY <1>16 DEF Requeue
<1>17. CASE LabelByHand
  BY <1>17 DEF LabelByHand
<1>18. CASE MergePR
  BY <1>18 DEF MergePR
<1>19. CASE ByHand
  BY <1>19 DEF ByHand
<1>20. CASE Kill
  BY <1>20 DEF Kill
<1>q. QED
  BY <1>1, <1>2, <1>3, <1>4, <1>5, <1>6, <1>7, <1>8, <1>9, <1>10, <1>11, <1>12, <1>13, <1>14,
     <1>15, <1>16, <1>17, <1>18, <1>19, <1>20 DEF Next

\* Only the branch this build created is taken back, and only it is left.
LEMMA StepTakenBack ==
  ASSUME RunTyped, "stray" \in mishaps \/ TakenBack, Next
  PROVE  "stray" \in mishaps' \/ TakenBack'
<1> USE DEF TakenBack, HandingBack, GoTo, Leave, Done, HandBack, HandedBack, Retry, runVars,
      issueVars, branchVars, prVars
<1>1. CASE Create
  BY <1>1 DEF Create, Strays, InActions
<1>2. CASE Refused
  BY <1>2 DEF Refused, Strays, RunTyped
<1>3. CASE Label
  BY <1>3 DEF Label, moveToLocalQueue, addNeedsHuman
<1>4. CASE Sweep
  BY <1>4 DEF Sweep, Unanswered
<1>5. CASE Intake
  BY <1>5 DEF Intake
<1>6. CASE Gate
  BY <1>6 DEF Gate
<1>7. CASE Start
  BY <1>7 DEF Start, Unanswered
<1>8. CASE Discard
  BY <1>8 DEF Discard, Deleted
<1>9. CASE Build
  BY <1>9 DEF Build
<1>10. CASE Record
  BY <1>10 DEF Record
<1>11. CASE Push
  BY <1>11 DEF Push
<1>12. CASE List
  BY <1>12 DEF List
<1>13. CASE Open
  BY <1>13 DEF Open, NewPR
<1>14. CASE Comment
  BY <1>14 DEF Comment
<1>15. CASE Requeue
  BY <1>15 DEF Requeue
<1>16. CASE LabelByHand
  BY <1>16 DEF LabelByHand
<1>17. CASE ClosePR
  BY <1>17 DEF ClosePR
<1>18. CASE MergePR
  BY <1>18 DEF MergePR
<1>19. CASE ByHand
  BY <1>19 DEF ByHand
<1>20. CASE Kill
  BY <1>20 DEF Kill
<1>q. QED
  BY <1>1, <1>2, <1>3, <1>4, <1>5, <1>6, <1>7, <1>8, <1>9, <1>10, <1>11, <1>12, <1>13, <1>14,
     <1>15, <1>16, <1>17, <1>18, <1>19, <1>20 DEF Next

\* A label that hands back, or moves, comes after what says so.
LEMMA StepExplained ==
  ASSUME AtWork, CommentFirst, HandBacksAreExplained, Next
  PROVE  HandBacksAreExplained'
<1> USE DEF HandBacksAreExplained, CommentFirst, AtWork, HandingBack, Meddled, Says, GoTo, Leave,
      Done, HandBack, HandedBack, Retry, runVars, issueVars, branchVars, prVars
<1>1. CASE Label
  <2>1. CASE why = "move"
    <3>1. "move" \in told
      BY <1>1, <2>1 DEF Label, moveToLocalQueue, addNeedsHuman
    <3>2. UNCHANGED <<needsHuman, ready, told, mishaps>>
      BY <1>1, <2>1 DEF Label, moveToLocalQueue, addNeedsHuman
    <3>3. QED
      BY <3>1, <3>2
  <2>2. CASE why # "move" /\ ~Meddled
    <3>1. Says(why) \in told /\ Says(why) # "move"
      BY <1>1, <2>2 DEF Label, moveToLocalQueue, addNeedsHuman
    <3>2. told' \ {"move"} # {}
      BY <1>1, <3>1 DEF Label, moveToLocalQueue, addNeedsHuman
    <3>3. needsHuman' => ~ready'
      BY <1>1, <2>2 DEF Label, moveToLocalQueue, addNeedsHuman
    <3>4. UNCHANGED queue /\ UNCHANGED told
      BY <1>1, <2>2 DEF Label, moveToLocalQueue, addNeedsHuman
    <3>5. QED
      BY <3>2, <3>3, <3>4
  <2>3. CASE why # "move" /\ Meddled
    BY <1>1, <2>3 DEF Label, moveToLocalQueue, addNeedsHuman
  <2>4. QED
    BY <2>1, <2>2, <2>3
<1>2. CASE Sweep
  BY <1>2 DEF Sweep, Unanswered
<1>3. CASE Intake
  BY <1>3 DEF Intake
<1>4. CASE Gate
  BY <1>4 DEF Gate
<1>5. CASE Start
  BY <1>5 DEF Start, Unanswered
<1>6. CASE Discard
  BY <1>6 DEF Discard
<1>7. CASE Build
  BY <1>7 DEF Build
<1>8. CASE Record
  BY <1>8 DEF Record
<1>9. CASE Create
  BY <1>9 DEF Create, Strays
<1>10. CASE Push
  BY <1>10 DEF Push
<1>11. CASE List
  BY <1>11 DEF List
<1>12. CASE Open
  BY <1>12 DEF Open, NewPR
<1>13. CASE Refused
  BY <1>13 DEF Refused, Strays
<1>14. CASE Comment
  BY <1>14 DEF Comment
<1>15. CASE Requeue
  BY <1>15 DEF Requeue
<1>16. CASE LabelByHand
  BY <1>16 DEF LabelByHand
<1>17. CASE ClosePR
  BY <1>17 DEF ClosePR
<1>18. CASE MergePR
  BY <1>18 DEF MergePR
<1>19. CASE ByHand
  BY <1>19 DEF ByHand
<1>20. CASE Kill
  BY <1>20 DEF Kill
<1>q. QED
  BY <1>1, <1>2, <1>3, <1>4, <1>5, <1>6, <1>7, <1>8, <1>9, <1>10, <1>11, <1>12, <1>13, <1>14,
     <1>15, <1>16, <1>17, <1>18, <1>19, <1>20 DEF Next

LEMMA MishapsStay ==
  ASSUME DataTyped, Next
  PROVE  mishaps \subseteq mishaps'
  BY DEF moveToLocalQueue, addNeedsHuman, Unanswered, Next, Sweep, Intake, Gate, Start, Discard,
     Build, Record, Create, Push, List, Open,
     Refused,
     Comment, Label, Requeue, LabelByHand, ClosePR, MergePR, ByHand, Kill, Strays, prVars

-----------------------------------------------------------------------------
(* The theorems.                                                             *)

LEMMA InitInv == Init => IInv
<1> SUFFICES ASSUME Init PROVE IInv
  OBVIOUS
<1>1. AtWork /\ CommentFirst /\ AskedFirst /\ OldWorkGone /\ TakenBack /\ HandBacksAreExplained
  BY DEF Init, AtWork, CommentFirst, AskedFirst, OldWorkGone, TakenBack, HandBacksAreExplained,
     HandingBack, Working
<1>2. CountsFailures
  BY CapTyped DEF Init, CountsFailures, HandingBack
<1>3. QED
  BY <1>1, <1>2, InitTypes DEF IInv

LEMMA StepInv == IInv /\ [Next]_vars => IInv'
<1>1. ASSUME IInv, Next PROVE IInv'
  <2>1. FlagsTyped /\ DataTyped /\ RunTyped
    BY <1>1, TypeParts DEF IInv
  <2>2. AtWork /\ CommentFirst /\ OldWorkGone /\ HandBacksAreExplained
    BY <1>1 DEF IInv
  <2>3. FlagsTyped' /\ DataTyped' /\ RunTyped'
    BY <1>1, <2>1, <2>2, StepFlags, StepData, StepRun
  <2>4. TypeOK'
    BY <2>3 DEF TypeOK, FlagsTyped, DataTyped, RunTyped
  <2>5. AtWork' /\ CommentFirst' /\ OldWorkGone' /\ HandBacksAreExplained'
    BY <1>1, <2>1, <2>2, StepAtWork, StepCommentFirst, StepOldWorkGone, StepExplained
  <2>6. Meddled => Meddled'
    BY <1>1, <2>1, MishapsStay DEF Meddled
  <2>7. Meddled' \/ CountsFailures'
    BY <1>1, <2>1, <2>2, <2>6, StepCountsFailures DEF IInv
  <2>8. Meddled' \/ AskedFirst'
    BY <1>1, <2>1, <2>2, <2>6, StepAskedFirst DEF IInv
  <2>9. "stray" \in mishaps' \/ TakenBack'
    BY <1>1, <2>1, StepTakenBack DEF IInv
  <2>10. QED
    BY <2>4, <2>5, <2>7, <2>8, <2>9 DEF IInv
<1>2. ASSUME IInv, UNCHANGED vars PROVE IInv'
  <2> USE <1>2 DEF IInv, vars, issueVars, branchVars, prVars, runVars
  <2>1. TypeOK'
    BY DEF TypeOK
  <2>2. AtWork' /\ CommentFirst' /\ OldWorkGone' /\ HandBacksAreExplained'
    BY DEF AtWork, CommentFirst, OldWorkGone, HandBacksAreExplained, HandingBack, Meddled
  <2>3. (Meddled' \/ CountsFailures') /\ (Meddled' \/ AskedFirst')
    BY DEF Meddled, CountsFailures, AskedFirst, HandingBack
  <2>4. "stray" \in mishaps' \/ TakenBack'
    BY DEF TakenBack, HandingBack
  <2>5. QED
    BY <2>1, <2>2, <2>3, <2>4
<1>3. QED
  BY <1>1, <1>2

\* The invariant holds in every state that any failures and any people lead to.
THEOREM InvHolds == Spec => []IInv
  BY InitInv, StepInv, PTL DEF Spec

\* Every reachable state has its types.
THEOREM TypeCorrect == Spec => []TypeOK
<1>1. IInv => TypeOK
  BY DEF IInv
<1>2. QED
  BY <1>1, InvHolds, PTL

\* recordFailedAttempt, handBack and moveToLocal: an issue that is handed back or
\* moved carries a comment that says why.
THEOREM NeverHandedBackSilently == Spec => []HandBacksAreExplained
<1>1. IInv => HandBacksAreExplained
  BY DEF IInv
<1>2. QED
  BY <1>1, InvHolds, PTL

\* recordFailedAttempt: the comment that gives an issue up follows as many failed
\* builds as the cap says, for any cap.
THEOREM GivesUpNoSooner == Spec => []GivesUpAtTheCap
<1>1. IInv => GivesUpAtTheCap
  BY DEF IInv, CountsFailures, GivesUpAtTheCap, Meddled
<1>2. QED
  BY <1>1, InvHolds, PTL

\* startFromMain: discardClosedWork runs after the consent to it.
THEOREM AsksBeforeDiscarding == Spec => []DiscardsWithConsent
<1>1. IInv => DiscardsWithConsent
  BY DEF IInv, AtWork, AskedFirst, DiscardsWithConsent, Meddled
<1>2. QED
  BY <1>1, InvHolds, PTL

\* discardClosedWork: what it could not delete is not built on.
THEOREM BuildsFromMain == Spec => []StartsFromMain
<1>1. IInv => StartsFromMain
  BY DEF IInv, OldWorkGone, StartsFromMain
<1>2. QED
  BY <1>1, InvHolds, PTL

\* publish: the local queue gets an issue without the branch created at base.
THEOREM MovesWithoutABranch == Spec => []LocalStartsClean
<1>1. IInv => LocalStartsClean
  BY DEF IInv, TakenBack, LocalStartsClean
<1>2. QED
  BY <1>1, InvHolds, PTL

=============================================================================
