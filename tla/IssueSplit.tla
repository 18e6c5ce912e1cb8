------------------------------ MODULE IssueSplit ------------------------------
(***************************************************************************)
(* What intake's verdict does to one issue (.sandcastle/lib/intake.mts),   *)
(* above all a split: sub-issues created and linked one call at a time     *)
(* under a mark that holds them all back, until the issue has become an    *)
(* umbrella; and the umbrella's closing (.sandcastle/lib/umbrella.mts),    *)
(* which a run's every round looks for meanwhile.  Each call on GitHub may *)
(* fail before or after it took effect, and the run may die between two.   *)
(***************************************************************************)
EXTENDS Naturals, SequencesExt

CONSTANTS
    Drafts,       \* how many sub-issues the verdict drafts
    Errors,       \* how a failed call ends: "lost", "applied"
    MaxRequeues   \* bound on the times people put the issue back

ASSUME DraftsAssumption == Drafts \in Nat \ {0} /\ MaxRequeues \in Nat
ASSUME ErrorsAssumption == Errors \subseteq {"lost", "applied"}

VARIABLES
    issue,     \* its labels, comments, the splits it is the umbrella of, whether open
    children,  \* the sub-issues, as GitHub has them
    blocker,   \* what the issue was blocked by: "none", "open", "landed"
    step,      \* the next call of applyVerdict
    split,     \* which split it is: the times people had put the issue back
    mine,      \* the children this split knows it created, in build order
    left,      \* the marks still to take off at the end
    looks,     \* where closeFinishedUmbrellas is
    requeues,  \* times people put the issue back
    mishap     \* whether only a log tells why a mark is there

splitVars == <<step, split, mine, left>>
vars == <<issue, children, blocker, splitVars, looks, requeues, mishap>>

Queue == "sandcastle"
JUDGED_LABELS == {"ready", "needs-info", "needs-human"}
Labels == JUDGED_LABELS \cup {Queue}

Init ==
    /\ issue = [labels |-> {Queue}, comments |-> {}, umbrellaOf |-> {}, open |-> TRUE]
    /\ children = <<>>
    /\ blocker \in {"none", "open"}
    /\ step = "off" /\ split = 0 /\ mine = <<>> /\ left = <<>>
    /\ looks = "off" /\ requeues = 0 /\ mishap = FALSE

Labelled(add, remove) == [issue EXCEPT !.labels = (@ \ remove) \cup add]
Commented(comment) == [issue EXCEPT !.comments = @ \cup {comment}]

\* One call on GitHub: it succeeds, or its error leaves it done or not done.
Try(issueAfter, childrenAfter, ok, failed) ==
    \/ issue' = issueAfter /\ children' = childrenAfter /\ step' = ok
    \/ "applied" \in Errors /\ issue' = issueAfter /\ children' = childrenAfter /\ step' = failed
    \/ "lost" \in Errors /\ step' = failed /\ UNCHANGED <<issue, children>>

Rest == UNCHANGED <<split, blocker, looks, requeues>>

-----------------------------------------------------------------------------
(* applyVerdicts for the issue: the labels are read anew first.              *)

needsIntake == issue.open /\ Queue \in issue.labels /\ issue.labels \cap JUDGED_LABELS = {}

Judge ==
    /\ step = "off" /\ needsIntake
    /\ step' = "reread" /\ split' = requeues /\ mine' = <<>> /\ left' = <<>>
    /\ UNCHANGED <<issue, children, blocker, looks, requeues, mishap>>

\* An issue judged meanwhile is skipped.  A split whose drafts are no good is
\* handed back with questions, like an unclear issue.
Reread ==
    /\ step = "reread"
    /\ step' \in {"off"} \cup
            IF issue.labels \cap JUDGED_LABELS = {} THEN {"addReady", "blockersOf", "questions"} ELSE {}
    /\ UNCHANGED <<issue, children, mine, left, mishap>> /\ Rest

\* The label and, best effort, the reason.
Ready ==
    /\ \/ step = "addReady" /\ Try(Labelled({"ready"}, {}), children, "reason", "off")
       \/ step = "reason" /\ Try(Commented("ready"), children, "off", "off")
    /\ UNCHANGED <<mine, left, mishap>> /\ Rest

\* Mutant of NeedsInfo: the label first.
NeedsInfoLabelFirst ==
    /\ \/ step = "questions" /\ Try(Labelled({"needs-info"}, {}), children, "label", "off")
       \/ step = "label" /\ Try(Commented("questions"), children, "off", "off")
    /\ UNCHANGED <<mine, left, mishap>> /\ Rest

\* The questions, then the label.
NeedsInfo ==
    /\ \/ step = "questions" /\ Try(Commented("questions"), children, "label", "off")
       \/ step = "label" /\ Try(Labelled({"needs-info"}, {}), children, "off", "off")
    /\ UNCHANGED <<mine, left, mishap>> /\ Rest

-----------------------------------------------------------------------------
(* applySplit.                                                               *)

\* A failure reading the blockers leaves the issue unjudged.
BlockersOf ==
    /\ step = "blockersOf" /\ step' \in {"mark", "off"}
    /\ UNCHANGED <<issue, children, mine, left, mishap>> /\ Rest

\* Mutant of Mark: the issue is not marked.
MarkNothing ==
    /\ \/ step = "mark" /\ step' = "create" /\ UNCHANGED <<issue, children, mishap>>
       \/ step = "unmark" /\ UNCHANGED <<issue, children, step, mishap>>
    /\ UNCHANGED <<mine, left>> /\ Rest

\* A mark that failed is taken back, in case GitHub added it.
Mark ==
    /\ \/ step = "mark" /\ Try(Labelled({"needs-human"}, {}), children, "create", "unmark") /\ UNCHANGED mishap
       \/ step = "unmark" /\ Try(Labelled({}, {"needs-human"}), children, "off", "off")
          /\ mishap' = (mishap \/ "needs-human" \in issue'.labels)
    /\ UNCHANGED <<mine, left>> /\ Rest

\* Mutant of Child: not held back.
ChildFree == [split |-> split, place |-> Len(mine) + 1, held |-> FALSE, linked |-> FALSE, after |-> 0,
              waits |-> mine = <<>> /\ blocker # "none", state |-> "open", byHand |-> FALSE]

\* Mutant of Child: the last child takes the blockers over.
ChildLastWaits == [split |-> split, place |-> Len(mine) + 1, held |-> TRUE, linked |-> FALSE, after |-> 0,
                   waits |-> Len(mine) + 1 = Drafts /\ blocker # "none", state |-> "open", byHand |-> FALSE]

\* A child is created held back; the first waits for the issue's own blockers.
Child == [split |-> split, place |-> Len(mine) + 1, held |-> TRUE, linked |-> FALSE, after |-> 0,
          waits |-> mine = <<>> /\ blocker # "none", state |-> "open", byHand |-> FALSE]

\* A create that failed may have left a child the host does not know.
Create ==
    /\ step = "create"
    /\ Try(issue, Append(children, Child), "link", "explain")
    /\ mine' = IF step' = "link" THEN Append(mine, Len(children')) ELSE mine
    /\ UNCHANGED <<left, mishap>> /\ Rest

AfterChild == IF Len(mine) < Drafts THEN "create" ELSE "unqueue"

Link ==
    /\ step = "link"
    /\ Try(issue, [children EXCEPT ![Last(mine)].linked = TRUE],
           IF Len(mine) > 1 THEN "chain" ELSE AfterChild, "explain")
    /\ UNCHANGED <<mine, left, mishap>> /\ Rest

Chain ==
    /\ step = "chain"
    /\ Try(issue, [children EXCEPT ![Last(mine)].after = mine[Len(mine) - 1]], AfterChild, "explain")
    /\ UNCHANGED <<mine, left, mishap>> /\ Rest

\* The issue leaves the queue, then says what it has become.
Unqueue ==
    /\ step = "unqueue"
    /\ Try(Labelled({}, {Queue}), children, "umbrella", "explain")
    /\ UNCHANGED <<mine, left, mishap>> /\ Rest

\* Mutant of Marks: the issue keeps its own mark.
MarksOfChildren == mine

\* The marks to take off, the children's first; 0 is the issue.
Marks == Append(mine, 0)

Umbrella ==
    /\ step = "umbrella"
    /\ Try([issue EXCEPT !.umbrellaOf = @ \cup {split}], children, "release", "explain")
    /\ left' = IF step' = "release" THEN Marks ELSE left
    /\ UNCHANGED <<mine, mishap>> /\ Rest

\* A mark that stays is logged, for a person to take off.
Release ==
    /\ step = "release"
    /\ LET held == Head(left)
           next == IF Len(left) = 1 THEN "off" ELSE "release"
       IN  IF held = 0
           THEN Try(Labelled({}, {"needs-human"}), children, next, next)
           ELSE Try(issue, [children EXCEPT ![held].held = FALSE], next, next)
    /\ mishap' = (mishap \/ <<issue, children>>' = <<issue, children>>)
    /\ left' = Tail(left)
    /\ UNCHANGED mine /\ Rest

\* A split that failed after the mark is handed back; the mark stays anyway.
HandBack ==
    /\ \/ step = "explain" /\ Try(Commented("partial"), children, "handBack", "off")
          /\ mishap' = (mishap \/ "partial" \notin issue.comments')
       \/ step = "handBack" /\ Try(Labelled({"needs-human"}, {"ready"}), children, "off", "off")
          /\ UNCHANGED mishap
    /\ UNCHANGED <<mine, left>> /\ Rest

\* The run is killed.
Crash ==
    /\ step # "off" /\ step' = "off"
    /\ mishap' = TRUE
    /\ UNCHANGED <<issue, children, mine, left>> /\ Rest

applySplit == BlockersOf \/ Mark \/ Create \/ Link \/ Chain \/ Unqueue \/ Umbrella \/ Release \/ HandBack

-----------------------------------------------------------------------------
(* closeFinishedUmbrellas, for the issue once it carries the comment.        *)

isUmbrella == issue.open /\ issue.umbrellaOf # {}
Held == issue.labels \cap {Queue, "needs-human"} # {}

subIssues == {i \in DOMAIN children : children[i].linked}

\* Mutant of Finished: closed is good enough.
FinishedOrDropped == subIssues # {} /\ \A i \in subIssues : children[i].state # "open"

Finished == subIssues # {} /\ \A i \in subIssues : children[i].state = "completed"

closeIssueAsCompleted == issue' = [issue EXCEPT !.open = FALSE]

\* Its labels, then its sub-issues, then the close; each call may fail.
closeFinishedUmbrellas ==
    /\ \/ looks = "off" /\ isUmbrella /\ looks' = "labels" /\ UNCHANGED issue
       \/ looks = "labels" /\ ~ Held /\ looks' = "subIssues" /\ UNCHANGED issue
       \/ looks = "subIssues" /\ Finished /\ looks' = "close" /\ UNCHANGED issue
       \/ looks = "close" /\ looks' = "off" /\ closeIssueAsCompleted
    /\ UNCHANGED <<children, blocker, splitVars, requeues, mishap>>

\* It is held, it is not finished, or a call failed: the next round looks again.
StaysOpen ==
    /\ looks # "off" /\ looks' = "off"
    /\ UNCHANGED <<issue, children, blocker, splitVars, requeues, mishap>>

-----------------------------------------------------------------------------
(* The other runs and the people on GitHub.                                  *)

GitHub == UNCHANGED <<blocker, splitVars, looks, mishap>>

OtherRun ==
    /\ needsIntake
    /\ \/ issue' = Labelled({"ready"}, {})
       \/ issue' = [Labelled({"needs-info"}, {}) EXCEPT !.comments = @ \cup {"questions"}]
    /\ UNCHANGED <<children, requeues>> /\ GitHub

BlockerLands ==
    /\ blocker = "open" /\ blocker' = "landed"
    /\ UNCHANGED <<issue, children, requeues, splitVars, looks, mishap>>

Change(i, child) == children' = [children EXCEPT ![i] = child] /\ UNCHANGED <<issue, requeues>> /\ GitHub

\* A child that nothing holds back is built and merged.
Build(i) ==
    LET c == children[i]
    IN  /\ c.state = "open" /\ ~ c.held
        /\ c.waits => blocker = "landed"
        /\ c.after # 0 => children[c.after].state = "completed"
        /\ Change(i, [c EXCEPT !.state = "completed"])

SplitOf(s) == {i \in DOMAIN children : children[i].split = s}

\* The split s got as far as its umbrella.
Complete(s) ==
    /\ \A k \in 1..Drafts : \E i \in SplitOf(s) : children[i].place = k
    /\ \A i \in SplitOf(s) : children[i].linked /\ (children[i].place > 1 => children[i].after # 0)
    /\ s \in issue.umbrellaOf

HandedBack == step = "off" /\ "needs-human" \in issue.labels /\ "partial" \in issue.comments

\* As the comment asks before the issue is put back: one child after the other
\* is closed as not planned and removed from the sub-issues.
Drop(i) ==
    /\ HandedBack /\ i \in SplitOf(split) /\ children[i].state = "open"
    /\ Change(i, [children[i] EXCEPT !.state = "not_planned", !.linked = FALSE])

\* Anyone may close a sub-issue as not planned, for reasons of their own.
NotPlanned(i) ==
    /\ ~ children[i].held /\ children[i].state = "open"
    /\ Change(i, [children[i] EXCEPT !.state = "not_planned"])

\* The log says a finished split left a mark that a person has to remove.
ByHand(i) ==
    /\ step = "off" /\ ~ HandedBack /\ children[i].held /\ Complete(children[i].split)
    /\ Change(i, [children[i] EXCEPT !.held = FALSE])

Putting(labels, comments) ==
    /\ requeues < MaxRequeues /\ requeues' = requeues + 1
    /\ issue' = [issue EXCEPT !.labels = labels, !.comments = comments]
    /\ UNCHANGED children /\ GitHub

\* Put back: as the comment says, after an answer, or an umbrella anew.
Requeue ==
    \/ /\ HandedBack /\ \A i \in SplitOf(split) : ~ children[i].linked
       /\ Putting((issue.labels \ {"needs-human"}) \cup {Queue}, issue.comments \ {"partial"})
    \/ /\ "needs-info" \in issue.labels /\ step = "off"
       /\ Putting(issue.labels \ {"needs-info"}, issue.comments \ {"questions"})
    \/ /\ isUmbrella /\ Queue \notin issue.labels
       /\ Putting(issue.labels \cup {Queue}, issue.comments)

\* Or the split is finished by hand; the issue keeps its mark.
FinishByHand ==
    /\ HandedBack /\ \E i \in SplitOf(split) : children[i].held
    /\ issue' = Labelled({}, {Queue})
    /\ children' = [i \in DOMAIN children |->
          IF i \notin SplitOf(split) \/ children[i].state # "open" THEN children[i]
          ELSE [children[i] EXCEPT !.linked = TRUE, !.held = FALSE, !.byHand = TRUE,
                                   !.after = IF children[i].place = 1 THEN 0 ELSE i - 1]]
    /\ UNCHANGED requeues /\ GitHub

\* A mark with nothing but the log to say why is found and taken off.
TakeOff ==
    /\ step = "off" /\ "needs-human" \in issue.labels /\ "partial" \notin issue.comments
    /\ IF Queue \in issue.labels
       THEN Putting(issue.labels \ {"needs-human"}, issue.comments)
       ELSE issue' = Labelled({}, {"needs-human"}) /\ UNCHANGED <<children, requeues>> /\ GitHub

People ==
    \/ Requeue \/ FinishByHand \/ TakeOff
    \/ \E i \in DOMAIN children : Build(i) \/ Drop(i) \/ NotPlanned(i) \/ ByHand(i)

Next ==
    \/ Judge \/ Reread \/ Ready \/ NeedsInfo \/ applySplit \/ Crash
    \/ closeFinishedUmbrellas \/ StaysOpen
    \/ OtherRun \/ BlockerLands \/ People

Spec == Init /\ [][Next]_vars

-----------------------------------------------------------------------------

\* "so none is built before the split has finished" (intake.mts:313): a child
\* whose mark nobody took off by hand is free only once all of them exist, are
\* linked in order, and the issue says it is their umbrella and is not queued.
HeldTillSplit ==
    \A i \in DOMAIN children :
        ~ children[i].held /\ ~ children[i].byHand =>
            /\ Complete(children[i].split)
            /\ Queue \in issue.labels => requeues > children[i].split

\* A split that failed or died part of the way is not begun anew by a later
\* round or run (the mark of intake.mts:310-318): no draft is created twice
\* unless a person put the issue back in between.  One run splits at a time here;
\* two that read the labels at once (intake.mts:218) would both split.
SplitOnce ==
    \A i, j \in DOMAIN children :
        <<children[i].split, children[i].place>> = <<children[j].split, children[j].place>> => i = j

\* The children land in build order, each "blocked by the child before it"
\* (intake.mts:290), and none before what the issue itself waited for.
BuiltInOrder ==
    \A i \in DOMAIN children :
        children[i].state = "completed" /\ ~ children[i].byHand =>
            /\ \A j \in SplitOf(children[i].split) :
                    children[j].place < children[i].place => children[j].state = "completed"
            /\ blocker # "open"

\* The host closes an issue only as the umbrella of a split all of whose
\* children landed, those a person took out of it aside, though the labels, the
\* sub-issues and the close are separate calls.
ClosesWhatIsDone ==
    ~ issue.open => \E s \in issue.umbrellaOf : \A k \in 1..Drafts : \E i \in SplitOf(s) :
        children[i].place = k /\ (children[i].state = "completed" \/ ~ children[i].linked)

\* An issue the host handed back says why: only a crash or a second failure
\* leaves a mark that the log alone explains.
HandBacksSayWhy ==
    /\ "needs-info" \in issue.labels => "questions" \in issue.comments
    /\ step = "off" /\ "needs-human" \in issue.labels => "partial" \in issue.comments \/ mishap

\* Looking again every round, each look's calls do not fail forever.
LiveSpec ==
    /\ Spec
    /\ \A now \in {"off", "labels", "subIssues", "close"} :
            SF_vars(closeFinishedUmbrellas /\ looks = now)

\* A split that went well is closed once its children have landed, unless a
\* person queues the issue again: no mark of the split's own stays in the way.
SplitsClose ==
    (/\ isUmbrella /\ Finished /\ ~ mishap /\ step = "off" /\ "partial" \notin issue.comments)
        ~> (~ issue.open \/ Queue \in issue.labels \/ mishap \/ ~ Finished)
===============================================================================
