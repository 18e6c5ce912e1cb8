---------------------------- MODULE IntakeProofs ----------------------------
(***************************************************************************)
(* What a verdict does to its issue, and then the rounds that ask for it.  *)
(*                                                                         *)
(* IssueSplit's safety invariants, for any number of drafts, of times that *)
(* people put the issue back and of failed calls, whatever these did.  All *)
(* rest on the mark: while sandcastle:needs-human is on, nobody but this   *)
(* split adds to the split's children, and none of them is free.           *)
(*                                                                         *)
(* Intake's rounds, for any number of issues, batch size and limits: that  *)
(* a round's batches hold every unjudged issue, and that halving a failed  *)
(* batch leaves out nobody but the issue that breaks it.                   *)
(***************************************************************************)
EXTENDS IssueSplit, Intake, NaturalsInduction, WellFoundedInduction, FiniteSetTheorems,
        SequenceTheorems, TLAPS

Comments == {"ready", "questions", "partial"}
States == {"open", "completed", "not_planned"}

\* Before the mark, while the children are made, and after a failure.
Unmarked == {"reread", "addReady", "reason", "questions", "label", "blockersOf", "mark"}
Making == {"create", "link", "chain", "unqueue", "umbrella"}
Failing == {"explain", "handBack"}
Steps == {"off", "unmark", "release"} \cup Unmarked \cup Making \cup Failing

Children ==
    [split : Nat, place : Nat \ {0}, held : BOOLEAN, linked : BOOLEAN, after : Nat,
     waits : BOOLEAN, state : States, byHand : BOOLEAN]

IssueTyped ==
    issue \in [labels : SUBSET Labels, comments : SUBSET Comments, umbrellaOf : SUBSET Nat,
               open : BOOLEAN]

SplitTyped ==
    /\ step \in Steps /\ split \in Nat /\ requeues \in Nat
    /\ mine \in Seq(Nat \ {0}) /\ left \in Seq(Nat)

OthersTyped ==
    /\ blocker \in {"none", "open", "landed"}
    /\ looks \in {"off", "labels", "subIssues", "close"}
    /\ mishap \in BOOLEAN

TypeOK == IssueTyped /\ children \in Seq(Children) /\ SplitTyped /\ OthersTyped

-----------------------------------------------------------------------------

Free(i) == ~ children[i].held /\ ~ children[i].byHand
Chained(i) == children[i].linked /\ (children[i].place > 1 => children[i].after # 0)

\* The mark is on from Mark to the last Release or a person's TakeOff, and the
\* comment that asks for a person's help never without it.
MarkTells ==
    /\ step \in Unmarked => "needs-human" \notin issue.labels
    /\ step \in Making \cup Failing \cup {"release"} => "needs-human" \in issue.labels
    /\ "partial" \in issue.comments => "needs-human" \in issue.labels /\ step \in {"off", "handBack"}
    /\ step = "handBack" => "partial" \in issue.comments
    /\ step = "label" => "questions" \in issue.comments

\* A split is numbered by the times the issue was put back before it.  While it
\* is still queued after its last split, the mark is on.
SplitsNumbered ==
    /\ split <= requeues
    /\ \A i \in DOMAIN children : children[i].split <= split
    /\ \A i \in DOMAIN children : children[i].split = requeues /\ Queue \in issue.labels =>
            "needs-human" \in issue.labels

\* Until the first create the split has no child.
NothingMade ==
    step \in Unmarked \cup {"unmark"} => mine = <<>> /\ SplitOf(split) = {}

\* While they are made the host knows all the split's children, each open and
\* held, and has linked and chained all but the last.
KnowsItsOwn ==
    step \in Making =>
        /\ split \notin issue.umbrellaOf
        /\ \A k \in DOMAIN mine : mine[k] \in SplitOf(split) /\ children[mine[k]].place = k
        /\ \A i \in SplitOf(split) :
            /\ children[i].place \in DOMAIN mine /\ mine[children[i].place] = i
            /\ children[i].held /\ ~ children[i].byHand /\ children[i].state = "open"
            /\ children[i].place < Len(mine) \/ step \notin {"link", "chain"} => Chained(i)
            /\ step = "chain" => children[i].linked

\* How many there are by then.
MadeSoFar ==
    /\ step = "create" => Len(mine) < Drafts
    /\ step \in {"link", "chain"} => Len(mine) >= 1 /\ Len(mine) <= Drafts
    /\ step = "chain" => Len(mine) > 1
    /\ step \in {"unqueue", "umbrella"} => Len(mine) = Drafts
    /\ step = "umbrella" /\ Queue \in issue.labels => requeues > split

\* The marks are taken off once the split is complete, the issue's last.
ReleasesItsOwn ==
    step = "release" =>
        /\ Complete(split)
        /\ Len(left) >= 1 /\ left[Len(left)] = 0
        /\ \A k \in 1..Len(left) - 1 : left[k] \in SplitOf(split)

\* An umbrella has all its children.  It is queued only by a person, and only a
\* person takes a child out of it, one closed as not planned.
Umbrellas ==
    \A s \in issue.umbrellaOf :
        /\ s <= split
        /\ Queue \in issue.labels => requeues > s
        /\ \A k \in 1..Drafts : \E i \in SplitOf(s) : children[i].place = k
        /\ \A i \in SplitOf(s) : children[i].linked \/ children[i].state = "not_planned"

\* A free child's split is complete, and none of it is handed back.
FreeWhenComplete ==
    \A i \in DOMAIN children : Free(i) =>
        /\ Complete(children[i].split)
        /\ children[i].split = split => "partial" \notin issue.comments /\ step \in {"off", "release"}

\* What a person finishes by hand: all that was open of a handed-back split.
ByHandAll ==
    /\ step # "off" => \A i \in SplitOf(split) : ~ children[i].byHand
    /\ \A i \in DOMAIN children : children[i].held /\ children[i].state # "open" => ~ children[i].linked
    /\ \A i, j \in DOMAIN children :
            children[i].split = children[j].split /\ children[j].byHand /\ ~ children[i].byHand =>
                children[i].held /\ children[i].state # "open"

\* A child follows the one before it; the first waits for the issue's blockers.
InBuildOrder ==
    \A i \in DOMAIN children :
        /\ children[i].after # 0 /\ ~ children[i].byHand =>
                /\ children[i].after \in SplitOf(children[i].split)
                /\ children[children[i].after].place = children[i].place - 1
        /\ children[i].place = 1 => (children[i].waits <=> blocker # "none")

Done(s) == \A i \in SplitOf(s) : children[i].state = "completed" \/ ~ children[i].linked

\* Once an umbrella has been found finished it stays so until it is closed.
FinishedStays ==
    /\ looks # "off" => issue.umbrellaOf # {}
    /\ looks = "close" \/ ~ issue.open => \E s \in issue.umbrellaOf : Done(s)

IInv ==
    /\ TypeOK
    /\ MarkTells /\ HandBacksSayWhy
    /\ SplitsNumbered /\ SplitOnce
    /\ NothingMade /\ KnowsItsOwn /\ MadeSoFar /\ ReleasesItsOwn
    /\ Umbrellas /\ FreeWhenComplete /\ ByHandAll
    /\ InBuildOrder /\ BuiltInOrder
    /\ FinishedStays

-----------------------------------------------------------------------------
(* What the actions do to the issue and the children, field by field.        *)

IssueRecords ==
    [labels : SUBSET Labels, comments : SUBSET Comments, umbrellaOf : SUBSET Nat, open : BOOLEAN]

\* One child is changed, in what can change: who made it and where it stands in
\* the split stay as they are.
Alters(i) ==
    /\ i \in DOMAIN children
    /\ DOMAIN children' = DOMAIN children
    /\ \A j \in DOMAIN children \ {i} : children'[j] = children[j]
    /\ children'[i].split = children[i].split
    /\ children'[i].place = children[i].place
    /\ children'[i].waits = children[i].waits
    /\ children'[i].byHand = children[i].byHand

KeepsMark(i) == children'[i].held = children[i].held
KeepsState(i) == children'[i].state = children[i].state
KeepsLinks(i) == children'[i].linked = children[i].linked /\ children'[i].after = children[i].after

LEMMA LabelledRecord ==
    ASSUME TypeOK, NEW add \in SUBSET Labels, NEW remove
    PROVE  /\ Labelled(add, remove) \in IssueRecords
           /\ Labelled(add, remove).labels = (issue.labels \ remove) \cup add
           /\ Labelled(add, remove).comments = issue.comments
           /\ Labelled(add, remove).umbrellaOf = issue.umbrellaOf
           /\ Labelled(add, remove).open = issue.open
  BY DEF TypeOK, IssueTyped, IssueRecords, Labelled

LEMMA CommentedRecord ==
    ASSUME TypeOK, NEW comment \in Comments
    PROVE  /\ Commented(comment) \in IssueRecords
           /\ Commented(comment).comments = issue.comments \cup {comment}
           /\ Commented(comment).labels = issue.labels
           /\ Commented(comment).umbrellaOf = issue.umbrellaOf
           /\ Commented(comment).open = issue.open
  BY DEF TypeOK, IssueTyped, IssueRecords, Commented

LEMMA ChildTyped ==
    ASSUME TypeOK, NEW i \in DOMAIN children
    PROVE  children[i] \in Children /\ i \in Nat \ {0} /\ i \in 1..Len(children)
  BY DEF TypeOK

\* A child replaced by one made like it.
LEMMA ChangeAlters ==
    ASSUME TypeOK, NEW i \in DOMAIN children, NEW child \in Children,
           children' = [children EXCEPT ![i] = child],
           child.split = children[i].split, child.place = children[i].place,
           child.waits = children[i].waits, child.byHand = children[i].byHand
    PROVE  children' \in Seq(Children) /\ Alters(i) /\ children'[i] = child
  BY DEF TypeOK, Alters

LEMMA LinkAlters ==
    ASSUME TypeOK, NEW i \in DOMAIN children, children' = [children EXCEPT ![i].linked = TRUE]
    PROVE  /\ children' \in Seq(Children) /\ Alters(i) /\ KeepsMark(i) /\ KeepsState(i)
           /\ children'[i].linked /\ children'[i].after = children[i].after
<1> DEFINE child == [children[i] EXCEPT !.linked = TRUE]
<1>1. children[i] \in Children
  BY ChildTyped
<1>2. /\ child \in Children
      /\ child.split = children[i].split /\ child.place = children[i].place
      /\ child.waits = children[i].waits /\ child.byHand = children[i].byHand
      /\ child.held = children[i].held /\ child.state = children[i].state
      /\ child.linked /\ child.after = children[i].after
  BY <1>1 DEF Children
<1>3. children' = [children EXCEPT ![i] = child]
  BY DEF TypeOK
<1> HIDE DEF child
<1>4. children' \in Seq(Children) /\ Alters(i) /\ children'[i] = child
  BY <1>2, <1>3, ChangeAlters
<1> QED
  BY <1>2, <1>4 DEF KeepsMark, KeepsState

LEMMA ChainAlters ==
    ASSUME TypeOK, NEW i \in DOMAIN children, NEW before \in Nat,
           children' = [children EXCEPT ![i].after = before]
    PROVE  /\ children' \in Seq(Children) /\ Alters(i) /\ KeepsMark(i) /\ KeepsState(i)
           /\ children'[i].after = before /\ children'[i].linked = children[i].linked
<1> DEFINE child == [children[i] EXCEPT !.after = before]
<1>1. children[i] \in Children
  BY ChildTyped
<1>2. /\ child \in Children
      /\ child.split = children[i].split /\ child.place = children[i].place
      /\ child.waits = children[i].waits /\ child.byHand = children[i].byHand
      /\ child.held = children[i].held /\ child.state = children[i].state
      /\ child.after = before /\ child.linked = children[i].linked
  BY <1>1 DEF Children
<1>3. children' = [children EXCEPT ![i] = child]
  BY DEF TypeOK
<1> HIDE DEF child
<1>4. children' \in Seq(Children) /\ Alters(i) /\ children'[i] = child
  BY <1>2, <1>3, ChangeAlters
<1> QED
  BY <1>2, <1>4 DEF KeepsMark, KeepsState

\* Taking a child's mark off, as Release and ByHand do.
LEMMA FreeAlters ==
    ASSUME TypeOK, NEW i \in DOMAIN children,
           \/ children' = [children EXCEPT ![i].held = FALSE]
           \/ children' = [children EXCEPT ![i] = [children[i] EXCEPT !.held = FALSE]]
    PROVE  /\ children' \in Seq(Children) /\ Alters(i) /\ KeepsState(i) /\ KeepsLinks(i)
           /\ ~ children'[i].held
<1> DEFINE child == [children[i] EXCEPT !.held = FALSE]
<1>1. children[i] \in Children
  BY ChildTyped
<1>2. /\ child \in Children
      /\ child.split = children[i].split /\ child.place = children[i].place
      /\ child.waits = children[i].waits /\ child.byHand = children[i].byHand
      /\ child.state = children[i].state /\ ~ child.held
      /\ child.after = children[i].after /\ child.linked = children[i].linked
  BY <1>1 DEF Children
<1>3. children' = [children EXCEPT ![i] = child]
  BY DEF TypeOK
<1> HIDE DEF child
<1>4. children' \in Seq(Children) /\ Alters(i) /\ children'[i] = child
  BY <1>2, <1>3, ChangeAlters
<1> QED
  BY <1>2, <1>4 DEF KeepsLinks, KeepsState

\* A child closed, as Build and NotPlanned do.
LEMMA CloseAlters ==
    ASSUME TypeOK, NEW i \in DOMAIN children, NEW state \in States,
           children' = [children EXCEPT ![i] = [children[i] EXCEPT !.state = state]]
    PROVE  /\ children' \in Seq(Children) /\ Alters(i) /\ KeepsMark(i) /\ KeepsLinks(i)
           /\ children'[i].state = state
<1> DEFINE child == [children[i] EXCEPT !.state = state]
<1>1. children[i] \in Children
  BY ChildTyped
<1>2. /\ child \in Children
      /\ child.split = children[i].split /\ child.place = children[i].place
      /\ child.waits = children[i].waits /\ child.byHand = children[i].byHand
      /\ child.held = children[i].held /\ child.state = state
      /\ child.after = children[i].after /\ child.linked = children[i].linked
  BY <1>1 DEF Children
<1>3. children' = [children EXCEPT ![i] = child]
  BY DEF TypeOK
<1> HIDE DEF child
<1>4. children' \in Seq(Children) /\ Alters(i) /\ children'[i] = child
  BY <1>2, <1>3, ChangeAlters
<1> QED
  BY <1>2, <1>4 DEF KeepsLinks, KeepsMark

LEMMA DropAlters ==
    ASSUME TypeOK, NEW i \in DOMAIN children, Drop(i)
    PROVE  /\ children' \in Seq(Children) /\ Alters(i) /\ KeepsMark(i)
           /\ children'[i].state = "not_planned" /\ ~ children'[i].linked
           /\ children'[i].after = children[i].after
<1> DEFINE child == [children[i] EXCEPT !.state = "not_planned", !.linked = FALSE]
<1>1. children[i] \in Children
  BY ChildTyped
<1>2. /\ child \in Children
      /\ child.split = children[i].split /\ child.place = children[i].place
      /\ child.waits = children[i].waits /\ child.byHand = children[i].byHand
      /\ child.held = children[i].held /\ child.state = "not_planned"
      /\ child.after = children[i].after /\ ~ child.linked
  BY <1>1 DEF Children, States
<1>3. children' = [children EXCEPT ![i] = child]
  BY DEF Drop, Change
<1> HIDE DEF child
<1>4. children' \in Seq(Children) /\ Alters(i) /\ children'[i] = child
  BY <1>2, <1>3, ChangeAlters
<1> QED
  BY <1>2, <1>4 DEF KeepsMark

\* A child added, held back and linked to nothing yet.
LEMMA ChildAdds ==
    ASSUME TypeOK, children' = Append(children, Child)
    PROVE  /\ children' \in Seq(Children)
           /\ Len(children') = Len(children) + 1
           /\ \A j \in DOMAIN children : children'[j] = children[j]
           /\ LET new == children'[Len(children')]
              IN  /\ new.split = split /\ new.place = Len(mine) + 1
                  /\ new.held /\ ~ new.byHand /\ new.state = "open"
                  /\ ~ new.linked /\ new.after = 0
                  /\ new.waits = (mine = <<>> /\ blocker # "none")
<1>1. Child \in Children
  BY DEF TypeOK, SplitTyped, OthersTyped, Child, Children, States
<1>2. /\ children' \in Seq(Children) /\ Len(children') = Len(children) + 1
      /\ \A j \in DOMAIN children : children'[j] = children[j]
      /\ children'[Len(children')] = Child
  BY <1>1 DEF TypeOK
<1> QED
  BY <1>2 DEF Child

\* What a person finishes by hand.
LEMMA FinishesByHand ==
    ASSUME TypeOK, FinishByHand
    PROVE  /\ children' \in Seq(Children) /\ DOMAIN children' = DOMAIN children
           /\ \A i \in DOMAIN children :
                \/ children'[i] = children[i] /\ (i \notin SplitOf(split) \/ children[i].state # "open")
                \/ /\ i \in SplitOf(split) /\ children[i].state = "open" /\ children'[i].state = "open"
                   /\ children'[i].split = split /\ children'[i].place = children[i].place
                   /\ children'[i].waits = children[i].waits
                   /\ children'[i].linked /\ ~ children'[i].held /\ children'[i].byHand
<1> DEFINE new(i) == [children[i] EXCEPT !.linked = TRUE, !.held = FALSE, !.byHand = TRUE,
                                         !.after = IF children[i].place = 1 THEN 0 ELSE i - 1]
           untouched(i) == i \notin SplitOf(split) \/ children[i].state # "open"
<1>1. children' = [i \in DOMAIN children |-> IF untouched(i) THEN children[i] ELSE new(i)]
  BY DEF FinishByHand
<1>2. ASSUME NEW i \in DOMAIN children
      PROVE  /\ new(i) \in Children
             /\ new(i).split = children[i].split /\ new(i).place = children[i].place
             /\ new(i).waits = children[i].waits /\ new(i).state = children[i].state
             /\ new(i).linked /\ ~ new(i).held /\ new(i).byHand
  <2>1. children[i] \in Children /\ i - 1 \in Nat
    BY ChildTyped
  <2> QED
    BY <2>1 DEF Children
<1>3. \A i \in DOMAIN children : children[i] \in Children
  BY ChildTyped
<1> HIDE DEF new, untouched
<1>4. children' \in [DOMAIN children -> Children]
  BY <1>1, <1>2, <1>3
<1>5. children' \in Seq(Children) /\ DOMAIN children' = DOMAIN children
  BY <1>4 DEF TypeOK
<1>6. \A i \in SplitOf(split) : children[i].split = split
  BY DEF SplitOf
<1> QED
  BY <1>1, <1>2, <1>5, <1>6 DEF untouched

-----------------------------------------------------------------------------
(* Types.                                                                    *)

LEMMA OwnChild ==
    ASSUME TypeOK, KnowsItsOwn, MadeSoFar, step \in {"link", "chain"}
    PROVE  /\ Last(mine) = mine[Len(mine)] /\ Last(mine) \in SplitOf(split)
           /\ Last(mine) \in DOMAIN children /\ children[Last(mine)].place = Len(mine)
           /\ Len(mine) \in DOMAIN mine /\ DOMAIN mine = 1..Len(mine)
<1>1. Len(mine) \in DOMAIN mine /\ DOMAIN mine = 1..Len(mine)
  BY DEF TypeOK, SplitTyped, MadeSoFar
<1>2. Last(mine) = mine[Len(mine)]
  BY DEF Last
<1> QED
  BY <1>1, <1>2 DEF KnowsItsOwn, Making, SplitOf

LEMMA Released ==
    ASSUME TypeOK, ReleasesItsOwn, step = "release", Head(left) # 0
    PROVE  /\ Head(left) \in SplitOf(split) /\ Head(left) \in DOMAIN children
           /\ Len(left) > 1
<1>1. left \in Seq(Nat) /\ Len(left) >= 1 /\ left[Len(left)] = 0
      /\ \A k \in 1..Len(left) - 1 : left[k] \in SplitOf(split)
  BY DEF TypeOK, SplitTyped, ReleasesItsOwn
<1>2. Head(left) = left[1] /\ Len(left) > 1
  BY <1>1
<1> QED
  BY <1>1, <1>2 DEF SplitOf

LEMMA BeforeLast ==
    ASSUME TypeOK, MadeSoFar, step = "chain" PROVE mine[Len(mine) - 1] \in Nat \ {0}
  BY DEF TypeOK, SplitTyped, MadeSoFar

LEMMA ChildrenStep ==
    ASSUME TypeOK, KnowsItsOwn, MadeSoFar, ReleasesItsOwn, [Next]_vars
    PROVE  (children \in Seq(Children))'
<1>1. CASE UNCHANGED children
  BY <1>1 DEF TypeOK
<1>2. CASE children' = Append(children, Child)
  BY <1>2, ChildAdds
<1>3. CASE Link
  BY <1>3, <1>1, OwnChild, LinkAlters DEF Link, Try
<1>4. CASE Chain
  BY <1>4, <1>1, OwnChild, BeforeLast, ChainAlters DEF Chain, Try
<1>5. CASE Release
  BY <1>5, <1>1, Released, FreeAlters DEF Release, Try
<1>6. ASSUME NEW i \in DOMAIN children, Build(i) \/ NotPlanned(i) PROVE children' \in Seq(Children)
  BY <1>6, CloseAlters DEF Build, NotPlanned, Change, States
<1>7. ASSUME NEW i \in DOMAIN children, Drop(i) PROVE children' \in Seq(Children)
  BY <1>7, DropAlters
<1>8. ASSUME NEW i \in DOMAIN children, ByHand(i) PROVE children' \in Seq(Children)
  BY <1>8, FreeAlters DEF ByHand, Change
<1>9. CASE FinishByHand
  BY <1>9, FinishesByHand
<1>10. CASE Ready \/ NeedsInfo \/ Mark \/ Create \/ Unqueue \/ Umbrella \/ HandBack
  BY <1>10, <1>1, <1>2 DEF Ready, NeedsInfo, Mark, Create, Unqueue, Umbrella, HandBack, Try
<1>11. CASE Judge \/ Reread \/ BlockersOf \/ Crash \/ closeFinishedUmbrellas \/ StaysOpen
            \/ OtherRun \/ BlockerLands \/ Requeue \/ TakeOff \/ UNCHANGED vars
  BY <1>11, <1>1 DEF Judge, Reread, BlockersOf, Crash, closeFinishedUmbrellas, StaysOpen,
     OtherRun, BlockerLands, Requeue, Putting, TakeOff, vars
<1> QED
  BY <1>3, <1>4, <1>5, <1>6, <1>7, <1>8, <1>9, <1>10, <1>11 DEF Next, applySplit, People

LEMMA IssueStep == ASSUME TypeOK, [Next]_vars PROVE IssueTyped'
<1>1. CASE UNCHANGED issue
  BY <1>1 DEF TypeOK, IssueTyped
<1>2. CASE issue' \in IssueRecords
  BY <1>2 DEF IssueTyped, IssueRecords
<1>3. CASE Ready \/ NeedsInfo \/ Mark \/ Unqueue \/ Release \/ HandBack
  <2> DEFINE L == {Labelled({"ready"}, {}), Labelled({"needs-info"}, {}),
                   Labelled({"needs-human"}, {}), Labelled({}, {"needs-human"}),
                   Labelled({}, {Queue}), Labelled({"needs-human"}, {"ready"})}
             C == {Commented("ready"), Commented("questions"), Commented("partial")}
  <2>1. issue' \in L \cup C \cup {issue}
    BY <1>3 DEF Ready, NeedsInfo, Mark, Unqueue, Release, HandBack, Try
  <2>4. {{"ready"}, {"needs-info"}, {"needs-human"}, {}} \subseteq SUBSET Labels
    BY DEF Labels, JUDGED_LABELS
  <2>2. L \subseteq IssueRecords
    <3>1. /\ Labelled({"ready"}, {}) \in IssueRecords
          /\ Labelled({"needs-info"}, {}) \in IssueRecords
          /\ Labelled({"needs-human"}, {}) \in IssueRecords
          /\ Labelled({"needs-human"}, {"ready"}) \in IssueRecords
      BY <2>4, LabelledRecord
    <3>2. /\ Labelled({}, {"needs-human"}) \in IssueRecords
          /\ Labelled({}, {Queue}) \in IssueRecords
      BY <2>4, LabelledRecord
    <3> QED
      BY <3>1, <3>2
  <2>3. C \subseteq IssueRecords
    BY CommentedRecord DEF Comments
  <2> QED
    BY <2>1, <2>2, <2>3, <1>1, <1>2
<1>4. CASE Umbrella \/ closeFinishedUmbrellas
  BY <1>4 DEF Umbrella, closeFinishedUmbrellas, closeIssueAsCompleted, Try, IssueRecords, TypeOK, IssueTyped, SplitTyped
<1>5. CASE OtherRun
  <2>1. issue' = Labelled({"ready"}, {})
        \/ issue' = [Labelled({"needs-info"}, {}) EXCEPT !.comments = @ \cup {"questions"}]
    BY <1>5 DEF OtherRun
  <2>2. Labelled({"ready"}, {}) \in IssueRecords /\ Labelled({"needs-info"}, {}) \in IssueRecords
    BY LabelledRecord DEF Labels, JUDGED_LABELS
  <2> QED
    BY <2>1, <2>2 DEF IssueTyped, IssueRecords, Comments
<1>6. CASE Requeue \/ TakeOff \/ FinishByHand
  <2>1. \/ \E labels \in SUBSET Labels, comments \in SUBSET Comments :
            issue' = [issue EXCEPT !.labels = labels, !.comments = comments]
        \/ issue' \in {Labelled({}, {Queue}), Labelled({}, {"needs-human"})}
    BY <1>6 DEF Requeue, TakeOff, FinishByHand, Putting, TypeOK, IssueTyped, Labels
  <2>2. Labelled({}, {Queue}) \in IssueRecords /\ Labelled({}, {"needs-human"}) \in IssueRecords
    BY LabelledRecord
  <2> QED
    BY <2>1, <2>2, <1>2 DEF TypeOK, IssueTyped, IssueRecords
<1>7. ASSUME NEW i \in DOMAIN children, Build(i) \/ Drop(i) \/ NotPlanned(i) \/ ByHand(i)
      PROVE  UNCHANGED issue
  BY <1>7 DEF Build, Drop, NotPlanned, ByHand, Change
<1>8. CASE Judge \/ Reread \/ BlockersOf \/ Create \/ Link \/ Chain \/ Crash \/ StaysOpen
           \/ BlockerLands \/ UNCHANGED vars
  BY <1>8, <1>1 DEF Judge, Reread, BlockersOf, Create, Link, Chain, Crash, StaysOpen,
     BlockerLands, Try, vars
<1> QED
  BY <1>1, <1>3, <1>4, <1>5, <1>6, <1>7, <1>8 DEF Next, applySplit, People

LEMMA OthersStep == ASSUME TypeOK, [Next]_vars PROVE OthersTyped'
<1> USE DEF TypeOK, OthersTyped, Rest, GitHub
<1>1. CASE Judge \/ Reread \/ Ready \/ NeedsInfo \/ applySplit \/ Crash
  BY <1>1 DEF Judge, Reread, Ready, NeedsInfo, applySplit, BlockersOf, Mark, Create, Link,
     Chain, Unqueue, Umbrella, Release, HandBack, Crash
<1>2. CASE closeFinishedUmbrellas \/ StaysOpen \/ OtherRun \/ BlockerLands
  BY <1>2 DEF closeFinishedUmbrellas, StaysOpen, OtherRun, BlockerLands
<1>3. CASE People
  BY <1>3 DEF People, Requeue, FinishByHand, TakeOff, Build, Drop, NotPlanned, ByHand, Change,
     Putting
<1>4. CASE UNCHANGED vars
  BY <1>4 DEF vars
<1> QED
  BY <1>1, <1>2, <1>3, <1>4 DEF Next

LEMMA Creates ==
    ASSUME Create
    PROVE  \/ /\ step' = "link" /\ children' = Append(children, Child)
              /\ mine' = Append(mine, Len(children'))
           \/ /\ step' = "explain" /\ children' \in {children, Append(children, Child)}
              /\ mine' = mine
  BY DEF Create, Try

LEMMA CreateMine ==
    ASSUME TypeOK, Create PROVE mine' = mine \/ \E n \in Nat \ {0} : mine' = Append(mine, n)
<1>1. ASSUME children' = Append(children, Child) PROVE Len(children') \in Nat \ {0}
  <2>1. Len(children') = Len(children) + 1 /\ Len(children) \in Nat
    BY <1>1, ChildAdds DEF TypeOK
  <2> QED
    BY <2>1
<1> QED
  BY <1>1, Creates

LEMMA SplitStep == ASSUME TypeOK, ReleasesItsOwn, [Next]_vars PROVE SplitTyped'
<1> USE DEF TypeOK, SplitTyped, Rest, GitHub, Steps, Unmarked, Making, Failing
<1>1. CASE Judge \/ Reread \/ BlockersOf \/ Crash
  <2>1. CASE Judge
    BY <2>1 DEF Judge
  <2>2. CASE Reread \/ BlockersOf \/ Crash
    BY <2>2 DEF Reread, BlockersOf, Crash
  <2> QED
    BY <1>1, <2>1, <2>2
<1>9. CASE Ready \/ NeedsInfo \/ Mark
  BY <1>9 DEF Ready, NeedsInfo, Mark, Try
<1>2. CASE Create
  <2>1. mine' = mine \/ \E n \in Nat \ {0} : mine' = Append(mine, n)
    BY <1>2, CreateMine
  <2> QED
    BY <1>2, <2>1 DEF Create, Try
<1>3. CASE Link \/ Chain \/ Unqueue \/ HandBack
  BY <1>3 DEF Link, Chain, Unqueue, HandBack, AfterChild, Try
<1>4. CASE Umbrella
  BY <1>4 DEF Umbrella, Marks, Try
<1>5. CASE Release
  BY <1>5 DEF Release, ReleasesItsOwn, Try
<1>6. CASE closeFinishedUmbrellas \/ StaysOpen \/ OtherRun \/ BlockerLands
  BY <1>6 DEF closeFinishedUmbrellas, StaysOpen, OtherRun, BlockerLands, splitVars
<1>7. CASE People
  <2>1. UNCHANGED splitVars /\ requeues' \in {requeues, requeues + 1}
    BY <1>7 DEF People, Requeue, FinishByHand, TakeOff, Build, Drop, NotPlanned, ByHand, Change,
       Putting
  <2> QED
    BY <2>1 DEF splitVars
<1>8. CASE UNCHANGED vars
  BY <1>8 DEF vars, splitVars
<1> QED
  BY <1>1, <1>2, <1>3, <1>4, <1>5, <1>6, <1>7, <1>8, <1>9 DEF Next, applySplit

LEMMA TypeStep ==
    ASSUME TypeOK, KnowsItsOwn, MadeSoFar, ReleasesItsOwn, [Next]_vars PROVE TypeOK'
  BY ChildrenStep, IssueStep, OthersStep, SplitStep DEF TypeOK

-----------------------------------------------------------------------------
(* What keeps each part, as long as no child is added.                       *)

\* Every child stays where it stands in its split.
SameSplits ==
    /\ DOMAIN children' = DOMAIN children
    /\ \A i \in DOMAIN children :
        /\ children'[i].split = children[i].split
        /\ children'[i].place = children[i].place
        /\ children'[i].waits = children[i].waits

\* What is closed stays as it is, and is unlinked only with its closing.
Settled ==
    \A i \in DOMAIN children :
        /\ children[i].state # "open" =>
              children'[i].state = children[i].state /\ (children'[i].linked => children[i].linked)
        /\ children[i].linked => children'[i].linked \/ children'[i].state = "not_planned"

LEMMA AltersSame == ASSUME NEW i \in DOMAIN children, Alters(i) PROVE SameSplits
  BY DEF Alters, SameSplits

LEMMA SameSplitOf == ASSUME SameSplits PROVE \A s : SplitOf(s)' = SplitOf(s)
  BY DEF SameSplits, SplitOf

LEMMA KeepsSplitOnce == ASSUME SplitOnce, SameSplits PROVE SplitOnce'
  BY DEF SplitOnce, SameSplits

LEMMA KeepsUmbrellas ==
    ASSUME TypeOK, TypeOK', Umbrellas, SplitsNumbered, SameSplits, Settled,
           issue'.umbrellaOf = issue.umbrellaOf, split <= split', requeues <= requeues',
           Queue \in issue'.labels => Queue \in issue.labels \/ requeues' > requeues
    PROVE  Umbrellas'
<1> SUFFICES ASSUME NEW s \in issue.umbrellaOf
             PROVE  /\ s <= split'
                    /\ Queue \in issue'.labels => requeues' > s
                    /\ \A k \in 1..Drafts : \E i \in SplitOf(s) : children'[i].place = k
                    /\ \A i \in SplitOf(s) : children'[i].linked \/ children'[i].state = "not_planned"
  BY SameSplitOf DEF Umbrellas
<1>1. split \in Nat /\ split' \in Nat /\ requeues \in Nat /\ requeues' \in Nat /\ s \in Nat
  BY DEF TypeOK, SplitTyped, IssueTyped
<1>2. s <= split /\ split <= requeues /\ (Queue \in issue.labels => requeues > s)
  BY DEF Umbrellas, SplitsNumbered
<1>3. \A i \in SplitOf(s) : i \in DOMAIN children
  BY DEF SplitOf
<1>4. \A k \in 1..Drafts : \E i \in SplitOf(s) : children'[i].place = k
  BY <1>3 DEF Umbrellas, SameSplits
<1>5. \A i \in SplitOf(s) : children'[i].linked \/ children'[i].state = "not_planned"
  BY <1>3 DEF Umbrellas, Settled
<1> QED
  BY <1>1, <1>2, <1>4, <1>5

LEMMA KeepsFinished ==
    ASSUME FinishedStays, Umbrellas, SameSplits, Settled,
           issue.umbrellaOf \subseteq issue'.umbrellaOf, issue'.open = issue.open,
           looks' \in {looks, "off"}
    PROVE  FinishedStays'
<1>1. ASSUME NEW s \in issue.umbrellaOf, Done(s) PROVE Done(s)'
  <2>1. ASSUME NEW i \in SplitOf(s) PROVE children'[i].state = "completed" \/ ~ children'[i].linked
    <3>1. i \in DOMAIN children /\ (children[i].linked \/ children[i].state = "not_planned")
      BY DEF SplitOf, Umbrellas
    <3>2. children[i].state = "completed" \/ ~ children[i].linked
      BY <1>1 DEF Done
    <3> QED
      BY <3>1, <3>2 DEF Settled
  <2> QED
    BY <2>1, SameSplitOf DEF Done
<1> QED
  BY <1>1 DEF FinishedStays

\* BuiltInOrder, child by child.
Earlier(i) == {j \in SplitOf(children[i].split) : children[j].place < children[i].place}

InTurn(i) == (\A j \in Earlier(i) : children[j].state = "completed") /\ blocker # "open"

InOrder ==
    \A i \in DOMAIN children :
        children[i].state = "completed" /\ ~ children[i].byHand => InTurn(i)

LEMMA OrderSays == BuiltInOrder <=> InOrder
  BY DEF BuiltInOrder, InOrder, InTurn, Earlier

LEMMA OrderSaysNext == BuiltInOrder' <=> InOrder'
  BY OrderSays, PTL

LEMMA KeepsBuiltInOrder ==
    ASSUME BuiltInOrder, SameSplits, Settled, blocker' = "open" => blocker = "open",
           \A i \in DOMAIN children : children'[i].state = "completed" /\ ~ children'[i].byHand =>
                children[i].state = "completed" /\ ~ children[i].byHand
    PROVE  BuiltInOrder'
<1>1. \A i \in DOMAIN children : Earlier(i)' = Earlier(i) /\ Earlier(i) \subseteq DOMAIN children
  BY SameSplitOf DEF Earlier, SplitOf, SameSplits
<1>2. ASSUME NEW i \in DOMAIN children, InTurn(i) PROVE InTurn(i)'
  <2>1. \A j \in Earlier(i) : children[j].state = "completed" => children'[j].state = "completed"
    BY <1>1 DEF Settled
  <2> QED
    BY <1>1, <1>2, <2>1 DEF InTurn
<1>3. InOrder
  BY OrderSays
<1> QED
  BY <1>2, <1>3, OrderSaysNext DEF InOrder, SameSplits

LEMMA KeepsInBuildOrder ==
    ASSUME InBuildOrder, SameSplits, blocker' # "none" <=> blocker # "none",
           \A i \in DOMAIN children : ~ children'[i].byHand =>
                ~ children[i].byHand /\ children'[i].after = children[i].after
    PROVE  InBuildOrder'
<1>1. \A s : SplitOf(s)' = SplitOf(s) /\ \A j \in SplitOf(s) : j \in DOMAIN children
  BY SameSplitOf DEF SplitOf
<1> QED
  BY <1>1 DEF InBuildOrder, SameSplits

LEMMA KeepsComplete ==
    ASSUME SameSplits, issue.umbrellaOf \subseteq issue'.umbrellaOf, NEW s, Complete(s),
           \A i \in SplitOf(s) : Chained(i) => Chained(i)'
    PROVE  Complete(s)'
<1>1. SplitOf(s)' = SplitOf(s) /\ \A j \in SplitOf(s) : j \in DOMAIN children
  BY SameSplitOf DEF SplitOf
<1> QED
  BY <1>1 DEF Complete, SameSplits, Chained

-----------------------------------------------------------------------------
(* The steps that leave the children and the umbrella comment alone.         *)

Follows ==
    \/ step' \in {step, "off"}
    \/ step \in Unmarked /\ step' \in Unmarked \cup {"unmark"}
    \/ step = "mark" /\ step' = "create"
    \/ step = "unqueue" /\ step' = "umbrella" /\ Queue \notin issue'.labels
    \/ step \in Making /\ step' = "explain"
    \/ step = "explain" /\ step' = "handBack"

\* Such a step queues the issue only by a person's hand, and takes the mark off
\* a queued one in no other way than before the first create.
Calm ==
    /\ UNCHANGED <<children, split, mine>>
    /\ left' = left \/ ReleasesItsOwn'
    /\ Follows
    /\ issue'.umbrellaOf = issue.umbrellaOf
    /\ requeues <= requeues'
    /\ Queue \in issue'.labels => Queue \in issue.labels \/ requeues' > requeues
    /\ "needs-human" \in issue.labels =>
          \/ "needs-human" \in issue'.labels \/ requeues' > requeues
          \/ Queue \notin issue'.labels \/ step = "unmark" \/ requeues > split
    /\ "partial" \in issue'.comments => "partial" \in issue.comments \/ step = "explain"
    /\ blocker' # "none" <=> blocker # "none"
    /\ blocker' = "open" => blocker = "open"
    /\ (issue'.open = issue.open /\ looks' \in {looks, "off"}) \/ FinishedStays'

\* A split that has no child is nobody's umbrella.
LEMMA NoUmbrellaYet ==
    ASSUME Umbrellas, SplitOf(split) = {} PROVE split \notin issue.umbrellaOf
<1>1. 1 \in 1..Drafts
  BY DraftsAssumption
<1> QED
  BY <1>1 DEF Umbrellas

LEMMA CalmStep ==
    ASSUME IInv, TypeOK', Calm, MarkTells', HandBacksSayWhy'
    PROVE  IInv'
<1>1. SameSplits /\ Settled
  BY DEF Calm, SameSplits, Settled
<1>2. /\ split \in Nat /\ requeues \in Nat /\ requeues' \in Nat
      /\ split' = split /\ mine' = mine /\ children' = children
      /\ requeues <= requeues' /\ step \in Steps /\ Follows
  BY DEF IInv, TypeOK, SplitTyped, Calm
<1>3. \A s : SplitOf(s)' = SplitOf(s)
  BY <1>1, SameSplitOf
<1>4. SplitsNumbered'
  <2>1. ASSUME NEW i \in DOMAIN children, children[i].split = requeues', Queue \in issue'.labels
        PROVE  "needs-human" \in issue'.labels
    <3>1. children[i].split <= split /\ split <= requeues /\ children[i].split \in Nat
      BY ChildTyped DEF IInv, SplitsNumbered, Children
    <3>2. requeues' = requeues /\ split = requeues /\ ~ requeues > split
      BY <1>2, <2>1, <3>1
    <3>3. step # "unmark"
      BY <2>1, <3>2 DEF IInv, NothingMade, SplitOf
    <3>4. Queue \in issue.labels /\ "needs-human" \in issue.labels
      BY <1>2, <2>1, <3>2 DEF IInv, SplitsNumbered, Calm
    <3> QED
      BY <1>2, <2>1, <3>2, <3>3, <3>4 DEF Calm
  <2> QED
    BY <1>2, <2>1 DEF IInv, SplitsNumbered
<1>5. SplitOnce'
  BY <1>1, KeepsSplitOnce DEF IInv
<1>6. NothingMade'
  BY <1>2, <1>3 DEF IInv, NothingMade, Follows, Unmarked
<1>7. KnowsItsOwn'
  <2>1. CASE step = "mark" /\ step' = "create"
    BY <1>2, <1>3, <2>1, NoUmbrellaYet DEF IInv, NothingMade, KnowsItsOwn, Unmarked, Calm
  <2>2. CASE step \in Making /\ (step' = step \/ (step = "unqueue" /\ step' = "umbrella"))
    <3>1. \A i : Chained(i)' <=> Chained(i)
      BY <1>2 DEF Chained
    <3>2. /\ split \notin issue.umbrellaOf
          /\ \A k \in DOMAIN mine : mine[k] \in SplitOf(split) /\ children[mine[k]].place = k
      BY <2>2 DEF IInv, KnowsItsOwn
    <3>3. \A i \in SplitOf(split) :
            /\ children[i].place \in DOMAIN mine /\ mine[children[i].place] = i
            /\ children[i].held /\ ~ children[i].byHand /\ children[i].state = "open"
            /\ children[i].place < Len(mine) \/ step \notin {"link", "chain"} => Chained(i)
            /\ step = "chain" => children[i].linked
      BY <2>2 DEF IInv, KnowsItsOwn
    <3>4. \A i \in SplitOf(split) :
            /\ children[i].place < Len(mine) \/ step' \notin {"link", "chain"} => Chained(i)
            /\ step' = "chain" => children[i].linked
      BY <2>2, <3>3
    <3>5. issue'.umbrellaOf = issue.umbrellaOf
      BY DEF Calm
    <3> QED
      BY <1>2, <1>3, <3>1, <3>2, <3>3, <3>4, <3>5 DEF KnowsItsOwn
  <2>3. CASE step' \notin Making
    BY <2>3 DEF KnowsItsOwn
  <2>4. step' \in Making =>
            \/ step = "mark" /\ step' = "create"
            \/ step \in Making /\ (step' = step \/ (step = "unqueue" /\ step' = "umbrella"))
    BY <1>2 DEF Follows, Unmarked, Making
  <2> QED
    BY <2>1, <2>2, <2>3, <2>4
<1>8. MadeSoFar'
  <2>1. split <= requeues
    BY DEF IInv, SplitsNumbered
  <2>2. step = "mark" => Len(mine) < Drafts
    BY DraftsAssumption DEF IInv, NothingMade, Unmarked
  <2>3. Queue \in issue'.labels => Queue \in issue.labels \/ requeues' > requeues
    BY DEF Calm
  <2> QED
    BY <1>2, <2>1, <2>2, <2>3 DEF IInv, MadeSoFar, Follows, Unmarked
<1>9. Complete(split)' <=> Complete(split)
  BY <1>2, <1>3 DEF Complete, Calm
<1>10. ReleasesItsOwn'
  <2>1. CASE left' = left
    BY <1>2, <1>3, <1>9, <2>1 DEF IInv, ReleasesItsOwn, Follows, Unmarked
  <2> QED
    BY <2>1 DEF Calm
<1>11. Umbrellas'
  BY <1>1, <1>2, KeepsUmbrellas DEF IInv, Calm
<1>12. FreeWhenComplete'
  <2>1. \A i \in DOMAIN children : Free(i)' <=> Free(i)
    BY <1>2 DEF Free
  <2>2. \A s : Complete(s) => Complete(s)'
    BY <1>2, <1>3 DEF Complete, Calm
  <2>3. step \in {"off", "release"} => step' \in {"off", "release"} /\ step # "explain"
    BY <1>2 DEF Follows, Unmarked, Making
  <2> QED
    BY <1>2, <2>1, <2>2, <2>3 DEF IInv, FreeWhenComplete, Calm
<1>13. ByHandAll'
  <2>1. step' # "off" => step # "off"
    BY <1>2 DEF Follows, Unmarked, Making
  <2> QED
    BY <1>2, <1>3, <2>1 DEF IInv, ByHandAll
<1>14. InBuildOrder' /\ BuiltInOrder'
  BY <1>1, <1>2, KeepsInBuildOrder, KeepsBuiltInOrder DEF IInv, Calm
<1>15. FinishedStays'
  BY <1>1, KeepsFinished DEF IInv, Calm
<1> QED
  BY <1>4, <1>5, <1>6, <1>7, <1>8, <1>10, <1>11, <1>12, <1>13, <1>14, <1>15 DEF IInv

-----------------------------------------------------------------------------
(* The calm actions, one by one.                                             *)

LEMMA ReadyCalm == ASSUME IInv, Ready PROVE Calm /\ MarkTells' /\ HandBacksSayWhy'
<1> USE DEF IInv
<1>1. /\ Labelled({"ready"}, {}).labels = issue.labels \cup {"ready"}
      /\ Labelled({"ready"}, {}).comments = issue.comments
      /\ Labelled({"ready"}, {}).umbrellaOf = issue.umbrellaOf
      /\ Labelled({"ready"}, {}).open = issue.open
  BY LabelledRecord DEF Labels, JUDGED_LABELS
<1>2. /\ Commented("ready").comments = issue.comments \cup {"ready"}
      /\ Commented("ready").labels = issue.labels
      /\ Commented("ready").umbrellaOf = issue.umbrellaOf
      /\ Commented("ready").open = issue.open
  BY CommentedRecord DEF Comments
<1>3. /\ step \in {"addReady", "reason"} /\ step' \in {"reason", "off"}
      /\ issue'.labels \in {issue.labels, issue.labels \cup {"ready"}}
      /\ issue'.comments \in {issue.comments, issue.comments \cup {"ready"}}
      /\ issue'.umbrellaOf = issue.umbrellaOf /\ issue'.open = issue.open
      /\ UNCHANGED <<children, split, mine, left, blocker, looks, requeues, mishap>>
  BY <1>1, <1>2 DEF Ready, Try, Rest
<1>4. requeues <= requeues
  BY DEF TypeOK, SplitTyped
<1> HIDE DEF IInv
<1>5. MarkTells /\ HandBacksSayWhy
  BY DEF IInv
<1>6. Calm
  BY <1>3, <1>4, <1>5 DEF Calm, Follows, Unmarked, Queue
<1>7. MarkTells'
  BY <1>3, <1>5 DEF MarkTells, Unmarked, Making, Failing
<1>8. HandBacksSayWhy'
  BY <1>3, <1>5 DEF MarkTells, HandBacksSayWhy, Unmarked
<1> QED
  BY <1>6, <1>7, <1>8

LEMMA NeedsInfoCalm == ASSUME IInv, NeedsInfo PROVE Calm /\ MarkTells' /\ HandBacksSayWhy'
<1>1. /\ Labelled({"needs-info"}, {}).labels = issue.labels \cup {"needs-info"}
      /\ Labelled({"needs-info"}, {}).comments = issue.comments
      /\ Labelled({"needs-info"}, {}).umbrellaOf = issue.umbrellaOf
      /\ Labelled({"needs-info"}, {}).open = issue.open
  BY LabelledRecord DEF IInv, Labels, JUDGED_LABELS
<1>2. /\ Commented("questions").comments = issue.comments \cup {"questions"}
      /\ Commented("questions").labels = issue.labels
      /\ Commented("questions").umbrellaOf = issue.umbrellaOf
      /\ Commented("questions").open = issue.open
  BY CommentedRecord DEF IInv, Comments
<1>3. /\ \/ /\ step = "questions" /\ step' \in {"label", "off"}
            /\ issue'.labels = issue.labels
            /\ issue'.comments \in {issue.comments, issue.comments \cup {"questions"}}
            /\ step' = "label" => "questions" \in issue'.comments
         \/ /\ step = "label" /\ step' = "off"
            /\ issue'.labels \in {issue.labels, issue.labels \cup {"needs-info"}}
            /\ issue'.comments = issue.comments
      /\ issue'.umbrellaOf = issue.umbrellaOf /\ issue'.open = issue.open
      /\ UNCHANGED <<children, split, mine, left, blocker, looks, requeues, mishap>>
  BY <1>1, <1>2 DEF NeedsInfo, Try, Rest
<1>4. requeues <= requeues
  BY DEF IInv, TypeOK, SplitTyped
<1>5. MarkTells /\ HandBacksSayWhy
  BY DEF IInv
<1>6. Calm
  BY <1>3, <1>4, <1>5 DEF Calm, Follows, Unmarked, Queue
<1>7. MarkTells'
  BY <1>3, <1>5 DEF MarkTells, Unmarked, Making, Failing
<1>8. HandBacksSayWhy'
  BY <1>3, <1>5 DEF MarkTells, HandBacksSayWhy, Unmarked
<1> QED
  BY <1>6, <1>7, <1>8

LEMMA UnmarkedRecord ==
    ASSUME TypeOK
    PROVE  /\ Labelled({}, {"needs-human"}).labels = issue.labels \ {"needs-human"}
           /\ Labelled({}, {"needs-human"}).comments = issue.comments
           /\ Labelled({}, {"needs-human"}).umbrellaOf = issue.umbrellaOf
           /\ Labelled({}, {"needs-human"}).open = issue.open
  BY DEF TypeOK, IssueTyped, Labelled

LEMMA MarkCalm == ASSUME IInv, Mark PROVE Calm /\ MarkTells' /\ HandBacksSayWhy'
<1>1. /\ Labelled({"needs-human"}, {}).labels = issue.labels \cup {"needs-human"}
      /\ Labelled({"needs-human"}, {}).comments = issue.comments
      /\ Labelled({"needs-human"}, {}).umbrellaOf = issue.umbrellaOf
      /\ Labelled({"needs-human"}, {}).open = issue.open
  BY LabelledRecord DEF IInv, Labels, JUDGED_LABELS
<1>2. /\ Labelled({}, {"needs-human"}).labels = issue.labels \ {"needs-human"}
      /\ Labelled({}, {"needs-human"}).comments = issue.comments
      /\ Labelled({}, {"needs-human"}).umbrellaOf = issue.umbrellaOf
      /\ Labelled({}, {"needs-human"}).open = issue.open
  BY UnmarkedRecord DEF IInv
<1>3. /\ \/ /\ step = "mark" /\ step' \in {"create", "unmark"} /\ mishap' = mishap
            /\ issue'.labels \in {issue.labels, issue.labels \cup {"needs-human"}}
            /\ step' = "create" => "needs-human" \in issue'.labels
         \/ /\ step = "unmark" /\ step' = "off"
            /\ issue'.labels \in {issue.labels, issue.labels \ {"needs-human"}}
            /\ mishap' \/ "needs-human" \notin issue'.labels
      /\ issue'.comments = issue.comments
      /\ issue'.umbrellaOf = issue.umbrellaOf /\ issue'.open = issue.open
      /\ UNCHANGED <<children, split, mine, left, blocker, looks, requeues>>
  <2>1. CASE step = "mark"
    BY <1>1, <2>1 DEF Mark, Try, Rest
  <2>2. CASE step = "unmark"
    BY <1>2, <2>2 DEF Mark, Try, Rest
  <2> QED
    BY <2>1, <2>2 DEF Mark
<1>4. requeues <= requeues
  BY DEF IInv, TypeOK, SplitTyped
<1>5. MarkTells /\ HandBacksSayWhy
  BY DEF IInv
<1>6. Calm
  BY <1>3, <1>4, <1>5 DEF Calm, Follows, Unmarked, Queue
<1>7. MarkTells'
  BY <1>3, <1>5 DEF MarkTells, Unmarked, Making, Failing
<1>8. HandBacksSayWhy'
  BY <1>3, <1>5 DEF HandBacksSayWhy
<1> QED
  BY <1>6, <1>7, <1>8

LEMMA UnqueueCalm == ASSUME IInv, Unqueue PROVE Calm /\ MarkTells' /\ HandBacksSayWhy'
<1>1. /\ Labelled({}, {Queue}).labels = issue.labels \ {Queue}
      /\ Labelled({}, {Queue}).comments = issue.comments
      /\ Labelled({}, {Queue}).umbrellaOf = issue.umbrellaOf
      /\ Labelled({}, {Queue}).open = issue.open
  BY LabelledRecord DEF IInv
<1>2. /\ step = "unqueue" /\ step' \in {"umbrella", "explain"}
      /\ issue'.labels \in {issue.labels, issue.labels \ {Queue}}
      /\ step' = "umbrella" => Queue \notin issue'.labels
      /\ issue'.comments = issue.comments
      /\ issue'.umbrellaOf = issue.umbrellaOf /\ issue'.open = issue.open
      /\ UNCHANGED <<children, split, mine, left, blocker, looks, requeues, mishap>>
  BY <1>1 DEF Unqueue, Try, Rest
<1>3. requeues <= requeues
  BY DEF IInv, TypeOK, SplitTyped
<1>4. MarkTells /\ HandBacksSayWhy
  BY DEF IInv
<1>5. Calm
  BY <1>2, <1>3, <1>4 DEF Calm, Follows, Making, Queue
<1>6. MarkTells'
  BY <1>2, <1>4 DEF MarkTells, Unmarked, Making, Failing, Queue
<1>7. HandBacksSayWhy'
  BY <1>2, <1>4 DEF HandBacksSayWhy
<1> QED
  BY <1>5, <1>6, <1>7

LEMMA HandBackCalm == ASSUME IInv, HandBack PROVE Calm /\ MarkTells' /\ HandBacksSayWhy'
<1>1. /\ Labelled({"needs-human"}, {"ready"}).labels = (issue.labels \ {"ready"}) \cup {"needs-human"}
      /\ Labelled({"needs-human"}, {"ready"}).comments = issue.comments
      /\ Labelled({"needs-human"}, {"ready"}).umbrellaOf = issue.umbrellaOf
      /\ Labelled({"needs-human"}, {"ready"}).open = issue.open
  BY LabelledRecord DEF IInv, Labels, JUDGED_LABELS
<1>2. /\ Commented("partial").comments = issue.comments \cup {"partial"}
      /\ Commented("partial").labels = issue.labels
      /\ Commented("partial").umbrellaOf = issue.umbrellaOf
      /\ Commented("partial").open = issue.open
  BY CommentedRecord DEF IInv, Comments
<1>3. /\ \/ /\ step = "explain" /\ step' \in {"handBack", "off"}
            /\ issue'.labels = issue.labels
            /\ issue'.comments \in {issue.comments, issue.comments \cup {"partial"}}
            /\ step' = "handBack" => "partial" \in issue'.comments
            /\ mishap' \/ "partial" \in issue'.comments
         \/ /\ step = "handBack" /\ step' = "off"
            /\ issue'.labels \in {issue.labels, (issue.labels \ {"ready"}) \cup {"needs-human"}}
            /\ issue'.comments = issue.comments
      /\ issue'.umbrellaOf = issue.umbrellaOf /\ issue'.open = issue.open
      /\ UNCHANGED <<children, split, mine, left, blocker, looks, requeues>>
  <2>1. CASE step = "explain"
    BY <1>2, <2>1 DEF HandBack, Try, Rest
  <2>2. CASE step = "handBack"
    BY <1>1, <2>2 DEF HandBack, Try, Rest
  <2> QED
    BY <2>1, <2>2 DEF HandBack
<1>4. requeues <= requeues
  BY DEF IInv, TypeOK, SplitTyped
<1>5. MarkTells /\ HandBacksSayWhy
  BY DEF IInv
<1>6. Calm
  BY <1>3, <1>4, <1>5 DEF Calm, Follows, Queue
<1>7. MarkTells'
  BY <1>3, <1>5 DEF MarkTells, Unmarked, Making, Failing
<1>8. HandBacksSayWhy'
  BY <1>3, <1>5 DEF HandBacksSayWhy, MarkTells
<1> QED
  BY <1>6, <1>7, <1>8

LEMMA QuietCalm ==
    ASSUME IInv, Reread \/ BlockersOf \/ Crash \/ StaysOpen \/ BlockerLands
    PROVE  Calm /\ MarkTells' /\ HandBacksSayWhy'
<1>1. /\ issue' = issue /\ UNCHANGED <<children, split, mine, left, requeues>>
      /\ \/ step \in Unmarked /\ step' \in Unmarked \cup {"off"} /\ step' # "label" /\ mishap' = mishap
         \/ step' = "off" /\ mishap'
         \/ step' = step /\ mishap' = mishap
      /\ looks' \in {looks, "off"}
      /\ \/ blocker' = blocker
         \/ blocker = "open" /\ blocker' = "landed"
  BY DEF Reread, BlockersOf, Crash, StaysOpen, BlockerLands, Rest, splitVars, Unmarked
<1>2. requeues <= requeues
  BY DEF IInv, TypeOK, SplitTyped
<1>3. MarkTells /\ HandBacksSayWhy
  BY DEF IInv
<1>4. Follows
  BY <1>1 DEF Follows
<1>5. Calm
  BY <1>1, <1>2, <1>4 DEF Calm
<1>6. MarkTells'
  BY <1>1, <1>3 DEF MarkTells, Unmarked, Making, Failing
<1>7. HandBacksSayWhy'
  BY <1>1, <1>3 DEF HandBacksSayWhy, MarkTells
<1> QED
  BY <1>5, <1>6, <1>7

LEMMA OtherRunCalm == ASSUME IInv, OtherRun PROVE Calm /\ MarkTells' /\ HandBacksSayWhy'
<1> DEFINE info == Labelled({"needs-info"}, {})
<1>1. /\ Labelled({"ready"}, {}).labels = issue.labels \cup {"ready"}
      /\ Labelled({"ready"}, {}).comments = issue.comments
      /\ Labelled({"ready"}, {}).umbrellaOf = issue.umbrellaOf
      /\ Labelled({"ready"}, {}).open = issue.open
  BY LabelledRecord DEF IInv, Labels, JUDGED_LABELS
<1>2. /\ info.labels = issue.labels \cup {"needs-info"}
      /\ info.comments = issue.comments
      /\ info.umbrellaOf = issue.umbrellaOf
      /\ info.open = issue.open
      /\ info \in IssueRecords
  BY LabelledRecord DEF IInv, Labels, JUDGED_LABELS
<1> HIDE DEF info
<1>3. /\ [info EXCEPT !.comments = @ \cup {"questions"}].labels = info.labels
      /\ [info EXCEPT !.comments = @ \cup {"questions"}].comments = info.comments \cup {"questions"}
      /\ [info EXCEPT !.comments = @ \cup {"questions"}].umbrellaOf = info.umbrellaOf
      /\ [info EXCEPT !.comments = @ \cup {"questions"}].open = info.open
  BY <1>2 DEF IssueRecords
<1>4. /\ "needs-human" \notin issue.labels
      /\ \/ issue'.labels = issue.labels \cup {"ready"} /\ issue'.comments = issue.comments
         \/ /\ issue'.labels = issue.labels \cup {"needs-info"}
            /\ issue'.comments = issue.comments \cup {"questions"}
      /\ issue'.umbrellaOf = issue.umbrellaOf /\ issue'.open = issue.open
      /\ UNCHANGED <<children, split, mine, left, blocker, looks, requeues, step, mishap>>
  BY <1>1, <1>2, <1>3 DEF OtherRun, needsIntake, JUDGED_LABELS, GitHub, splitVars, info
<1>5. requeues <= requeues
  BY DEF IInv, TypeOK, SplitTyped
<1>6. MarkTells /\ HandBacksSayWhy
  BY DEF IInv
<1>7. Calm
  BY <1>4, <1>5 DEF Calm, Follows, Queue
<1>8. MarkTells'
  BY <1>4, <1>6 DEF MarkTells
<1>9. HandBacksSayWhy'
  BY <1>4, <1>6 DEF HandBacksSayWhy
<1> QED
  BY <1>7, <1>8, <1>9

LEMMA PutBack ==
    ASSUME TypeOK, NEW labels, NEW comments, Putting(labels, comments)
    PROVE  /\ issue'.labels = labels /\ issue'.comments = comments
           /\ issue'.umbrellaOf = issue.umbrellaOf /\ issue'.open = issue.open
           /\ requeues' > requeues /\ requeues <= requeues'
           /\ UNCHANGED <<children, split, mine, left, blocker, looks, step, mishap>>
<1>1. requeues \in Nat /\ requeues' = requeues + 1
  BY DEF TypeOK, SplitTyped, Putting
<1>2. issue' = [issue EXCEPT !.labels = labels, !.comments = comments]
  BY DEF Putting
<1>3. /\ issue'.labels = labels /\ issue'.comments = comments
      /\ issue'.umbrellaOf = issue.umbrellaOf /\ issue'.open = issue.open
  BY <1>2 DEF TypeOK, IssueTyped
<1> QED
  BY <1>1, <1>3 DEF Putting, GitHub, splitVars

LEMMA RequeueCalm == ASSUME IInv, Requeue PROVE Calm /\ MarkTells' /\ HandBacksSayWhy'
<1>1. /\ \/ /\ HandedBack
            /\ issue'.labels = (issue.labels \ {"needs-human"}) \cup {Queue}
            /\ issue'.comments = issue.comments \ {"partial"}
         \/ /\ step = "off"
            /\ issue'.labels = issue.labels \ {"needs-info"}
            /\ issue'.comments = issue.comments \ {"questions"}
         \/ /\ issue'.labels = issue.labels \cup {Queue} /\ issue'.comments = issue.comments
      /\ issue'.umbrellaOf = issue.umbrellaOf /\ issue'.open = issue.open
      /\ requeues' > requeues /\ requeues <= requeues'
      /\ UNCHANGED <<children, split, mine, left, blocker, looks, step, mishap>>
  BY PutBack DEF IInv, Requeue
<1>2. MarkTells /\ HandBacksSayWhy
  BY DEF IInv
<1>3. Calm
  BY <1>1 DEF Calm, Follows
<1>4. MarkTells'
  BY <1>1, <1>2 DEF MarkTells, Unmarked, Making, Failing, HandedBack, Queue
<1>5. HandBacksSayWhy'
  BY <1>1, <1>2 DEF HandBacksSayWhy, HandedBack, Queue
<1> QED
  BY <1>3, <1>4, <1>5

LEMMA TakeOffCalm == ASSUME IInv, TakeOff PROVE Calm /\ MarkTells' /\ HandBacksSayWhy'
<1>1. /\ Labelled({}, {"needs-human"}).labels = issue.labels \ {"needs-human"}
      /\ Labelled({}, {"needs-human"}).comments = issue.comments
      /\ Labelled({}, {"needs-human"}).umbrellaOf = issue.umbrellaOf
      /\ Labelled({}, {"needs-human"}).open = issue.open
  BY UnmarkedRecord DEF IInv
<1>2. /\ step = "off" /\ "partial" \notin issue.comments
      /\ issue'.labels = issue.labels \ {"needs-human"}
      /\ issue'.comments = issue.comments
      /\ issue'.umbrellaOf = issue.umbrellaOf /\ issue'.open = issue.open
      /\ UNCHANGED <<children, split, mine, left, blocker, looks, step, mishap>>
      /\ Queue \in issue.labels => requeues' > requeues
      /\ requeues <= requeues'
  <2>1. CASE Queue \in issue.labels
    BY <2>1, PutBack DEF IInv, TakeOff
  <2>2. CASE Queue \notin issue.labels
    BY <1>1, <2>2 DEF TakeOff, GitHub, splitVars, IInv, TypeOK, SplitTyped
  <2> QED
    BY <2>1, <2>2
<1>3. MarkTells /\ HandBacksSayWhy
  BY DEF IInv
<1>4. Calm
  BY <1>2 DEF Calm, Follows
<1>5. MarkTells'
  BY <1>2, <1>3 DEF MarkTells, Unmarked, Making, Failing
<1>6. HandBacksSayWhy'
  BY <1>2, <1>3 DEF HandBacksSayWhy
<1> QED
  BY <1>4, <1>5, <1>6

-----------------------------------------------------------------------------
(* The other actions.                                                        *)

LEMMA JudgeStep == ASSUME IInv, TypeOK', Judge PROVE IInv'
<1>1. /\ step = "off" /\ step' = "reread" /\ split' = requeues /\ mine' = <<>>
      /\ Queue \in issue.labels /\ "needs-human" \notin issue.labels
      /\ UNCHANGED <<issue, children, blocker, looks, requeues, mishap>>
  BY DEF Judge, needsIntake, JUDGED_LABELS
<1>2. MarkTells /\ HandBacksSayWhy /\ SplitsNumbered /\ Umbrellas /\ FreeWhenComplete /\ ByHandAll
      /\ FinishedStays /\ SplitOnce /\ InBuildOrder /\ BuiltInOrder /\ TypeOK
  BY DEF IInv
<1>3. SameSplits /\ Settled
  BY <1>1 DEF SameSplits, Settled
<1>4. \A s : SplitOf(s)' = SplitOf(s)
  BY <1>3, SameSplitOf
<1>5. \A i \in DOMAIN children : children[i].split # requeues
  BY <1>1, <1>2 DEF SplitsNumbered
<1>6. SplitOf(requeues) = {}
  BY <1>5 DEF SplitOf
<1>7. split \in Nat /\ requeues \in Nat /\ split <= requeues
  BY <1>2 DEF TypeOK, SplitTyped, SplitsNumbered
<1>8. MarkTells' /\ HandBacksSayWhy'
  BY <1>1, <1>2 DEF MarkTells, HandBacksSayWhy, Unmarked, Making, Failing
<1>9. SplitsNumbered'
  <2>1. \A i \in DOMAIN children : children[i].split \in Nat
    BY <1>2, ChildTyped DEF Children
  <2> QED
    BY <1>1, <1>2, <1>7, <2>1 DEF SplitsNumbered
<1>10. NothingMade'
  BY <1>1, <1>4, <1>6 DEF NothingMade
<1>11. KnowsItsOwn' /\ MadeSoFar' /\ ReleasesItsOwn'
  BY <1>1 DEF KnowsItsOwn, MadeSoFar, ReleasesItsOwn, Making
<1>12. Umbrellas'
  BY <1>1, <1>2, <1>3, <1>7, KeepsUmbrellas
<1>13. FreeWhenComplete'
  <2>1. \A i : Free(i)' <=> Free(i)
    BY <1>1 DEF Free
  <2>2. \A s : Complete(s)' <=> Complete(s)
    BY <1>1, <1>4 DEF Complete
  <2> QED
    BY <1>1, <1>2, <1>5, <2>1, <2>2 DEF FreeWhenComplete
<1>14. ByHandAll'
  BY <1>1, <1>2, <1>4, <1>6 DEF ByHandAll
<1>15. SplitOnce' /\ InBuildOrder' /\ BuiltInOrder' /\ FinishedStays'
  BY <1>1, <1>2, <1>3, KeepsSplitOnce, KeepsInBuildOrder, KeepsBuiltInOrder, KeepsFinished
<1> QED
  BY <1>8, <1>9, <1>10, <1>11, <1>12, <1>13, <1>14, <1>15 DEF IInv

\* A step of the split that failed without effect.
LEMMA FailsCalm ==
    ASSUME IInv, step \in Making, step' = "explain",
           UNCHANGED <<issue, children, split, mine, left, blocker, looks, requeues, mishap>>
    PROVE  Calm /\ MarkTells' /\ HandBacksSayWhy'
<1>1. MarkTells /\ HandBacksSayWhy
  BY DEF IInv
<1>2. requeues <= requeues
  BY DEF IInv, TypeOK, SplitTyped
<1>3. Calm
  BY <1>2 DEF Calm, Follows
<1>4. MarkTells'
  BY <1>1 DEF MarkTells, Unmarked, Making, Failing
<1>5. HandBacksSayWhy'
  BY <1>1 DEF HandBacksSayWhy
<1> QED
  BY <1>3, <1>4, <1>5

\* The split adds a child.
LEMMA AddsChild ==
    ASSUME IInv, TypeOK', step = "create", children' = Append(children, Child),
           \/ step' = "link" /\ mine' = Append(mine, Len(children'))
           \/ step' = "explain" /\ mine' = mine,
           UNCHANGED <<issue, split, blocker, looks, requeues, mishap>>
    PROVE  IInv'
<1> DEFINE new == Len(children')
<1>1. /\ children \in Seq(Children) /\ mine \in Seq(Nat \ {0})
      /\ split \in Nat /\ requeues \in Nat /\ TypeOK
  BY DEF IInv, TypeOK, SplitTyped
<1>2. /\ DOMAIN children' = DOMAIN children \cup {new} /\ new \notin DOMAIN children
      /\ \A j \in DOMAIN children : children'[j] = children[j]
      /\ new \in Nat \ {0}
  <2>1. Len(children') = Len(children) + 1 /\ children' \in Seq(Children)
        /\ \A j \in DOMAIN children : children'[j] = children[j]
    BY <1>1, ChildAdds
  <2>2. DOMAIN children = 1..Len(children) /\ DOMAIN children' = 1..Len(children')
        /\ Len(children) \in Nat
    BY <1>1, <2>1
  <2> QED
    BY <2>1, <2>2
<1>3. /\ children'[new].split = split /\ children'[new].place = Len(mine) + 1
      /\ children'[new].held /\ ~ children'[new].byHand /\ children'[new].state = "open"
      /\ ~ children'[new].linked /\ children'[new].after = 0
      /\ children'[new].waits = (mine = <<>> /\ blocker # "none")
  BY <1>1, ChildAdds
<1> HIDE DEF new
<1>4. \A i \in DOMAIN children : i \in SplitOf(children[i].split)
  BY DEF SplitOf
<1>5. SplitOf(split)' = SplitOf(split) \cup {new} /\ \A s : s # split => SplitOf(s)' = SplitOf(s)
  BY <1>2, <1>3 DEF SplitOf
<1>6. \A s : SplitOf(s) \subseteq DOMAIN children /\ \A i \in SplitOf(s) : children[i].split = s
  BY DEF SplitOf
<1>7. /\ split \notin issue.umbrellaOf
      /\ \A k \in DOMAIN mine : mine[k] \in SplitOf(split) /\ children[mine[k]].place = k
      /\ \A i \in SplitOf(split) :
            /\ children[i].place \in DOMAIN mine /\ mine[children[i].place] = i
            /\ children[i].held /\ ~ children[i].byHand /\ children[i].state = "open"
            /\ Chained(i)
  BY DEF IInv, KnowsItsOwn, Making
<1>8. DOMAIN mine = 1..Len(mine) /\ Len(mine) \in Nat /\ Len(mine) < Drafts
  BY <1>1 DEF IInv, MadeSoFar
<1>9. MarkTells' /\ HandBacksSayWhy'
  BY DEF IInv, MarkTells, HandBacksSayWhy, Unmarked, Making, Failing
<1>10. SplitsNumbered'
  <2>1. "needs-human" \in issue.labels
    BY DEF IInv, MarkTells, Making
  <2> QED
    BY <1>1, <1>2, <1>3, <2>1 DEF IInv, SplitsNumbered
<1>11. SplitOnce'
  <2>1. ASSUME NEW i \in DOMAIN children, children[i].split = split
        PROVE  children[i].place # Len(mine) + 1
    BY <1>4, <1>7, <1>8, <2>1
  <2> QED
    BY <1>2, <1>3, <2>1 DEF IInv, SplitOnce
<1>12. NothingMade' /\ ReleasesItsOwn'
  BY DEF NothingMade, ReleasesItsOwn, Unmarked
<1>13. KnowsItsOwn'
  <2>1. CASE step' = "explain"
    BY <2>1 DEF KnowsItsOwn, Making
  <2>2. CASE step' = "link" /\ mine' = Append(mine, new)
    <3>1. /\ DOMAIN mine' = 1..(Len(mine) + 1) /\ Len(mine') = Len(mine) + 1
          /\ mine'[Len(mine) + 1] = new /\ \A k \in DOMAIN mine : mine'[k] = mine[k]
      BY <1>1, <1>2, <1>8, <2>2
    <3>2. ASSUME NEW k \in DOMAIN mine'
          PROVE  mine'[k] \in SplitOf(split)' /\ children'[mine'[k]].place = k
      BY <1>2, <1>3, <1>5, <1>6, <1>7, <1>8, <3>1
    <3>3. ASSUME NEW i \in SplitOf(split)
          PROVE  /\ children'[i].place \in DOMAIN mine' /\ mine'[children'[i].place] = i
                 /\ children'[i].held /\ ~ children'[i].byHand /\ children'[i].state = "open"
                 /\ Chained(i)'
      <4>1. children'[i] = children[i]
        BY <1>2, <1>6
      <4> QED
        BY <1>7, <1>8, <3>1, <4>1 DEF Chained
    <3>4. /\ children'[new].place \in DOMAIN mine' /\ mine'[children'[new].place] = new
          /\ ~ children'[new].place < Len(mine')
      BY <1>3, <1>8, <3>1
    <3> QED
      BY <1>3, <1>5, <1>7, <2>2, <3>2, <3>3, <3>4 DEF KnowsItsOwn
  <2> QED
    BY <2>1, <2>2 DEF new
<1>14. MadeSoFar'
  <2>1. Drafts \in Nat
    BY DraftsAssumption
  <2>2. mine' = Append(mine, new) => Len(mine') = Len(mine) + 1
    BY <1>1, <1>2
  <2> QED
    BY <1>8, <2>1, <2>2 DEF MadeSoFar, new
<1>15. Umbrellas'
  BY <1>2, <1>5, <1>6, <1>7 DEF IInv, Umbrellas
<1>16. \A s : s # split /\ Complete(s) => Complete(s)'
  BY <1>2, <1>5, <1>6 DEF Complete
<1>17. FreeWhenComplete'
  <2>1. ASSUME NEW i \in DOMAIN children', Free(i)'
        PROVE  i \in DOMAIN children /\ Free(i) /\ children[i].split # split
    BY <1>2, <1>3, <1>4, <1>7, <2>1 DEF Free
  <2> QED
    BY <1>2, <1>16, <2>1 DEF IInv, FreeWhenComplete
<1>18. ByHandAll'
  <2>1. \A i \in SplitOf(split)' : ~ children'[i].byHand
    BY <1>2, <1>3, <1>5, <1>6, <1>7
  <2>2. \A i \in DOMAIN children' :
            children'[i].held /\ children'[i].state # "open" => ~ children'[i].linked
    BY <1>2, <1>3 DEF IInv, ByHandAll
  <2>3. ASSUME NEW i \in DOMAIN children', NEW j \in DOMAIN children',
               children'[i].split = children'[j].split, children'[j].byHand, ~ children'[i].byHand
        PROVE  children'[i].held /\ children'[i].state # "open"
    <3>1. children'[j].split # split
      BY <1>2, <1>3, <1>4, <1>7, <2>3
    <3>2. i \in DOMAIN children /\ j \in DOMAIN children
      BY <1>2, <1>3, <2>3, <3>1
    <3> QED
      BY <1>2, <2>3, <3>2 DEF IInv, ByHandAll
  <2> QED
    BY <2>1, <2>2, <2>3 DEF ByHandAll
<1>19. InBuildOrder'
  <2>1. ASSUME NEW i \in DOMAIN children, children'[i].after # 0, ~ children'[i].byHand
        PROVE  /\ children'[i].after \in SplitOf(children[i].split)
               /\ children'[children'[i].after].place = children'[i].place - 1
    BY <1>2, <1>6, <2>1 DEF IInv, InBuildOrder
  <2>2. children'[new].place = 1 => mine = <<>>
    <3>1. Len(mine) = 0 => mine = <<>>
      BY <1>1
    <3>2. children'[new].place = Len(mine) + 1
      BY <1>3
    <3>3. Len(mine) + 1 = 1 => Len(mine) = 0
      BY <1>8
    <3> QED
      BY <3>1, <3>2, <3>3
  <2>3. \A s : SplitOf(s) \subseteq SplitOf(s)'
    BY <1>5
  <2>4. \A i \in DOMAIN children : children[i].place = 1 => (children[i].waits <=> blocker # "none")
    BY DEF IInv, InBuildOrder
  <2> QED
    BY <1>2, <1>3, <2>1, <2>2, <2>3, <2>4 DEF InBuildOrder
<1>20. BuiltInOrder'
  <2>1. ASSUME NEW i \in DOMAIN children, children[i].split # split, InTurn(i) PROVE InTurn(i)'
    <3>1. Earlier(i)' = Earlier(i) /\ Earlier(i) \subseteq DOMAIN children
      BY <1>2, <1>5, <1>6, <2>1 DEF Earlier
    <3> QED
      BY <1>2, <2>1, <3>1 DEF InTurn
  <2>2. ASSUME NEW i \in DOMAIN children', children'[i].state = "completed"
        PROVE  i \in DOMAIN children /\ children[i].split # split
    BY <1>2, <1>3, <1>4, <1>7, <2>2
  <2>3. InOrder
    BY OrderSays DEF IInv
  <2> QED
    BY <1>2, <2>1, <2>2, <2>3, OrderSaysNext DEF InOrder
<1>21. FinishedStays'
  <2>1. \A s \in issue.umbrellaOf : Done(s) => Done(s)'
    BY <1>2, <1>5, <1>6, <1>7 DEF Done
  <2> QED
    BY <2>1 DEF IInv, FinishedStays
<1> QED
  BY <1>9, <1>10, <1>11, <1>12, <1>13, <1>14, <1>15, <1>17, <1>18, <1>19, <1>20, <1>21 DEF IInv

LEMMA CreateStep == ASSUME IInv, TypeOK', Create PROVE IInv'
<1>1. step = "create" /\ UNCHANGED <<left, mishap, split, blocker, looks, requeues, issue>>
  BY DEF Create, Rest, Try
<1>2. \/ /\ step' = "link" /\ children' = Append(children, Child)
         /\ mine' = Append(mine, Len(children'))
      \/ step' = "explain" /\ children' = Append(children, Child) /\ mine' = mine
      \/ step' = "explain" /\ children' = children /\ mine' = mine
  BY Creates
<1>3. CASE children' = Append(children, Child)
  BY <1>1, <1>2, <1>3, AddsChild
<1>4. CASE step' = "explain" /\ children' = children /\ mine' = mine
  BY <1>1, <1>4, FailsCalm, CalmStep DEF Making
<1> QED
  BY <1>2, <1>3, <1>4

\* The child linked or chained is this split's last, open and held.
LEMMA LastChild ==
    ASSUME IInv, step \in {"link", "chain"}
    PROVE  /\ Last(mine) \in SplitOf(split) /\ Last(mine) \in DOMAIN children
           /\ children[Last(mine)].place = Len(mine) /\ children[Last(mine)].state = "open"
           /\ children[Last(mine)].split = split
           /\ step = "chain" => children[Last(mine)].linked
           /\ \A i \in SplitOf(split) \ {Last(mine)} : Chained(i)
           /\ Len(mine) \in Nat \ {0} /\ mine \in Seq(Nat \ {0})
<1> DEFINE last == Last(mine)
<1>1. /\ last = mine[Len(mine)] /\ last \in SplitOf(split) /\ last \in DOMAIN children
      /\ children[last].place = Len(mine) /\ DOMAIN mine = 1..Len(mine)
  BY OwnChild DEF IInv
<1>2. mine \in Seq(Nat \ {0}) /\ Len(mine) \in Nat \ {0}
  BY DEF IInv, TypeOK, SplitTyped, MadeSoFar
<1> HIDE DEF last
<1>3. \A i \in SplitOf(split) :
            /\ children[i].place \in DOMAIN mine /\ mine[children[i].place] = i
            /\ children[i].held /\ ~ children[i].byHand /\ children[i].state = "open"
            /\ children[i].place < Len(mine) \/ step \notin {"link", "chain"} => Chained(i)
            /\ step = "chain" => children[i].linked
  BY DEF IInv, KnowsItsOwn, Making
<1>4. ASSUME NEW i \in SplitOf(split), i # last PROVE Chained(i)
  <2>1. children[i].place # Len(mine) /\ children[i].place \in 1..Len(mine)
    BY <1>1, <1>3, <1>4
  <2>2. children[i].place < Len(mine)
    BY <1>2, <2>1
  <2> QED
    BY <1>3, <2>2
<1>5. children[last].split = split
  BY <1>1 DEF SplitOf
<1> QED
  BY <1>1, <1>2, <1>3, <1>4, <1>5 DEF last

\* The last child linked or chained: all but what the split knows of its own.
LEMMA LinksLast ==
    ASSUME IInv, TypeOK', step \in {"link", "chain"}, step' \in Making \cup {"explain"},
           NEW last \in SplitOf(split), last = Last(mine),
           Alters(last), KeepsMark(last), KeepsState(last),
           children[last].linked => children'[last].linked,
           children[last].after # 0 => children'[last].after # 0,
           UNCHANGED <<issue, split, mine, left, blocker, looks, requeues, mishap>>,
           KnowsItsOwn', MadeSoFar', InBuildOrder'
    PROVE  IInv'
<1>1. last \in DOMAIN children /\ children[last].state = "open" /\ children[last].split = split
  BY LastChild
<1>2. SameSplits /\ Settled
  BY <1>1, AltersSame DEF Alters, KeepsState, Settled
<1>3. \A s : SplitOf(s)' = SplitOf(s) /\ SplitOf(s) \subseteq DOMAIN children
  BY <1>2, SameSplitOf DEF SplitOf
<1>4. /\ \A i \in DOMAIN children : /\ children'[i].held = children[i].held
                                    /\ children'[i].byHand = children[i].byHand
                                    /\ children'[i].state = children[i].state
      /\ \A i \in DOMAIN children \ {last} : children'[i] = children[i]
      /\ DOMAIN children' = DOMAIN children
  BY DEF Alters, KeepsMark, KeepsState
<1>5. \A i \in DOMAIN children : Chained(i) => Chained(i)'
  BY <1>1, <1>4 DEF Chained, Alters
<1>6. MarkTells' /\ HandBacksSayWhy'
  BY DEF IInv, MarkTells, HandBacksSayWhy, Unmarked, Making, Failing
<1>7. SplitsNumbered'
  BY <1>2 DEF IInv, SplitsNumbered, SameSplits
<1>8. NothingMade' /\ ReleasesItsOwn'
  BY DEF NothingMade, ReleasesItsOwn, Unmarked, Making
<1>9. split <= split /\ requeues <= requeues
  BY DEF IInv, TypeOK, SplitTyped
<1>10. SplitOnce' /\ Umbrellas' /\ FinishedStays'
  BY <1>2, <1>9, KeepsSplitOnce, KeepsUmbrellas, KeepsFinished DEF IInv
<1>11. FreeWhenComplete'
  <2>1. ASSUME NEW i \in DOMAIN children, Free(i)', NEW s, s = children[i].split
        PROVE  Complete(s)' /\ s # split
    <3>1. Free(i)
      BY <1>4, <2>1 DEF Free
    <3>2. Complete(s) /\ s # split
      BY <2>1, <3>1 DEF IInv, FreeWhenComplete
    <3>3. \A j \in SplitOf(s) : Chained(j) => Chained(j)'
      BY <1>3, <1>5
    <3>4. issue.umbrellaOf \subseteq issue'.umbrellaOf
      OBVIOUS
    <3> QED
      BY <1>2, <3>2, <3>3, <3>4, KeepsComplete
  <2> QED
    BY <1>2, <2>1 DEF FreeWhenComplete, SameSplits
<1>12. ByHandAll'
  <2>1. \A i \in SplitOf(split) : ~ children[i].byHand
    BY DEF IInv, ByHandAll
  <2>2. \A i \in DOMAIN children :
            children'[i].held /\ children'[i].state # "open" => ~ children'[i].linked
    BY <1>1, <1>4 DEF IInv, ByHandAll
  <2>3. \A i, j \in DOMAIN children :
            children[i].split = children[j].split /\ children[j].byHand /\ ~ children[i].byHand =>
                children[i].held /\ children[i].state # "open"
    BY DEF IInv, ByHandAll
  <2> QED
    BY <1>2, <1>3, <1>4, <2>1, <2>2, <2>3 DEF ByHandAll, SameSplits
<1>13. BuiltInOrder'
  BY <1>2, <1>4, KeepsBuiltInOrder DEF IInv
<1> QED
  BY <1>6, <1>7, <1>8, <1>10, <1>11, <1>12, <1>13 DEF IInv

\* How the split goes on once its last child is linked, and chained if need be.
LEMMA GoesOn ==
    ASSUME IInv, step \in {"link", "chain"}
    PROVE  /\ AfterChild \in {"create", "unqueue"}
           /\ AfterChild = "create" => Len(mine) < Drafts
           /\ AfterChild = "unqueue" => Len(mine) = Drafts
<1>1. Len(mine) \in Nat /\ Len(mine) <= Drafts /\ Drafts \in Nat
  BY LastChild, DraftsAssumption DEF IInv, MadeSoFar
<1> QED
  BY <1>1 DEF AfterChild

\* What the split knows of its own after that.
LEMMA KnowsLast ==
    ASSUME IInv, step \in {"link", "chain"}, step' \in Making \cup {"explain"},
           NEW last \in SplitOf(split), last = Last(mine),
           Alters(last), KeepsMark(last), KeepsState(last),
           UNCHANGED <<issue, split, mine>>,
           step' \notin {"link", "chain", "explain"} => Chained(last)',
           step' = "chain" => step = "link" /\ children'[last].linked, step' # "link"
    PROVE  KnowsItsOwn'
<1>1. /\ last \in DOMAIN children /\ children[last].place = Len(mine)
      /\ \A i \in SplitOf(split) \ {last} : Chained(i)
  BY LastChild
<1>2. \A s : SplitOf(s)' = SplitOf(s) /\ SplitOf(s) \subseteq DOMAIN children
  BY <1>1, AltersSame, SameSplitOf DEF SplitOf
<1>3. /\ split \notin issue.umbrellaOf
      /\ \A k \in DOMAIN mine : mine[k] \in SplitOf(split) /\ children[mine[k]].place = k
      /\ \A i \in SplitOf(split) :
            /\ children[i].place \in DOMAIN mine /\ mine[children[i].place] = i
            /\ children[i].held /\ ~ children[i].byHand /\ children[i].state = "open"
  BY DEF IInv, KnowsItsOwn, Making
<1>4. \A i \in DOMAIN children : /\ children'[i].held = children[i].held
                                 /\ children'[i].byHand = children[i].byHand
                                 /\ children'[i].state = children[i].state
                                 /\ children'[i].place = children[i].place
  BY DEF Alters, KeepsMark, KeepsState
<1>5. ASSUME NEW i \in SplitOf(split), step' # "explain"
      PROVE  /\ children[i].place < Len(mine) \/ step' \notin {"link", "chain"} => Chained(i)'
             /\ step' = "chain" => children'[i].linked
  <2>1. CASE i = last
    <3>1. ~ children[i].place < Len(mine)
      BY <1>1, <2>1, LastChild
    <3> QED
      BY <1>5, <2>1, <3>1
  <2>2. CASE i # last
    <3>1. children'[i] = children[i] /\ Chained(i)
      BY <1>1, <1>2, <2>2 DEF Alters
    <3> QED
      BY <3>1 DEF Chained
  <2> QED
    BY <2>1, <2>2
<1> QED
  BY <1>2, <1>3, <1>4, <1>5 DEF KnowsItsOwn, Making

LEMMA LinkStep == ASSUME IInv, TypeOK', Link PROVE IInv'
<1>0. PICK last \in SplitOf(split) : last = Last(mine)
  BY LastChild DEF Link
<1>1. /\ step = "link" /\ UNCHANGED <<issue, split, mine, left, blocker, looks, requeues, mishap>>
      /\ \/ children' = [children EXCEPT ![last].linked = TRUE]
         \/ step' = "explain" /\ children' = children
      /\ step' \in {"explain", IF Len(mine) > 1 THEN "chain" ELSE AfterChild}
  BY <1>0 DEF Link, Try, Rest
<1>2. CASE step' = "explain" /\ children' = children
  BY <1>1, <1>2, FailsCalm, CalmStep DEF Making
<1>3. CASE children' = [children EXCEPT ![last].linked = TRUE]
  <2>1. /\ last \in SplitOf(split) /\ last \in DOMAIN children /\ children[last].place = Len(mine)
        /\ Len(mine) \in Nat \ {0}
    BY <1>0, <1>1, LastChild
  <2>2. /\ Alters(last) /\ KeepsMark(last) /\ KeepsState(last)
        /\ children'[last].linked /\ children'[last].after = children[last].after
    BY <1>3, <2>1, LinkAlters DEF IInv
  <2>3. /\ AfterChild \in {"create", "unqueue"}
        /\ AfterChild = "create" => Len(mine) < Drafts
        /\ AfterChild = "unqueue" => Len(mine) = Drafts
    BY <1>1, GoesOn
  <2>4. /\ step' \in {"explain", "chain", "create", "unqueue"}
        /\ step' = "chain" => Len(mine) > 1
        /\ step' \in {"create", "unqueue"} => Len(mine) = 1 /\ step' = AfterChild
    <3>1. CASE Len(mine) > 1
      BY <1>1, <3>1
    <3>2. CASE Len(mine) = 1
      BY <1>1, <2>3, <3>2
    <3> QED
      <4>1. \A n \in Nat \ {0} : n > 1 \/ n = 1
        OBVIOUS
      <4> QED
        BY <2>1, <3>1, <3>2, <4>1
  <2>5. step' \in {"create", "unqueue"} => Chained(last)'
    <3>1. step' \in {"create", "unqueue"} => children'[last].place = 1
      BY <2>1, <2>2, <2>4 DEF Alters
    <3> QED
      BY <2>2, <3>1 DEF Chained
  <2>6. KnowsItsOwn'
    BY <1>1, <2>1, <2>2, <2>4, <2>5, <1>0, KnowsLast DEF Making
  <2>7. MadeSoFar'
    BY <1>1, <2>3, <2>4 DEF IInv, MadeSoFar
  <2>8. SameSplits /\ \A i \in DOMAIN children :
            children'[i].after = children[i].after /\ children'[i].byHand = children[i].byHand
    BY <2>1, <2>2, AltersSame DEF Alters
  <2>9. InBuildOrder'
    BY <1>1, <2>8, KeepsInBuildOrder DEF IInv
  <2> QED
    BY <1>1, <2>1, <2>2, <2>4, <2>6, <2>7, <2>9, <1>0, LinksLast DEF Making
<1> QED
  BY <1>1, <1>2, <1>3

LEMMA ChainStep == ASSUME IInv, TypeOK', Chain PROVE IInv'
<1> DEFINE before == mine[Len(mine) - 1]
<1>0. PICK last \in SplitOf(split) : last = Last(mine)
  BY LastChild DEF Chain
<1>1. /\ step = "chain" /\ UNCHANGED <<issue, split, mine, left, blocker, looks, requeues, mishap>>
      /\ \/ children' = [children EXCEPT ![last].after = before]
         \/ step' = "explain" /\ children' = children
      /\ step' \in {"explain", AfterChild}
  BY <1>0 DEF Chain, Try, Rest
<1>2. CASE step' = "explain" /\ children' = children
  BY <1>1, <1>2, FailsCalm, CalmStep DEF Making
<1>3. CASE children' = [children EXCEPT ![last].after = before]
  <2>1. /\ last \in SplitOf(split) /\ last \in DOMAIN children /\ children[last].place = Len(mine)
        /\ Len(mine) \in Nat \ {0} /\ children[last].linked /\ children[last].split = split
    BY <1>0, <1>1, LastChild
  <2>2. before \in Nat \ {0} /\ Len(mine) > 1
    BY <1>1, BeforeLast DEF IInv, MadeSoFar
  <2>3. before \in SplitOf(split) /\ children[before].place = Len(mine) - 1
    <3>1. Len(mine) - 1 \in DOMAIN mine
      BY <1>1, <2>2, LastChild
    <3> QED
      BY <1>1, <3>1 DEF IInv, KnowsItsOwn, Making
  <2> HIDE DEF before
  <2>4. /\ Alters(last) /\ KeepsMark(last) /\ KeepsState(last)
        /\ children'[last].after = before /\ children'[last].linked = children[last].linked
    BY <1>3, <2>1, <2>2, ChainAlters DEF IInv
  <2>5. /\ AfterChild \in {"create", "unqueue"}
        /\ AfterChild = "create" => Len(mine) < Drafts
        /\ AfterChild = "unqueue" => Len(mine) = Drafts
    BY <1>1, GoesOn
  <2>6. Chained(last)'
    BY <2>1, <2>2, <2>4 DEF Chained
  <2>7. KnowsItsOwn'
    BY <1>1, <2>1, <2>4, <2>5, <2>6, <1>0, KnowsLast DEF Making
  <2>8. MadeSoFar'
    BY <1>1, <2>5 DEF IInv, MadeSoFar
  <2>9. SameSplits
    BY <2>1, <2>4, AltersSame
  <2>10. \A s : SplitOf(s)' = SplitOf(s) /\ SplitOf(s) \subseteq DOMAIN children
    BY <2>9, SameSplitOf DEF SplitOf
  <2>11. InBuildOrder'
    <3>1. ASSUME NEW i \in DOMAIN children, children'[i].after # 0, ~ children'[i].byHand
          PROVE  /\ children'[i].after \in SplitOf(children[i].split)
                 /\ children'[children'[i].after].place = children[i].place - 1
      <4>1. CASE i = last
        BY <2>1, <2>3, <2>4, <2>9, <2>10, <4>1 DEF SameSplits
      <4>2. CASE i # last
        <5>1. children'[i] = children[i]
          BY <2>4, <4>2 DEF Alters
        <5>2. /\ children[i].after \in SplitOf(children[i].split)
              /\ children[children[i].after].place = children[i].place - 1
          BY <3>1, <5>1 DEF IInv, InBuildOrder
        <5> QED
          BY <2>9, <2>10, <5>1, <5>2 DEF SameSplits
      <4> QED
        BY <4>1, <4>2
    <3>2. \A i \in DOMAIN children : children'[i].place = 1 => (children'[i].waits <=> blocker # "none")
      BY <2>9 DEF IInv, InBuildOrder, SameSplits
    <3> QED
      BY <1>1, <2>9, <2>10, <3>1, <3>2 DEF InBuildOrder, SameSplits
  <2> QED
    BY <1>1, <2>1, <2>2, <2>4, <2>5, <2>7, <2>8, <2>11, <1>0, LinksLast DEF Making
<1> QED
  BY <1>1, <1>2, <1>3

LEMMA UmbrellaStep == ASSUME IInv, TypeOK', Umbrella PROVE IInv'
<1>1. /\ step = "umbrella" /\ UNCHANGED <<children, mine, mishap, split, blocker, looks, requeues>>
      /\ \/ issue' = [issue EXCEPT !.umbrellaOf = @ \cup {split}]
         \/ step' = "explain" /\ issue' = issue
      /\ \/ step' = "release" /\ left' = Append(mine, 0)
         \/ step' = "explain" /\ left' = left
      /\ step' = "release" => issue' = [issue EXCEPT !.umbrellaOf = @ \cup {split}]
  BY DEF Umbrella, Try, Rest, Marks
<1>2. CASE step' = "explain" /\ issue' = issue
  BY <1>1, <1>2, FailsCalm, CalmStep DEF Making
<1>3. CASE issue' = [issue EXCEPT !.umbrellaOf = @ \cup {split}]
  <2>1. /\ issue'.umbrellaOf = issue.umbrellaOf \cup {split} /\ issue'.labels = issue.labels
        /\ issue'.comments = issue.comments /\ issue'.open = issue.open
    BY <1>3 DEF IInv, TypeOK, IssueTyped
  <2>2. /\ mine \in Seq(Nat \ {0}) /\ Len(mine) = Drafts /\ split \in Nat /\ requeues \in Nat
        /\ DOMAIN mine = 1..Drafts /\ (Queue \in issue.labels => requeues > split)
    BY <1>1 DEF IInv, MadeSoFar, TypeOK, SplitTyped
  <2>3. SameSplits /\ Settled
    BY <1>1 DEF SameSplits, Settled
  <2>4. \A s : SplitOf(s)' = SplitOf(s)
    BY <2>3, SameSplitOf
  <2>5. /\ \A k \in DOMAIN mine : mine[k] \in SplitOf(split) /\ children[mine[k]].place = k
        /\ \A i \in SplitOf(split) : children[i].held /\ Chained(i)
    BY <1>1 DEF IInv, KnowsItsOwn, Making
  <2>6. Complete(split)'
    BY <1>1, <2>1, <2>2, <2>4, <2>5 DEF Complete, Chained
  <2>7. MarkTells' /\ HandBacksSayWhy'
    BY <1>1, <2>1 DEF IInv, MarkTells, HandBacksSayWhy, Unmarked, Making, Failing
  <2>8. SplitsNumbered'
    BY <1>1, <2>1 DEF IInv, SplitsNumbered
  <2>9. NothingMade' /\ KnowsItsOwn' /\ MadeSoFar'
    BY <1>1 DEF NothingMade, KnowsItsOwn, MadeSoFar, Unmarked, Making
  <2>10. ReleasesItsOwn'
    <3>1. CASE left' = Append(mine, 0)
      <4>1. /\ Len(left') = Drafts + 1 /\ left'[Drafts + 1] = 0
            /\ \A k \in 1..Drafts : left'[k] = mine[k]
        BY <2>2, <3>1
      <4>2. Drafts \in Nat \ {0}
        BY DraftsAssumption
      <4> QED
        BY <1>1, <2>2, <2>4, <2>5, <2>6, <4>1, <4>2 DEF ReleasesItsOwn
    <3>2. CASE step' = "explain"
      BY <3>2 DEF ReleasesItsOwn
    <3> QED
      BY <1>1, <3>1, <3>2
  <2>11. Umbrellas'
    <3>1. \A i \in SplitOf(split) : children[i].linked
      BY <2>5 DEF Chained
    <3>2. \A k \in 1..Drafts : \E i \in SplitOf(split) : children[i].place = k
      BY <2>2, <2>5
    <3>3. \A s \in issue.umbrellaOf : s <= split /\ (Queue \in issue.labels => requeues > s)
            /\ (\A k \in 1..Drafts : \E i \in SplitOf(s) : children[i].place = k)
            /\ \A i \in SplitOf(s) : children[i].linked \/ children[i].state = "not_planned"
      BY DEF IInv, Umbrellas
    <3>4. split <= split
      BY <2>2
    <3> QED
      BY <1>1, <2>1, <2>2, <2>4, <3>1, <3>2, <3>3, <3>4 DEF Umbrellas
  <2>12. FreeWhenComplete'
    <3>1. ASSUME NEW i \in DOMAIN children, Free(i)
          PROVE  Complete(children[i].split)' /\ children[i].split # split
      <4>1. Complete(children[i].split) /\ i \in SplitOf(children[i].split)
        BY <3>1 DEF IInv, FreeWhenComplete, SplitOf
      <4> QED
        BY <1>1, <2>1, <2>4, <2>5, <3>1, <4>1 DEF Complete, Free
    <3>2. \A i : Free(i)' <=> Free(i)
      BY <1>1 DEF Free
    <3> QED
      BY <1>1, <3>1, <3>2 DEF FreeWhenComplete
  <2>13. ByHandAll'
    BY <1>1, <2>4 DEF IInv, ByHandAll
  <2>14. SplitOnce' /\ InBuildOrder' /\ BuiltInOrder' /\ FinishedStays'
    BY <1>1, <2>1, <2>3, KeepsSplitOnce, KeepsInBuildOrder, KeepsBuiltInOrder, KeepsFinished DEF IInv
  <2> QED
    BY <2>7, <2>8, <2>9, <2>10, <2>11, <2>12, <2>13, <2>14 DEF IInv
<1> QED
  BY <1>1, <1>2, <1>3

\* A mark comes off a child of a complete split.
LEMMA Unholds ==
    ASSUME IInv, TypeOK', NEW i \in DOMAIN children, Alters(i), KeepsState(i), KeepsLinks(i),
           ~ children'[i].held, Complete(children[i].split),
           step \in {"off", "release"}, step' = step, "partial" \notin issue.comments,
           UNCHANGED <<issue, split, mine, blocker, looks, requeues>>,
           ReleasesItsOwn', MarkTells', HandBacksSayWhy'
    PROVE  IInv'
<1>1. SameSplits /\ Settled
  BY AltersSame DEF Alters, KeepsState, KeepsLinks, Settled
<1>2. \A s : SplitOf(s)' = SplitOf(s) /\ SplitOf(s) \subseteq DOMAIN children
  BY <1>1, SameSplitOf DEF SplitOf
<1>3. /\ \A j \in DOMAIN children : /\ children'[j].linked = children[j].linked
                                    /\ children'[j].after = children[j].after
                                    /\ children'[j].byHand = children[j].byHand
                                    /\ children'[j].state = children[j].state
      /\ \A j \in DOMAIN children \ {i} : children'[j] = children[j]
      /\ DOMAIN children' = DOMAIN children
  BY DEF Alters, KeepsState, KeepsLinks
<1>4. \A j \in DOMAIN children : Chained(j) => Chained(j)'
  BY <1>1, <1>3 DEF Chained, SameSplits
<1>5. SplitsNumbered'
  BY <1>1 DEF IInv, SplitsNumbered, SameSplits
<1>6. NothingMade' /\ KnowsItsOwn' /\ MadeSoFar'
  BY DEF NothingMade, KnowsItsOwn, MadeSoFar, Unmarked, Making
<1>7. split <= split /\ requeues <= requeues
  BY DEF IInv, TypeOK, SplitTyped
<1>8. SplitOnce' /\ Umbrellas' /\ FinishedStays' /\ InBuildOrder' /\ BuiltInOrder'
  BY <1>1, <1>3, <1>7, KeepsSplitOnce, KeepsUmbrellas, KeepsFinished, KeepsInBuildOrder,
     KeepsBuiltInOrder DEF IInv
<1>9. FreeWhenComplete'
  <2>1. ASSUME NEW j \in DOMAIN children, Free(j)', NEW s, s = children[j].split PROVE Complete(s)'
    <3>1. Complete(s)
      <4>1. CASE j = i
        BY <2>1, <4>1
      <4>2. CASE j # i
        BY <1>3, <2>1, <4>2 DEF IInv, FreeWhenComplete, Free
      <4> QED
        BY <4>1, <4>2
    <3>2. \A k \in SplitOf(s) : Chained(k) => Chained(k)'
      BY <1>2, <1>4
    <3>3. issue.umbrellaOf \subseteq issue'.umbrellaOf
      OBVIOUS
    <3> QED
      BY <1>1, <3>1, <3>2, <3>3, KeepsComplete
  <2> QED
    BY <1>1, <2>1 DEF FreeWhenComplete, SameSplits
<1>10. ByHandAll'
  <2>1. step' # "off" => \A j \in SplitOf(split) : ~ children[j].byHand
    BY DEF IInv, ByHandAll
  <2>2. \A j \in DOMAIN children :
            children'[j].held /\ children'[j].state # "open" => ~ children'[j].linked
    BY <1>3 DEF IInv, ByHandAll
  <2>3. ASSUME NEW k \in DOMAIN children, NEW j \in DOMAIN children,
               children[k].split = children[j].split, children[j].byHand, ~ children[k].byHand
        PROVE  children'[k].held /\ children[k].state # "open"
    <3>1. children[k].held /\ children[k].state # "open" /\ ~ children[k].linked
      BY <2>3 DEF IInv, ByHandAll
    <3>2. k # i
      BY <3>1 DEF Complete, SplitOf
    <3> QED
      BY <1>3, <3>1, <3>2
  <2> QED
    BY <1>1, <1>2, <1>3, <2>1, <2>2, <2>3 DEF ByHandAll, SameSplits
<1> QED
  BY <1>5, <1>6, <1>8, <1>9, <1>10 DEF IInv

LEMMA ByHandStep == ASSUME IInv, TypeOK', NEW i \in DOMAIN children, ByHand(i) PROVE IInv'
<1>1. /\ step = "off" /\ ~ HandedBack /\ Complete(children[i].split)
      /\ children' = [children EXCEPT ![i] = [children[i] EXCEPT !.held = FALSE]]
      /\ UNCHANGED <<issue, requeues, blocker, step, split, mine, left, looks, mishap>>
  BY DEF ByHand, Change, GitHub, splitVars
<1>2. Alters(i) /\ KeepsState(i) /\ KeepsLinks(i) /\ ~ children'[i].held
  BY <1>1, FreeAlters DEF IInv
<1>3. "partial" \notin issue.comments
  BY <1>1 DEF IInv, MarkTells, HandedBack
<1>4. ReleasesItsOwn' /\ MarkTells' /\ HandBacksSayWhy'
  BY <1>1 DEF IInv, ReleasesItsOwn, MarkTells, HandBacksSayWhy
<1> QED
  BY <1>1, <1>2, <1>3, <1>4, Unholds

LEMMA MoreThanOne ==
    \A n \in Nat : n >= 1 /\ n # 1 => 1 \in 1..n - 1 /\ n - 1 \in 1..n - 1 /\ n - 1 + 1 = n
  OBVIOUS

LEMMA ReleaseStep == ASSUME IInv, TypeOK', Release PROVE IInv'
<1>1. /\ left \in Seq(Nat) /\ Len(left) >= 1 /\ left[Len(left)] = 0 /\ Complete(split)
      /\ \A k \in 1..Len(left) - 1 : left[k] \in SplitOf(split)
      /\ step = "release" /\ left' = Tail(left) /\ Len(left) \in Nat
  BY DEF IInv, TypeOK, SplitTyped, ReleasesItsOwn, Release
<1>2. Head(left) = left[1]
  BY <1>1
<1>3. 0 \notin SplitOf(split)
  BY DEF IInv, TypeOK, SplitOf
<1>4. Head(left) = 0 <=> Len(left) = 1
  <2>1. CASE Len(left) = 1
    BY <1>1, <1>2, <2>1
  <2>2. CASE Len(left) # 1
    <3>1. 1 \in 1..Len(left) - 1
      BY <1>1, <2>2, MoreThanOne
    <3> QED
      BY <1>1, <1>2, <1>3, <2>2, <3>1
  <2> QED
    BY <2>1, <2>2
<1>5. /\ UNCHANGED <<split, blocker, looks, requeues, mine>>
      /\ step' = IF Len(left) = 1 THEN "off" ELSE "release"
      /\ mishap' = (mishap \/ <<issue, children>>' = <<issue, children>>)
      /\ \/ issue' = issue /\ children' = children
         \/ Head(left) = 0 /\ issue' = Labelled({}, {"needs-human"}) /\ children' = children
         \/ Head(left) # 0 /\ issue' = issue /\ children' = [children EXCEPT ![Head(left)].held = FALSE]
  BY DEF Release, Try, Rest
<1>6. ReleasesItsOwn' \/ children' # children \/ step' = "off"
  <2>1. ASSUME children' = children, Len(left) # 1, issue' = issue PROVE ReleasesItsOwn'
    <3>1. /\ Len(left') = Len(left) - 1 /\ \A k \in 1..Len(left) - 1 : left'[k] = left[k + 1]
      BY <1>1
    <3>2. SplitOf(split)' = SplitOf(split) /\ (Complete(split)' <=> Complete(split))
      BY <1>5, <2>1 DEF SplitOf, Complete
    <3>3. Len(left') >= 1 /\ left'[Len(left')] = 0
      <4>1. Len(left) - 1 \in 1..Len(left) - 1 /\ Len(left) - 1 + 1 = Len(left)
        BY <1>1, <2>1, MoreThanOne
      <4> QED
        BY <1>1, <3>1, <4>1
    <3>4. \A k \in 1..Len(left') - 1 : left'[k] \in SplitOf(split)
      BY <1>1, <3>1
    <3> QED
      BY <1>1, <1>5, <3>2, <3>3, <3>4 DEF ReleasesItsOwn
  <2> QED
    BY <1>4, <1>5, <2>1
<1>7. "needs-human" \in issue.labels /\ "partial" \notin issue.comments
  BY <1>1 DEF IInv, MarkTells
<1>8. split \in issue.umbrellaOf /\ split \in Nat /\ requeues \in Nat
      /\ (Queue \in issue.labels => requeues > split)
  BY <1>1 DEF Complete, IInv, Umbrellas, TypeOK, SplitTyped
<1>9. CASE children' = children
  <2>1. /\ Labelled({}, {"needs-human"}).labels = issue.labels \ {"needs-human"}
        /\ Labelled({}, {"needs-human"}).comments = issue.comments
        /\ Labelled({}, {"needs-human"}).umbrellaOf = issue.umbrellaOf
        /\ Labelled({}, {"needs-human"}).open = issue.open
    BY UnmarkedRecord DEF IInv
  <2>2. /\ issue'.comments = issue.comments /\ issue'.umbrellaOf = issue.umbrellaOf
        /\ issue'.open = issue.open
        /\ \/ issue'.labels = issue.labels /\ mishap'
           \/ issue'.labels = issue.labels \ {"needs-human"} /\ step' = "off"
    BY <1>4, <1>5, <1>9, <2>1
  <2>3. Calm
    <3>1. ReleasesItsOwn'
      BY <1>6, <1>9 DEF ReleasesItsOwn
    <3>2. step' \in {step, "off"} /\ requeues <= requeues
      BY <1>1, <1>5, <1>8
    <3> QED
      BY <1>5, <1>8, <1>9, <2>2, <3>1, <3>2 DEF Calm, Follows, Queue
  <2>4. MarkTells'
    BY <1>1, <1>5, <1>7, <2>2 DEF IInv, MarkTells, Unmarked, Making, Failing
  <2>5. HandBacksSayWhy'
    BY <2>2 DEF IInv, HandBacksSayWhy
  <2> QED
    BY <2>3, <2>4, <2>5, CalmStep
<1>10. CASE Head(left) # 0 /\ issue' = issue /\ children' = [children EXCEPT ![Head(left)].held = FALSE]
  <2>1. PICK i \in SplitOf(split) : i = Head(left)
    BY <1>1, <1>10, Released DEF IInv
  <2>2. i \in DOMAIN children /\ children[i].split = split
    BY DEF SplitOf
  <2>3. Alters(i) /\ KeepsState(i) /\ KeepsLinks(i) /\ ~ children'[i].held
    BY <1>10, <2>1, <2>2, FreeAlters DEF IInv
  <2>4. step' = "release"
    BY <1>4, <1>5, <1>10
  <2>5. ReleasesItsOwn'
    <3>1. SameSplits
      BY <2>2, <2>3, AltersSame
    <3>2. SplitOf(split)' = SplitOf(split) /\ SplitOf(split) \subseteq DOMAIN children
      BY <1>5, <3>1, SameSplitOf DEF SplitOf
    <3>3. \A j \in SplitOf(split) : Chained(j) => Chained(j)'
      BY <2>2, <2>3, <3>2 DEF Alters, KeepsLinks, Chained
    <3>4. issue.umbrellaOf \subseteq issue'.umbrellaOf
      BY <1>10
    <3>5. Complete(split)'
      <4>1. PICK s : s = split
        OBVIOUS
      <4>2. Complete(s)'
        BY <1>1, <3>1, <3>3, <3>4, <4>1, KeepsComplete
      <4> QED
        BY <1>5, <4>1, <4>2
    <3>6. /\ Len(left') = Len(left) - 1 /\ \A k \in 1..Len(left) - 1 : left'[k] = left[k + 1]
          /\ Len(left) > 1
      BY <1>1, <1>4, <1>10
    <3>7. Len(left') >= 1 /\ left'[Len(left')] = 0
      BY <1>1, <3>6
    <3>8. \A k \in 1..Len(left') - 1 : left'[k] \in SplitOf(split)
      BY <1>1, <3>6
    <3> QED
      BY <3>2, <3>5, <3>7, <3>8 DEF ReleasesItsOwn
  <2>6. MarkTells' /\ HandBacksSayWhy'
    BY <1>1, <1>10, <2>4 DEF IInv, MarkTells, HandBacksSayWhy, Unmarked, Making, Failing
  <2> QED
    BY <1>1, <1>5, <1>7, <1>10, <2>2, <2>3, <2>4, <2>5, <2>6, Unholds
<1> QED
  BY <1>5, <1>9, <1>10

\* An open child that nothing holds back is closed, with nothing else changed.
LEMMA Closes ==
    ASSUME IInv, TypeOK', NEW i \in DOMAIN children, Alters(i), KeepsMark(i), KeepsLinks(i),
           children[i].state = "open", ~ children[i].held,
           UNCHANGED <<issue, requeues, blocker, step, split, mine, left, looks, mishap>>,
           BuiltInOrder'
    PROVE  IInv'
<1>1. SameSplits /\ Settled
  BY AltersSame DEF Alters, KeepsLinks, Settled
<1>2. \A s : SplitOf(s)' = SplitOf(s) /\ SplitOf(s) \subseteq DOMAIN children
  BY <1>1, SameSplitOf DEF SplitOf
<1>3. /\ \A j \in DOMAIN children : /\ children'[j].linked = children[j].linked
                                    /\ children'[j].after = children[j].after
                                    /\ children'[j].byHand = children[j].byHand
                                    /\ children'[j].held = children[j].held
      /\ \A j \in DOMAIN children \ {i} : children'[j] = children[j]
      /\ DOMAIN children' = DOMAIN children
  BY DEF Alters, KeepsMark, KeepsLinks
<1>4. \A j \in DOMAIN children : Chained(j) <=> Chained(j)'
  BY <1>1, <1>3 DEF Chained, SameSplits
<1>5. \A j \in DOMAIN children : Free(j) <=> Free(j)'
  BY <1>3 DEF Free
<1>6. ASSUME NEW s, Complete(s) PROVE Complete(s)'
  <2>1. \A j \in SplitOf(s) : Chained(j) => Chained(j)'
    BY <1>2, <1>4
  <2>2. issue.umbrellaOf \subseteq issue'.umbrellaOf
    OBVIOUS
  <2> QED
    BY <1>1, <1>6, <2>1, <2>2, KeepsComplete
<1>7. MarkTells' /\ HandBacksSayWhy' /\ MadeSoFar'
  BY DEF IInv, MarkTells, HandBacksSayWhy, MadeSoFar
<1>8. SplitsNumbered'
  BY <1>1 DEF IInv, SplitsNumbered, SameSplits
<1>9. NothingMade'
  BY <1>2 DEF IInv, NothingMade
<1>10. KnowsItsOwn'
  <2>1. ASSUME step \in Making PROVE \A j \in SplitOf(split) : j # i /\ children'[j] = children[j]
    BY <1>2, <1>3, <2>1 DEF IInv, KnowsItsOwn
  <2> QED
    BY <1>2, <1>4, <2>1 DEF IInv, KnowsItsOwn
<1>11. ReleasesItsOwn'
  <2>1. PICK s : s = split
    OBVIOUS
  <2>2. Complete(split) => Complete(split)'
    BY <1>6, <2>1
  <2> QED
    BY <1>2, <2>2 DEF IInv, ReleasesItsOwn
<1>12. split <= split /\ requeues <= requeues
  BY DEF IInv, TypeOK, SplitTyped
<1>13. SplitOnce' /\ Umbrellas' /\ FinishedStays' /\ InBuildOrder'
  BY <1>1, <1>3, <1>12, KeepsSplitOnce, KeepsUmbrellas, KeepsFinished, KeepsInBuildOrder DEF IInv
<1>14. FreeWhenComplete'
  <2>1. ASSUME NEW j \in DOMAIN children, Free(j)', NEW s, s = children[j].split PROVE Complete(s)'
    BY <1>5, <1>6, <2>1 DEF IInv, FreeWhenComplete
  <2> QED
    BY <1>1, <1>5, <2>1 DEF IInv, FreeWhenComplete, SameSplits
<1>15. ByHandAll'
  <2>1. step # "off" => \A j \in SplitOf(split) : ~ children[j].byHand
    BY DEF IInv, ByHandAll
  <2>2. \A j \in DOMAIN children : children[j].held => j # i
    OBVIOUS
  <2>3. \A j \in DOMAIN children :
            children'[j].held /\ children'[j].state # "open" => ~ children'[j].linked
    BY <1>3, <2>2 DEF IInv, ByHandAll
  <2>4. ASSUME NEW k \in DOMAIN children, NEW j \in DOMAIN children,
               children[k].split = children[j].split, children[j].byHand, ~ children[k].byHand
        PROVE  children'[k].held /\ children'[k].state # "open"
    <3>1. children[k].held /\ children[k].state # "open"
      BY <2>4 DEF IInv, ByHandAll
    <3> QED
      BY <1>3, <2>2, <3>1
  <2> QED
    BY <1>1, <1>2, <1>3, <2>1, <2>3, <2>4 DEF ByHandAll, SameSplits
<1> QED
  BY <1>7, <1>8, <1>9, <1>10, <1>11, <1>13, <1>14, <1>15 DEF IInv

LEMMA NotPlannedStep == ASSUME IInv, TypeOK', NEW i \in DOMAIN children, NotPlanned(i) PROVE IInv'
<1>1. /\ children[i].state = "open" /\ ~ children[i].held
      /\ children' = [children EXCEPT ![i] = [children[i] EXCEPT !.state = "not_planned"]]
      /\ UNCHANGED <<issue, requeues, blocker, step, split, mine, left, looks, mishap>>
  BY DEF NotPlanned, Change, GitHub, splitVars
<1>2. Alters(i) /\ KeepsMark(i) /\ KeepsLinks(i) /\ children'[i].state = "not_planned"
  BY <1>1, CloseAlters DEF IInv, States
<1>3. SameSplits /\ Settled
  BY <1>1, <1>2, AltersSame DEF Alters, KeepsLinks, Settled
<1>4. \A j \in DOMAIN children : children'[j].state = "completed" /\ ~ children'[j].byHand =>
            children[j].state = "completed" /\ ~ children[j].byHand
  BY <1>2 DEF Alters
<1>5. BuiltInOrder'
  BY <1>1, <1>3, <1>4, KeepsBuiltInOrder DEF IInv
<1> QED
  BY <1>1, <1>2, <1>5, Closes

\* The child before one that may be built has landed, and the first
\* waits for what the issue waited for.
LEMMA BuiltNext ==
    ASSUME IInv, NEW i \in DOMAIN children, Free(i), children[i].state = "open",
           children[i].waits => blocker = "landed",
           children[i].after # 0 => children[children[i].after].state = "completed"
    PROVE  InTurn(i)
<1>1. /\ Complete(children[i].split) /\ SplitOnce /\ InBuildOrder /\ BuiltInOrder /\ TypeOK
      /\ ByHandAll
  BY DEF IInv, FreeWhenComplete
<1>2. i \in SplitOf(children[i].split) /\ \A s : \A j \in SplitOf(s) : j \in DOMAIN children /\ children[j].split = s
  BY DEF SplitOf
<1>3. \A j \in DOMAIN children : children[j].place \in Nat \ {0}
  BY <1>1, ChildTyped DEF Children
<1>4. CASE children[i].place = 1
  <2>1. Earlier(i) = {}
    BY <1>2, <1>3, <1>4 DEF Earlier
  <2>2. blocker # "open"
    BY <1>1, <1>4 DEF InBuildOrder
  <2> QED
    BY <2>1, <2>2 DEF InTurn
<1>5. CASE children[i].place # 1
  <2> DEFINE p == children[i].after
  <2>1. p # 0 /\ p \in SplitOf(children[i].split) /\ children[p].place = children[i].place - 1
    BY <1>1, <1>2, <1>3, <1>5 DEF Complete, InBuildOrder, Free
  <2>2. children[p].state = "completed"
    BY <2>1
  <2>3. p \in DOMAIN children /\ children[p].split = children[i].split
    BY <1>2, <2>1
  <2> HIDE DEF p
  <2>4. ASSUME NEW j \in Earlier(i), j # p
        PROVE  j \in Earlier(p)
    <3>1. /\ j \in DOMAIN children /\ children[j].split = children[i].split
          /\ children[j].place < children[i].place
      BY <1>2 DEF Earlier
    <3>2. children[j].place # children[p].place
      BY <1>1, <2>3, <2>4, <3>1 DEF SplitOnce
    <3>3. children[j].place < children[p].place
      BY <1>3, <2>1, <2>3, <3>1, <3>2
    <3> QED
      BY <1>2, <2>3, <3>1, <3>3 DEF Earlier, SplitOf
  <2>5. ~ children[p].byHand
    BY <1>1, <2>3 DEF ByHandAll, Free
  <2>6. InTurn(p)
    BY <1>1, <2>2, <2>3, <2>5, OrderSays DEF InOrder
  <2> QED
    BY <2>2, <2>4, <2>6 DEF InTurn
<1> QED
  BY <1>4, <1>5

LEMMA BuildStep == ASSUME IInv, TypeOK', NEW i \in DOMAIN children, Build(i) PROVE IInv'
<1>1. /\ children[i].state = "open" /\ ~ children[i].held
      /\ children[i].waits => blocker = "landed"
      /\ children[i].after # 0 => children[children[i].after].state = "completed"
      /\ children' = [children EXCEPT ![i] = [children[i] EXCEPT !.state = "completed"]]
      /\ UNCHANGED <<issue, requeues, blocker, step, split, mine, left, looks, mishap>>
  BY DEF Build, Change, GitHub, splitVars
<1>2. Alters(i) /\ KeepsMark(i) /\ KeepsLinks(i) /\ children'[i].state = "completed"
  BY <1>1, CloseAlters DEF IInv, States
<1>3. SameSplits /\ Settled
  BY <1>1, <1>2, AltersSame DEF Alters, KeepsLinks, Settled
<1>4. BuiltInOrder'
  <2>1. \A j \in DOMAIN children : Earlier(j)' = Earlier(j) /\ Earlier(j) \subseteq DOMAIN children
    BY <1>3, SameSplitOf DEF Earlier, SplitOf, SameSplits
  <2>2. ASSUME NEW j \in DOMAIN children, InTurn(j) PROVE InTurn(j)'
    <3>1. \A k \in Earlier(j) : children[k].state = "completed" => children'[k].state = "completed"
      BY <1>3, <2>1 DEF Settled
    <3> QED
      BY <1>1, <2>1, <2>2, <3>1 DEF InTurn
  <2>3. ~ children[i].byHand => InTurn(i)
    BY <1>1, BuiltNext DEF Free
  <2>4. InOrder
    BY OrderSays DEF IInv
  <2>5. \A j \in DOMAIN children : children'[j].byHand = children[j].byHand
            /\ (j # i => children'[j].state = children[j].state)
    BY <1>2 DEF Alters
  <2>6. \A j \in DOMAIN children : children'[j].state = "completed" /\ ~ children'[j].byHand => InTurn(j)
    BY <2>3, <2>4, <2>5 DEF InOrder
  <2>7. InOrder'
    BY <1>3, <2>2, <2>6 DEF InOrder, SameSplits
  <2> QED
    BY <2>7, OrderSaysNext
<1> QED
  BY <1>1, <1>2, <1>4, Closes

LEMMA DropStep == ASSUME IInv, TypeOK', NEW i \in DOMAIN children, Drop(i) PROVE IInv'
<1>1. /\ HandedBack /\ i \in SplitOf(split) /\ children[i].state = "open"
      /\ UNCHANGED <<issue, requeues, blocker, step, split, mine, left, looks, mishap>>
  BY DEF Drop, Change, GitHub, splitVars
<1>2. /\ Alters(i) /\ KeepsMark(i) /\ children'[i].state = "not_planned"
      /\ ~ children'[i].linked /\ children'[i].after = children[i].after
  BY DropAlters DEF IInv
<1>3. step = "off" /\ "partial" \in issue.comments
  BY <1>1 DEF HandedBack
<1>4. SameSplits /\ Settled
  BY <1>1, <1>2, AltersSame DEF Alters, Settled
<1>5. \A s : SplitOf(s)' = SplitOf(s) /\ SplitOf(s) \subseteq DOMAIN children
            /\ \A j \in SplitOf(s) : children[j].split = s
  BY <1>4, SameSplitOf DEF SplitOf
<1>6. /\ \A j \in DOMAIN children : /\ children'[j].after = children[j].after
                                    /\ children'[j].byHand = children[j].byHand
                                    /\ children'[j].held = children[j].held
      /\ \A j \in DOMAIN children \ {i} : children'[j] = children[j]
      /\ DOMAIN children' = DOMAIN children
  BY <1>2 DEF Alters, KeepsMark
<1>7. \A j \in DOMAIN children : Free(j) <=> Free(j)'
  BY <1>6 DEF Free
<1>8. MarkTells' /\ HandBacksSayWhy'
  BY <1>1 DEF IInv, MarkTells, HandBacksSayWhy
<1>9. SplitsNumbered'
  BY <1>1, <1>4 DEF IInv, SplitsNumbered, SameSplits
<1>10. NothingMade' /\ KnowsItsOwn' /\ MadeSoFar' /\ ReleasesItsOwn'
  BY <1>1, <1>3 DEF NothingMade, KnowsItsOwn, MadeSoFar, ReleasesItsOwn, Unmarked, Making
<1>11. split <= split /\ requeues <= requeues
  BY DEF IInv, TypeOK, SplitTyped
<1>12. \A j \in DOMAIN children : children'[j].state = "completed" => children[j].state = "completed"
  BY <1>2, <1>6
<1>13. SplitOnce' /\ Umbrellas' /\ FinishedStays' /\ InBuildOrder' /\ BuiltInOrder'
  BY <1>1, <1>4, <1>6, <1>11, <1>12, KeepsSplitOnce, KeepsUmbrellas, KeepsFinished,
     KeepsInBuildOrder, KeepsBuiltInOrder DEF IInv
<1>14. FreeWhenComplete'
  <2>1. ASSUME NEW j \in DOMAIN children, Free(j)', NEW s, s = children[j].split
        PROVE  Complete(s)' /\ s # split
    <3>1. Complete(s) /\ s # split
      BY <1>3, <1>7, <2>1 DEF IInv, FreeWhenComplete
    <3>2. \A k \in SplitOf(s) : k # i
      BY <1>1, <1>5, <3>1
    <3>3. \A k \in SplitOf(s) : Chained(k) => Chained(k)'
      BY <1>5, <1>6, <3>2 DEF Chained
    <3>4. issue.umbrellaOf \subseteq issue'.umbrellaOf
      BY <1>1
    <3> QED
      BY <1>4, <3>1, <3>3, <3>4, KeepsComplete
  <2> QED
    BY <1>1, <1>4, <2>1 DEF FreeWhenComplete, SameSplits
<1>15. ByHandAll'
  <2>1. \A j \in DOMAIN children :
            children'[j].held /\ children'[j].state # "open" => ~ children'[j].linked
    BY <1>2, <1>6 DEF IInv, ByHandAll
  <2>2. ASSUME NEW k \in DOMAIN children, NEW j \in DOMAIN children,
               children[k].split = children[j].split, children[j].byHand, ~ children[k].byHand
        PROVE  children'[k].held /\ children'[k].state # "open"
    <3>1. children[k].held /\ children[k].state # "open"
      BY <2>2 DEF IInv, ByHandAll
    <3> QED
      BY <1>1, <1>6, <3>1
  <2> QED
    BY <1>1, <1>3, <1>4, <1>6, <2>1, <2>2 DEF ByHandAll, SameSplits
<1> QED
  BY <1>8, <1>9, <1>10, <1>13, <1>14, <1>15 DEF IInv

LEMMA FinishByHandStep == ASSUME IInv, TypeOK', FinishByHand PROVE IInv'
<1>1. /\ HandedBack /\ issue' = Labelled({}, {Queue})
      /\ UNCHANGED <<requeues, blocker, step, split, mine, left, looks, mishap>>
  BY DEF FinishByHand, GitHub, splitVars
<1>2. /\ issue'.labels = issue.labels \ {Queue} /\ issue'.comments = issue.comments
      /\ issue'.umbrellaOf = issue.umbrellaOf /\ issue'.open = issue.open
  <2>1. TypeOK /\ {} \in SUBSET Labels
    BY DEF IInv
  <2>2. Labelled({}, {Queue}).labels = issue.labels \ {Queue}
    BY <2>1, LabelledRecord
  <2> QED
    BY <1>1, <2>1, <2>2, LabelledRecord
<1>3. step = "off" /\ "partial" \in issue.comments
  BY <1>1 DEF HandedBack
<1>4. /\ DOMAIN children' = DOMAIN children
      /\ \A i \in DOMAIN children :
            \/ children'[i] = children[i] /\ (i \notin SplitOf(split) \/ children[i].state # "open")
            \/ /\ i \in SplitOf(split) /\ children[i].state = "open" /\ children'[i].state = "open"
               /\ children'[i].split = split /\ children'[i].place = children[i].place
               /\ children'[i].waits = children[i].waits
               /\ children'[i].linked /\ ~ children'[i].held /\ children'[i].byHand
  BY FinishesByHand DEF IInv
<1>5. \A s : SplitOf(s) \subseteq DOMAIN children /\ \A i \in SplitOf(s) : children[i].split = s
  BY DEF SplitOf
<1>6. SameSplits /\ Settled
  BY <1>4, <1>5 DEF SameSplits, Settled
<1>7. \A s : SplitOf(s)' = SplitOf(s)
  BY <1>6, SameSplitOf
<1>8. \A i \in DOMAIN children : ~ children'[i].byHand =>
            children'[i] = children[i] /\ (i \notin SplitOf(split) \/ children[i].state # "open")
  BY <1>4
<1>9. \A i \in DOMAIN children : Free(i) => children[i].split # split
  BY <1>3 DEF IInv, FreeWhenComplete
<1>10. MarkTells' /\ HandBacksSayWhy'
  BY <1>1, <1>2 DEF IInv, MarkTells, HandBacksSayWhy, Queue
<1>11. SplitsNumbered'
  BY <1>1, <1>2, <1>6 DEF IInv, SplitsNumbered, SameSplits
<1>12. NothingMade' /\ KnowsItsOwn' /\ MadeSoFar' /\ ReleasesItsOwn'
  BY <1>1, <1>3 DEF NothingMade, KnowsItsOwn, MadeSoFar, ReleasesItsOwn, Unmarked, Making
<1>13. split <= split /\ requeues <= requeues /\ (Queue \in issue'.labels => Queue \in issue.labels)
  BY <1>2 DEF IInv, TypeOK, SplitTyped
<1>14. SplitOnce' /\ Umbrellas' /\ FinishedStays' /\ InBuildOrder' /\ BuiltInOrder'
  BY <1>1, <1>2, <1>6, <1>8, <1>13, KeepsSplitOnce, KeepsUmbrellas, KeepsFinished,
     KeepsInBuildOrder, KeepsBuiltInOrder DEF IInv
<1>15. FreeWhenComplete'
  <2>1. ASSUME NEW j \in DOMAIN children, Free(j)', NEW s, s = children[j].split
        PROVE  Complete(s)' /\ s # split
    <3>1. Free(j)
      BY <1>8, <2>1 DEF Free
    <3>2. Complete(s) /\ s # split
      BY <1>9, <2>1, <3>1 DEF IInv, FreeWhenComplete
    <3>3. \A k \in SplitOf(s) : children'[k] = children[k]
      BY <1>4, <1>5, <3>2
    <3>4. \A k \in SplitOf(s) : Chained(k) => Chained(k)'
      BY <3>3 DEF Chained
    <3>5. issue.umbrellaOf \subseteq issue'.umbrellaOf
      BY <1>2
    <3> QED
      BY <1>6, <3>2, <3>4, <3>5, KeepsComplete
  <2> QED
    BY <1>1, <1>6, <2>1 DEF FreeWhenComplete, SameSplits
<1>16. ByHandAll'
  <2>1. \A j \in DOMAIN children :
            children'[j].held /\ children'[j].state # "open" => ~ children'[j].linked
    BY <1>4 DEF IInv, ByHandAll
  <2>2. ASSUME NEW k \in DOMAIN children, NEW j \in DOMAIN children,
               children[k].split = children[j].split, children'[j].byHand, ~ children'[k].byHand
        PROVE  children'[k].held /\ children'[k].state # "open"
    <3>1. children'[k] = children[k] /\ (k \notin SplitOf(split) \/ children[k].state # "open")
      BY <1>8, <2>2
    <3>2. CASE children[k].split = split
      BY <1>9, <2>2, <3>1, <3>2 DEF SplitOf, Free
    <3>3. CASE children[k].split # split
      <4>1. children'[j] = children[j]
        BY <1>4, <1>5, <2>2, <3>3
      <4> QED
        BY <2>2, <3>1, <4>1 DEF IInv, ByHandAll
    <3> QED
      BY <3>2, <3>3
  <2> QED
    BY <1>1, <1>3, <1>6, <2>1, <2>2 DEF ByHandAll, SameSplits
<1> QED
  BY <1>10, <1>11, <1>12, <1>14, <1>15, <1>16 DEF IInv

LEMMA CloseCalm ==
    ASSUME IInv, closeFinishedUmbrellas PROVE Calm /\ MarkTells' /\ HandBacksSayWhy'
<1>1. /\ UNCHANGED <<children, blocker, step, split, mine, left, requeues, mishap>>
      /\ \/ isUmbrella /\ looks' = "labels" /\ issue' = issue
         \/ looks = "labels" /\ looks' = "subIssues" /\ issue' = issue
         \/ looks = "subIssues" /\ Finished /\ looks' = "close" /\ issue' = issue
         \/ looks = "close" /\ looks' = "off" /\ issue' = [issue EXCEPT !.open = FALSE]
  BY DEF closeFinishedUmbrellas, closeIssueAsCompleted, splitVars
<1>2. /\ issue'.labels = issue.labels /\ issue'.comments = issue.comments
      /\ issue'.umbrellaOf = issue.umbrellaOf
      /\ issue' = issue \/ (looks = "close" /\ looks' = "off")
  BY <1>1 DEF IInv, TypeOK, IssueTyped
<1>3. FinishedStays'
  <2>1. \A s : Done(s)' <=> Done(s)
    BY <1>1 DEF Done, SplitOf
  <2>2. looks' # "off" => issue.umbrellaOf # {}
    BY <1>1 DEF IInv, FinishedStays, isUmbrella
  <2>3. Finished => \A s : Done(s)
    BY DEF Finished, subIssues, Done, SplitOf
  <2>4. looks' = "close" \/ ~ issue'.open => \E s \in issue.umbrellaOf : Done(s)
    BY <1>1, <1>2, <2>2, <2>3 DEF IInv, FinishedStays
  <2> QED
    BY <1>2, <2>1, <2>2, <2>4 DEF FinishedStays
<1>4. requeues <= requeues
  BY DEF IInv, TypeOK, SplitTyped
<1>5. Calm
  BY <1>1, <1>2, <1>3, <1>4 DEF Calm, Follows
<1>6. MarkTells' /\ HandBacksSayWhy'
  BY <1>1, <1>2 DEF IInv, MarkTells, HandBacksSayWhy
<1> QED
  BY <1>5, <1>6

-----------------------------------------------------------------------------
(* The invariant holds, and what it says.                                    *)

LEMMA InitInv == ASSUME Init PROVE IInv
<1>1. /\ issue = [labels |-> {Queue}, comments |-> {}, umbrellaOf |-> {}, open |-> TRUE]
      /\ children = <<>> /\ step = "off" /\ split = 0 /\ requeues = 0 /\ looks = "off"
  BY DEF Init
<1>2. DOMAIN children = {} /\ \A s : SplitOf(s) = {}
  BY <1>1 DEF SplitOf
<1>3. TypeOK
  <2>1. IssueTyped
    BY <1>1 DEF IssueTyped, Labels
  <2>2. children \in Seq(Children)
    BY <1>1
  <2>3. SplitTyped
    BY DEF Init, SplitTyped, Steps
  <2>4. OthersTyped
    BY DEF Init, OthersTyped
  <2> QED
    BY <2>1, <2>2, <2>3, <2>4 DEF TypeOK
<1>4. MarkTells /\ HandBacksSayWhy /\ SplitsNumbered
  BY <1>1, <1>2 DEF MarkTells, HandBacksSayWhy, SplitsNumbered, Unmarked, Making, Failing, Queue
<1>5. SplitOnce /\ NothingMade /\ KnowsItsOwn /\ MadeSoFar /\ ReleasesItsOwn
  BY <1>1, <1>2 DEF SplitOnce, NothingMade, KnowsItsOwn, MadeSoFar, ReleasesItsOwn, Unmarked, Making
<1>6. Umbrellas /\ FreeWhenComplete /\ ByHandAll /\ InBuildOrder /\ FinishedStays
  BY <1>1, <1>2 DEF Umbrellas, FreeWhenComplete, ByHandAll, InBuildOrder, FinishedStays
<1>7. BuiltInOrder
  BY <1>2, OrderSays DEF InOrder
<1> QED
  BY <1>3, <1>4, <1>5, <1>6, <1>7 DEF IInv

LEMMA StepInv == ASSUME IInv, [Next]_vars PROVE IInv'
<1>1. TypeOK'
  BY TypeStep DEF IInv
<1>2. CASE Ready \/ NeedsInfo \/ Mark \/ Unqueue \/ HandBack
  BY <1>1, <1>2, ReadyCalm, NeedsInfoCalm, MarkCalm, UnqueueCalm, HandBackCalm, CalmStep
<1>3. CASE Reread \/ BlockersOf \/ Crash \/ StaysOpen \/ BlockerLands
  BY <1>1, <1>3, QuietCalm, CalmStep
<1>4. CASE OtherRun \/ Requeue \/ TakeOff \/ closeFinishedUmbrellas
  BY <1>1, <1>4, OtherRunCalm, RequeueCalm, TakeOffCalm, CloseCalm, CalmStep
<1>5. CASE Judge \/ Create \/ Link \/ Chain \/ Umbrella \/ Release
  BY <1>1, <1>5, JudgeStep, CreateStep, LinkStep, ChainStep, UmbrellaStep, ReleaseStep
<1>6. CASE FinishByHand
  BY <1>1, <1>6, FinishByHandStep
<1>7. ASSUME NEW i \in DOMAIN children, Build(i) \/ Drop(i) \/ NotPlanned(i) \/ ByHand(i)
      PROVE  IInv'
  BY <1>1, <1>7, BuildStep, DropStep, NotPlannedStep, ByHandStep
<1>8. CASE UNCHANGED vars
  <2>1. requeues <= requeues
    BY DEF IInv, TypeOK, SplitTyped
  <2>2. Calm
    BY <1>8, <2>1 DEF vars, splitVars, Calm, Follows
  <2>3. MarkTells' /\ HandBacksSayWhy'
    BY <1>8 DEF vars, splitVars, IInv, MarkTells, HandBacksSayWhy
  <2> QED
    BY <1>1, <2>2, <2>3, CalmStep
<1> QED
  BY <1>2, <1>3, <1>4, <1>5, <1>6, <1>7, <1>8 DEF Next, applySplit, People

\* The inductive invariant holds, whatever fails, dies, or is done by people.
THEOREM InvHolds == Spec => []IInv
  BY InitInv, StepInv, PTL DEF Spec

LEMMA FreedComplete == ASSUME IInv PROVE HeldTillSplit
<1>1. ASSUME NEW i \in DOMAIN children, ~ children[i].held, ~ children[i].byHand
      PROVE  Complete(children[i].split) /\ (Queue \in issue.labels => requeues > children[i].split)
  <2>1. Complete(children[i].split)
    BY <1>1 DEF IInv, FreeWhenComplete, Free
  <2>2. children[i].split \in issue.umbrellaOf
    BY <2>1 DEF Complete
  <2> QED
    BY <2>1, <2>2 DEF IInv, Umbrellas
<1> QED
  BY <1>1 DEF HeldTillSplit

LEMMA ClosedDone == ASSUME IInv PROVE ClosesWhatIsDone
<1>1. ASSUME ~ issue.open
      PROVE  \E s \in issue.umbrellaOf : \A k \in 1..Drafts : \E i \in SplitOf(s) :
                children[i].place = k /\ (children[i].state = "completed" \/ ~ children[i].linked)
  <2>1. PICK s \in issue.umbrellaOf : Done(s)
    BY <1>1 DEF IInv, FinishedStays
  <2>2. \A k \in 1..Drafts : \E i \in SplitOf(s) : children[i].place = k
    BY DEF IInv, Umbrellas
  <2> QED
    BY <2>1, <2>2 DEF Done
<1> QED
  BY <1>1 DEF ClosesWhatIsDone

\* No child is built before its split has finished: one whose mark no person
\* took off is free only once all of them exist, are linked in order, and the
\* issue, not queued for the same split again, says it is their umbrella.
THEOREM HeldTillSplitHolds == Spec => []HeldTillSplit
<1>1. IInv => HeldTillSplit
  BY FreedComplete
<1> QED
  BY <1>1, InvHolds, PTL

\* Whatever fails or dies, no later round or run creates a draft of the same
\* split again.  The specification has one run splitting at a time: of two that
\* read the labels before either marked the issue it says nothing.
THEOREM SplitOnceHolds == Spec => []SplitOnce
<1>1. IInv => SplitOnce
  BY DEF IInv
<1> QED
  BY <1>1, InvHolds, PTL

\* The children are built in order, and none before what the issue waited for,
\* but past a child that a person closed as not planned.
THEOREM BuiltInOrderHolds == Spec => []BuiltInOrder
<1>1. IInv => BuiltInOrder
  BY DEF IInv
<1> QED
  BY <1>1, InvHolds, PTL

\* The issue is closed only as the umbrella of a split all of whose children
\* landed, those a person took out of it aside.
THEOREM ClosesWhatIsDoneHolds == Spec => []ClosesWhatIsDone
<1>1. IInv => ClosesWhatIsDone
  BY ClosedDone
<1> QED
  BY <1>1, InvHolds, PTL

\* An issue handed back says why, unless the run died or a second call failed.
THEOREM HandBacksSayWhyHolds == Spec => []HandBacksSayWhy
<1>1. IInv => HandBacksSayWhy
  BY DEF IInv
<1> QED
  BY <1>1, InvHolds, PTL

-----------------------------------------------------------------------------
(* The rounds.  First the least of a set of numbers, for recursive functions. *)

Below == {ss \in Nat \X Nat : ss[1] < ss[2]}

LEMMA LeastNat == ASSUME NEW T \in SUBSET Nat, T # {} PROVE \E x \in T : \A y \in T : x <= y
<1>1. IsWellFoundedOn(Below, Nat)
  BY NatLessThanWellFounded DEF OpToRel, Below
<1>2. PICK x \in T : \A y \in T : ~ (<<y, x>> \in Below)
  BY <1>1, WFMin
<1>3. \A y \in T : ~ (y < x)
  BY <1>2 DEF Below
<1> QED
  BY <1>3

-----------------------------------------------------------------------------
(* Every unjudged issue is in a batch.                                       *)

Coming(batches) == UNION {ToSet(batches[k]) : k \in DOMAIN batches}

LEMMA ComingSays ==
    ASSUME NEW batches, NEW i
    PROVE  i \in Coming(batches) <=>
                \E k \in DOMAIN batches : \E j \in DOMAIN batches[k] : batches[k][j] = i
  BY DEF Coming, ToSet

UnsettledAt(f, n) ==
    IF n = 0 THEN <<>> ELSE IF n \in settled THEN f[n - 1] ELSE Append(f[n - 1], n)

LEMMA UnsettledToExists ==
    ASSUME NEW n \in Nat
    PROVE  \E f : f = [m \in 0..n |-> UnsettledAt(f, m)]
<1> DEFINE Far(m) == \E f : f = [k \in 0..m |-> UnsettledAt(f, k)]
           T == {m \in Nat : ~ Far(m)}
<1>1. Far(0)
  <2> DEFINE none == [k \in 0..0 |-> <<>>]
  <2>1. \A k \in 0..0 : UnsettledAt(none, k) = <<>>
    BY DEF UnsettledAt
  <2>2. none = [k \in 0..0 |-> UnsettledAt(none, k)]
    BY <2>1
  <2> QED
    BY <2>2
<1>2. ASSUME NEW m \in Nat, Far(m) PROVE Far(m + 1)
  <2>1. PICK f : f = [k \in 0..m |-> UnsettledAt(f, k)]
    BY <1>2
  <2> DEFINE more == [k \in 0..m + 1 |-> IF k <= m THEN f[k] ELSE UnsettledAt(f, k)]
  <2>2. ASSUME NEW k \in 0..m + 1 PROVE UnsettledAt(more, k) = UnsettledAt(f, k)
    <3>1. CASE k = 0
      BY <3>1 DEF UnsettledAt
    <3>2. CASE k # 0
      <4>1. k - 1 \in 0..m + 1 /\ k - 1 <= m
        BY <3>2
      <4>2. more[k - 1] = f[k - 1]
        BY <4>1
      <4> QED
        BY <4>2 DEF UnsettledAt
    <3> QED
      BY <3>1, <3>2
  <2>3. ASSUME NEW k \in 0..m + 1 PROVE more[k] = UnsettledAt(f, k)
    <3>1. CASE k <= m
      <4>1. k \in 0..m
        BY <3>1
      <4> QED
        BY <2>1, <3>1, <4>1
    <3>2. CASE ~ (k <= m)
      BY <3>2
    <3> QED
      BY <3>1, <3>2
  <2>4. \A k \in 0..m + 1 : more[k] = UnsettledAt(more, k)
    BY <2>2, <2>3
  <2>5. more = [k \in 0..m + 1 |-> UnsettledAt(more, k)]
    BY <2>4
  <2> HIDE DEF more
  <2> QED
    BY <2>5
<1> HIDE DEF Far
<1>3. ASSUME T # {} PROVE FALSE
  <2>1. PICK m \in T : \A k \in T : m <= k
    BY <1>3, LeastNat
  <2>2. m # 0
    BY <1>1
  <2>3. m - 1 \in Nat /\ m - 1 \notin T
    BY <2>1, <2>2
  <2>4. Far(m - 1)
    BY <2>3
  <2>5. Far(m - 1 + 1) /\ m - 1 + 1 = m
    BY <1>2, <2>3, <2>4
  <2> QED
    BY <2>5
<1>4. Far(n)
  BY <1>3
<1> QED
  BY <1>4 DEF Far

LEMMA UnsettledToSays ==
    \A n \in 0..Queued : unsettledTo[n] = UnsettledAt(unsettledTo, n)
<1>1. unsettledTo = CHOOSE f : f = [n \in 0..Queued |-> UnsettledAt(f, n)]
  BY DEF unsettledTo, UnsettledAt
<1>2. unsettledTo = [n \in 0..Queued |-> UnsettledAt(unsettledTo, n)]
  BY <1>1, UnsettledToExists, CountsAssumption
<1> QED
  BY <1>2

LEMMA AppendToSet ==
    ASSUME NEW s \in Seq(Issues), NEW i \in Issues
    PROVE  Append(s, i) \in Seq(Issues) /\ ToSet(Append(s, i)) = ToSet(s) \cup {i}
<1>1. /\ Append(s, i) \in Seq(Issues) /\ Len(Append(s, i)) = Len(s) + 1
      /\ \A k \in 1..Len(s) : Append(s, i)[k] = s[k]
      /\ Append(s, i)[Len(s) + 1] = i
  BY AppendProperties
<1>2. DOMAIN Append(s, i) = 1..Len(s) + 1 /\ DOMAIN s = 1..Len(s) /\ Len(s) \in Nat
  BY <1>1
<1>3. \A k \in 1..Len(s) + 1 : k \in 1..Len(s) \/ k = Len(s) + 1
  BY <1>2
<1> QED
  BY <1>1, <1>2, <1>3 DEF ToSet

\* What nobody has judged, in the order of the issues.
LEMMA UnsettledHolds == Unsettled \in Seq(Issues) /\ ToSet(Unsettled) = Issues \ settled
<1> DEFINE Right(n) == unsettledTo[n] \in Seq(Issues) /\ ToSet(unsettledTo[n]) = (1..n) \ settled
           T == {n \in 0..Queued : ~ Right(n)}
<1>1. Right(0)
  <2>1. unsettledTo[0] = <<>>
    BY UnsettledToSays, CountsAssumption DEF UnsettledAt
  <2> QED
    BY <2>1 DEF ToSet
<1>2. ASSUME NEW n \in 1..Queued, Right(n - 1) PROVE Right(n)
  <2>1. unsettledTo[n] = IF n \in settled THEN unsettledTo[n - 1] ELSE Append(unsettledTo[n - 1], n)
    BY UnsettledToSays, CountsAssumption DEF UnsettledAt
  <2>2. n \in Issues /\ 1..n = (1..n - 1) \cup {n}
    BY CountsAssumption DEF Issues
  <2>3. CASE n \in settled
    BY <1>2, <2>1, <2>2, <2>3
  <2>4. CASE n \notin settled
    <3>1. /\ Append(unsettledTo[n - 1], n) \in Seq(Issues)
          /\ ToSet(Append(unsettledTo[n - 1], n)) = ToSet(unsettledTo[n - 1]) \cup {n}
      BY <1>2, <2>2, AppendToSet
    <3> QED
      BY <1>2, <2>1, <2>2, <2>4, <3>1
  <2> QED
    BY <2>3, <2>4
<1> HIDE DEF Right
<1>3. ASSUME T # {} PROVE FALSE
  <2> T \in SUBSET Nat
    BY CountsAssumption
  <2>1. PICK m \in T : \A k \in T : m <= k
    BY <1>3, LeastNat
  <2>2. m # 0
    BY <1>1
  <2>3. m \in 1..Queued /\ m - 1 \notin T /\ m - 1 \in 0..Queued
    BY <2>1, <2>2, CountsAssumption
  <2> QED
    BY <1>2, <2>1, <2>3
<1>4. Right(Queued)
  BY <1>3, CountsAssumption
<1> QED
  BY <1>4 DEF Right, Unsettled, Issues

\* A number's place among pieces of the batch size.
LEMMA PieceOf ==
    ASSUME NEW len \in Nat, NEW j \in 1..len
    PROVE  LET k == (j - 1) \div INTAKE_BATCH_SIZE + 1
           IN  /\ k \in 1..((len + INTAKE_BATCH_SIZE - 1) \div INTAKE_BATCH_SIZE)
               /\ (k - 1) * INTAKE_BATCH_SIZE + 1 <= j /\ j <= k * INTAKE_BATCH_SIZE
<1> DEFINE size == INTAKE_BATCH_SIZE
<1>1. size \in Nat \ {0}
  BY CountsAssumption
<1> HIDE DEF size
<1> DEFINE q == (j - 1) \div size
           n == (len + size - 1) \div size
<1>2. q \in Nat /\ size * q <= j - 1 /\ j - 1 < size * q + size
  BY <1>1
<1>3. len + size - 1 \in Nat
  BY <1>1
<1>4. n \in Nat /\ len + size - 1 < size * n + size
  BY <1>1, <1>3
<1> HIDE DEF q, n
<1>5. size * q < size * n
  BY <1>1, <1>2, <1>4
<1>6. q < n
  BY <1>1, <1>2, <1>4, <1>5
<1>7. (q + 1 - 1) * size + 1 <= j /\ j <= (q + 1) * size
  BY <1>1, <1>2
<1> QED
  BY <1>2, <1>4, <1>6, <1>7 DEF q, n, size

LEMMA MinOfTwo == ASSUME NEW a \in Int, NEW b \in Int PROVE Min({a, b}) = IF a <= b THEN a ELSE b
  BY DEF Min

LEMMA BatchesHold ==
    ASSUME NEW s \in Seq(Issues)
    PROVE  Batches(s) \in Seq(Seq(Issues)) /\ ToSet(s) \subseteq Coming(Batches(s))
<1> DEFINE size == INTAKE_BATCH_SIZE
           n == (Len(s) + size - 1) \div size
           last(k) == Min({k * size, Len(s)})
<1>1. size \in Nat \ {0} /\ Len(s) \in Nat /\ Len(s) + size - 1 \in Nat
  BY CountsAssumption
<1>2. n \in Nat
  <2> HIDE DEF size
  <2> QED
    BY <1>1
<1>3. ASSUME NEW k \in 1..n
      PROVE  last(k) \in Int /\ last(k) <= Len(s) /\ (k - 1) * size \in Nat
  <2> HIDE DEF size, n
  <2>1. k * size \in Nat /\ (k - 1) * size \in Nat
    BY <1>1, <1>2
  <2> QED
    BY <1>1, <2>1, MinOfTwo
<1>4. Batches(s) = [k \in 1..n |-> SubSeq(s, (k - 1) * size + 1, last(k))]
  BY DEF Batches
<1> HIDE DEF size, n, last
<1>5. ASSUME NEW k \in 1..n
      PROVE  /\ Batches(s)[k] \in Seq(Issues)
             /\ \A i \in (k - 1) * size + 1..last(k) :
                    /\ i - (k - 1) * size \in DOMAIN Batches(s)[k]
                    /\ Batches(s)[k][i - (k - 1) * size] = s[i]
  <2> DEFINE from == (k - 1) * size + 1
             to == last(k)
  <2>1. from \in Int /\ to \in Int /\ \A i \in from..to : i \in 1..Len(s) /\ s[i] \in Issues
    BY <1>1, <1>3
  <2>2. Batches(s)[k] = SubSeq(s, from, to)
    BY <1>4
  <2>3. (k - 1) * size \in Int /\ from = (k - 1) * size + 1
    BY <1>3
  <2> DEFINE before == (k - 1) * size
  <2> HIDE DEF from, to
  <2>4. /\ SubSeq(s, from, to) \in Seq(Issues)
        /\ Len(SubSeq(s, from, to)) = IF from <= to THEN to - from + 1 ELSE 0
        /\ \A i \in 1..to - from + 1 : SubSeq(s, from, to)[i] = s[from + i - 1]
    BY <2>1, SubSeqProperties
  <2>5. before \in Int /\ from = before + 1
    BY <2>3
  <2> HIDE DEF before
  <2>6. ASSUME NEW i \in from..to
        PROVE  /\ i - before \in DOMAIN SubSeq(s, from, to)
               /\ SubSeq(s, from, to)[i - before] = s[i]
    <3>1. i - before \in 1..to - from + 1 /\ from + (i - before) - 1 = i /\ from <= to
      BY <2>1, <2>5
    <3>2. SubSeq(s, from, to)[i - before] = s[from + (i - before) - 1]
      BY <2>4, <3>1
    <3>3. DOMAIN SubSeq(s, from, to) = 1..to - from + 1
      BY <2>4, <3>1
    <3> QED
      BY <3>1, <3>2, <3>3
  <2> QED
    BY <2>2, <2>4, <2>6 DEF from, to, before
<1>6. Batches(s) \in Seq(Seq(Issues)) /\ DOMAIN Batches(s) = 1..n
  BY <1>2, <1>4, <1>5
<1>7. ASSUME NEW j \in 1..Len(s) PROVE s[j] \in Coming(Batches(s))
  <2>1. PICK k \in 1..n : (k - 1) * size + 1 <= j /\ j <= k * size
    BY <1>1, PieceOf DEF n, size
  <2>2. j <= last(k)
    <3>1. k * size \in Int
      BY <1>1, <1>2
    <3> QED
      BY <1>1, <2>1, <3>1, MinOfTwo DEF last
  <2>3. j \in (k - 1) * size + 1..last(k)
    BY <1>3, <2>1, <2>2
  <2>4. j - (k - 1) * size \in DOMAIN Batches(s)[k] /\ Batches(s)[k][j - (k - 1) * size] = s[j]
    BY <1>5, <2>3
  <2> QED
    BY <1>6, <2>4, ComingSays
<1> QED
  BY <1>6, <1>7 DEF ToSet

-----------------------------------------------------------------------------
(* A failed batch is tried again in halves.                                  *)

LEMMA ComingTail ==
    ASSUME NEW batches \in Seq(Seq(Issues)), batches # <<>>
    PROVE  /\ Head(batches) \in Seq(Issues) /\ Tail(batches) \in Seq(Seq(Issues))
           /\ Coming(batches) \subseteq ToSet(Head(batches)) \cup Coming(Tail(batches))
<1>1. /\ Head(batches) \in Seq(Issues) /\ Tail(batches) \in Seq(Seq(Issues))
      /\ Len(Tail(batches)) = Len(batches) - 1
      /\ \A k \in 1..Len(Tail(batches)) : Tail(batches)[k] = batches[k + 1]
  BY HeadTailProperties
<1>2. ASSUME NEW k \in DOMAIN batches PROVE k = 1 \/ k - 1 \in DOMAIN Tail(batches)
  BY <1>1
<1>3. ASSUME NEW k \in DOMAIN batches, k - 1 \in DOMAIN Tail(batches)
      PROVE  Tail(batches)[k - 1] = batches[k]
  BY <1>1, <1>3
<1>4. batches[1] = Head(batches)
  OBVIOUS
<1> QED
  BY <1>1, <1>2, <1>3, <1>4 DEF Coming

LEMMA ComingBoth ==
    ASSUME NEW first \in Seq(Seq(Issues)), NEW rest \in Seq(Seq(Issues))
    PROVE  /\ first \o rest \in Seq(Seq(Issues))
           /\ Coming(first) \cup Coming(rest) \subseteq Coming(first \o rest)
<1>1. /\ first \o rest \in Seq(Seq(Issues)) /\ Len(first \o rest) = Len(first) + Len(rest)
      /\ \A k \in 1..Len(first) + Len(rest) :
            (first \o rest)[k] = IF k <= Len(first) THEN first[k] ELSE rest[k - Len(first)]
  BY ConcatProperties
<1>2. ASSUME NEW k \in DOMAIN first PROVE k \in DOMAIN (first \o rest) /\ (first \o rest)[k] = first[k]
  BY <1>1
<1>3. ASSUME NEW k \in DOMAIN rest
      PROVE  k + Len(first) \in DOMAIN (first \o rest) /\ (first \o rest)[k + Len(first)] = rest[k]
  BY <1>1
<1> QED
  BY <1>1, <1>2, <1>3 DEF Coming

LEMMA NarrowHolds ==
    ASSUME NEW batch \in Seq(Issues)
    PROVE  /\ narrow(batch) \in Seq(Seq(Issues))
           /\ Len(batch) # 1 => ToSet(batch) \subseteq Coming(narrow(batch))
<1> DEFINE middle == (Len(batch) + 1) \div 2
           low == SubSeq(batch, 1, middle)
           high == SubSeq(batch, middle + 1, Len(batch))
<1>1. middle \in Nat /\ Len(batch) \in Nat /\ middle <= Len(batch)
  OBVIOUS
<1>2. /\ low \in Seq(Issues) /\ Len(low) = middle
      /\ \A i \in 1..middle : low[i] = batch[i]
  <2> HIDE DEF middle
  <2>1. \A i \in 1..middle : batch[i] \in Issues
    BY <1>1
  <2>2. /\ low \in Seq(Issues) /\ Len(low) = IF 1 <= middle THEN middle - 1 + 1 ELSE 0
        /\ \A i \in 1..middle - 1 + 1 : low[i] = batch[1 + i - 1]
    BY <1>1, <2>1, SubSeqProperties
  <2> QED
    BY <1>1, <2>2
<1>3. /\ high \in Seq(Issues) /\ Len(high) = Len(batch) - middle
      /\ \A i \in 1..Len(batch) - middle : high[i] = batch[middle + i]
  <2> HIDE DEF middle
  <2>1. \A i \in middle + 1..Len(batch) : batch[i] \in Issues
    BY <1>1
  <2>2. /\ high \in Seq(Issues)
        /\ Len(high) = IF middle + 1 <= Len(batch) THEN Len(batch) - (middle + 1) + 1 ELSE 0
        /\ \A i \in 1..Len(batch) - (middle + 1) + 1 : high[i] = batch[middle + 1 + i - 1]
    BY <1>1, <2>1, SubSeqProperties
  <2> QED
    BY <1>1, <2>2
<1>4. narrow(batch) = IF Len(batch) = 1 THEN <<>> ELSE <<low, high>>
  BY DEF narrow
<1> HIDE DEF middle, low, high
<1>5. ASSUME NEW i \in DOMAIN batch
      PROVE  \/ i \in DOMAIN low /\ low[i] = batch[i]
             \/ i - middle \in DOMAIN high /\ high[i - middle] = batch[i]
  <2>1. CASE i <= middle
    BY <1>1, <1>2, <2>1
  <2>2. CASE ~ (i <= middle)
    BY <1>1, <1>3, <2>2
  <2> QED
    BY <2>1, <2>2
<1>6. ToSet(batch) \subseteq ToSet(low) \cup ToSet(high)
  BY <1>5 DEF ToSet
<1>7. Coming(<<low, high>>) = ToSet(low) \cup ToSet(high)
  BY DEF Coming
<1>8. CASE Len(batch) = 1
  BY <1>4, <1>8
<1>9. CASE Len(batch) # 1
  <2>1. <<low, high>> \in Seq(Seq(Issues))
    BY <1>2, <1>3
  <2> QED
    BY <1>4, <1>6, <1>7, <1>9, <2>1
<1> QED
  BY <1>8, <1>9

-----------------------------------------------------------------------------
(* The invariant.                                                            *)

IntakeTypeOK ==
    /\ breaking \in SUBSET Issues /\ settled \in SUBSET Issues /\ answered \in SUBSET Issues
    /\ flakes \in Nat /\ failedInARow \in Nat /\ refusedInARow \in Nat
    /\ todo \in Seq(Seq(Issues))
    /\ stopped \in {None, "failed", "refused", "uncounted"}

\* Issues left unjudged with a batch-mate: no verdict, not coming up, and yet
\* they do not break an answer by themselves.
Mates == ((Issues \ settled) \ (answered \cup Coming(todo))) \ breaking

IntakeInv == IntakeTypeOK /\ Isolates

LEMMA IsolatesSays == Isolates <=> (stopped = None => Cardinality(Mates) <= flakes)
  BY DEF Isolates, Mates, Coming

\* The batches of a round hold everybody nobody has judged.
LEMMA RoundHasAll ==
    /\ Batches(Unsettled) \in Seq(Seq(Issues))
    /\ Issues \ settled \subseteq Coming(Batches(Unsettled))
  BY UnsettledHolds, BatchesHold

LEMMA NobodyLost ==
    ASSUME flakes \in Nat, Mates = {}
    PROVE  Isolates
  BY FS_EmptySet, IsolatesSays

LEMMA NobodyMore ==
    ASSUME IntakeInv, flakes' = flakes, stopped' = stopped, Mates' \subseteq Mates
    PROVE  Isolates'
<1>1. IsFiniteSet(Mates)
  <2>1. Mates \subseteq Issues
    BY DEF Mates
  <2>2. IsFiniteSet(Issues)
    BY FS_Interval, CountsAssumption DEF Issues
  <2> QED
    BY <2>1, <2>2, FS_Subset
<1>2. Cardinality(Mates') <= Cardinality(Mates)
  BY <1>1, FS_Subset
<1>3. Cardinality(Mates) \in Nat /\ Cardinality(Mates') \in Nat
  BY <1>1, FS_Subset, FS_CardinalityType
<1> QED
  BY <1>2, <1>3, IsolatesSays DEF IntakeInv, IntakeTypeOK, Isolates, Mates, Coming

LEMMA IssuesFinite == IsFiniteSet(Issues)
  BY FS_Interval, CountsAssumption DEF Issues

\* A failed batch of one issue leaves that one out; any other leaves nobody out.
LEMMA FailedSays ==
    ASSUME IntakeTypeOK, todo # <<>>, Failed, stopped' = None, breaking' = breaking,
           NEW i \in Mates', i \notin Mates
    PROVE  Len(Head(todo)) = 1 /\ i = Head(todo)[1]
<1> DEFINE batch == Head(todo)
<1>1. /\ batch \in Seq(Issues) /\ Tail(todo) \in Seq(Seq(Issues))
      /\ Coming(todo) \subseteq ToSet(batch) \cup Coming(Tail(todo))
  BY ComingTail DEF IntakeTypeOK
<1>2. /\ todo' = narrow(batch) \o Tail(todo) /\ settled' = settled /\ answered' = answered
  BY CountsAssumption DEF Failed
<1>3. /\ narrow(batch) \in Seq(Seq(Issues))
      /\ Len(batch) # 1 => ToSet(batch) \subseteq Coming(narrow(batch))
  BY <1>1, NarrowHolds
<1>4. Coming(narrow(batch)) \cup Coming(Tail(todo)) \subseteq Coming(todo')
  BY <1>1, <1>2, <1>3, ComingBoth
<1>5. i \in Coming(todo) /\ i \notin Coming(todo')
  BY <1>2 DEF Mates
<1>6. i \in ToSet(batch) /\ Len(batch) = 1
  BY <1>1, <1>3, <1>4, <1>5
<1>7. i = batch[1]
  BY <1>1, <1>6 DEF ToSet
<1> QED
  BY <1>6, <1>7

\* A step of the types.
LEMMA FailedTyped ==
    ASSUME IntakeTypeOK, todo # <<>>, Failed
    PROVE  /\ settled' = settled /\ answered' = answered /\ refusedInARow' = refusedInARow
           /\ failedInARow' \in Nat /\ todo' \in Seq(Seq(Issues))
           /\ stopped' \in {stopped, "failed"}
<1> DEFINE batch == Head(todo)
<1>1. batch \in Seq(Issues) /\ Tail(todo) \in Seq(Seq(Issues))
  BY ComingTail DEF IntakeTypeOK
<1>2. narrow(batch) \o Tail(todo) \in Seq(Seq(Issues))
  BY <1>1, NarrowHolds, ComingBoth
<1>3. settled' = settled /\ answered' = answered /\ refusedInARow' = refusedInARow
  BY DEF Failed
<1>4. failedInARow' \in Nat
  BY DEF Failed, IntakeTypeOK
<1>5. \/ todo' = <<>> /\ stopped' = "failed"
      \/ todo' = narrow(batch) \o Tail(todo) /\ stopped' = stopped
  BY DEF Failed
<1>6. <<>> \in Seq(Seq(Issues))
  OBVIOUS
<1>7. todo' \in Seq(Seq(Issues)) /\ stopped' \in {stopped, "failed"}
  BY <1>2, <1>5, <1>6
<1> QED
  BY <1>3, <1>4, <1>7

LEMMA BreaksHolds == ASSUME IntakeInv, Breaks PROVE IntakeInv'
<1> USE DEF IntakeInv
<1>1. /\ todo # <<>> /\ breaking' = breaking /\ flakes' = flakes /\ Failed
      /\ ToSet(Head(todo)) \cap breaking # {}
  BY DEF Breaks, Run
<1>2. IntakeTypeOK'
  BY <1>1, FailedTyped DEF IntakeTypeOK
<1>3. ASSUME stopped' = None PROVE Mates' \subseteq Mates
  <2>1. ASSUME NEW i \in Mates', i \notin Mates PROVE FALSE
    <3>1. Len(Head(todo)) = 1 /\ i = Head(todo)[1]
      BY <1>1, <1>3, <2>1, FailedSays
    <3>2. Head(todo) \in Seq(Issues)
      BY <1>1, ComingTail DEF IntakeTypeOK
    <3>3. ToSet(Head(todo)) = {i}
      BY <3>1, <3>2 DEF ToSet
    <3>4. i \in breaking'
      BY <1>1, <3>3
    <3> QED
      BY <2>1, <3>4 DEF Mates
  <2> QED
    BY <2>1
<1>4. CASE stopped' = None
  <2>1. stopped' = stopped
    BY <1>1, <1>4, CountsAssumption DEF Failed
  <2>2. Isolates'
    BY <1>1, <1>3, <1>4, <2>1, NobodyMore
  <2> QED
    BY <1>2, <2>2
<1>5. CASE stopped' # None
  BY <1>2, <1>5 DEF Isolates
<1> QED
  BY <1>4, <1>5

LEMMA FlakesHolds == ASSUME IntakeInv, Flakes PROVE IntakeInv'
<1> USE DEF IntakeInv
<1>1. /\ todo # <<>> /\ breaking' = breaking /\ flakes' = flakes + 1 /\ Failed
  BY DEF Flakes, Run
<1>2. IntakeTypeOK'
  BY <1>1, FailedTyped DEF IntakeTypeOK
<1>3. CASE stopped' = None
  <2>1. stopped = None
    BY <1>1, <1>3, CountsAssumption DEF Failed
  <2>2. Mates' \subseteq Mates \cup {Head(todo)[1]}
    BY <1>1, <1>3, FailedSays
  <2>3. IsFiniteSet(Mates)
    BY IssuesFinite, FS_Subset DEF Mates
  <2>4. /\ IsFiniteSet(Mates \cup {Head(todo)[1]})
        /\ Cardinality(Mates \cup {Head(todo)[1]}) =
              IF Head(todo)[1] \in Mates THEN Cardinality(Mates) ELSE Cardinality(Mates) + 1
    BY <2>3, FS_AddElement
  <2>5. /\ Cardinality(Mates') <= Cardinality(Mates \cup {Head(todo)[1]})
        /\ IsFiniteSet(Mates')
    BY <2>2, <2>4, FS_Subset
  <2>6. Cardinality(Mates) \in Nat /\ Cardinality(Mates') \in Nat
    BY <2>3, <2>5, FS_CardinalityType
  <2>7. Cardinality(Mates) <= flakes
    BY <2>1, IsolatesSays
  <2>8. Cardinality(Mates') <= flakes'
    BY <1>1, <2>4, <2>5, <2>6, <2>7 DEF IntakeTypeOK
  <2> QED
    BY <1>2, <2>8 DEF Isolates, Mates, Coming
<1>4. CASE stopped' # None
  BY <1>2, <1>4 DEF Isolates
<1> QED
  BY <1>3, <1>4

LEMMA AnswersHolds == ASSUME IntakeInv, Answers PROVE IntakeInv'
<1> USE DEF IntakeInv
<1>1. todo # <<>> /\ breaking' = breaking /\ flakes' = flakes
  BY DEF Answers, Run
<1>2. PICK judged \in SUBSET ToSet(Head(todo)) :
        \E refused \in SUBSET (ToSet(Head(todo)) \ judged), applied \in BOOLEAN :
            Answered(judged, refused, applied)
  BY DEF Answers
<1>3. PICK refused \in SUBSET (ToSet(Head(todo)) \ judged), applied \in BOOLEAN :
        Answered(judged, refused, applied)
  BY <1>2
<1>4. /\ Head(todo) \in Seq(Issues) /\ Tail(todo) \in Seq(Seq(Issues))
      /\ Coming(todo) \subseteq ToSet(Head(todo)) \cup Coming(Tail(todo))
  BY <1>1, ComingTail DEF IntakeTypeOK
<1>5. ToSet(Head(todo)) \subseteq Issues
  BY <1>4 DEF ToSet
<1>6. /\ settled' = settled \cup judged /\ answered' = answered \cup ToSet(Head(todo))
      /\ failedInARow' = 0 /\ refusedInARow' = Refusals(applied, Cardinality(refused))
      /\ \/ stopped' = "refused" /\ todo' = <<>>
         \/ stopped' = stopped /\ todo' = Tail(todo)
  BY <1>3 DEF Answered
<1>7. refusedInARow' \in Nat
  BY <1>6 DEF Refusals, IntakeTypeOK
<1>8. IntakeTypeOK'
  <2>1. settled' \in SUBSET Issues /\ answered' \in SUBSET Issues /\ failedInARow' \in Nat
    BY <1>5, <1>6 DEF IntakeTypeOK
  <2>2. todo' \in Seq(Seq(Issues)) /\ stopped' \in {None, "failed", "refused", "uncounted"}
    <3>1. <<>> \in Seq(Seq(Issues))
      OBVIOUS
    <3>2. stopped \in {None, "failed", "refused", "uncounted"}
      BY DEF IntakeTypeOK
    <3> QED
      BY <1>4, <1>6, <3>1, <3>2
  <2> QED
    BY <1>1, <1>7, <2>1, <2>2 DEF IntakeTypeOK
<1>9. CASE stopped' = None
  <2>1. stopped' = stopped /\ todo' = Tail(todo)
    BY <1>6, <1>9, CountsAssumption
  <2>2. Mates' \subseteq Mates
    BY <1>1, <1>4, <1>6, <2>1 DEF Mates
  <2>3. Isolates'
    BY <1>1, <2>1, <2>2, NobodyMore
  <2> QED
    BY <1>8, <2>3
<1>10. CASE stopped' # None
  BY <1>8, <1>10 DEF Isolates
<1> QED
  BY <1>9, <1>10

LEMMA UncountedHolds == ASSUME IntakeInv, Uncounted PROVE IntakeInv'
<1>1. stopped' # None
  BY CountsAssumption DEF Uncounted
<1>2. IntakeTypeOK'
  BY DEF IntakeInv, IntakeTypeOK, Uncounted
<1> QED
  BY <1>1, <1>2 DEF IntakeInv, Isolates

LEMMA IntakeInitHolds == IntakeInit => IntakeInv
<1> SUFFICES ASSUME IntakeInit PROVE IntakeInv
  OBVIOUS
<1>1. /\ todo = Batches(Unsettled) /\ answered = {} /\ settled = {} /\ flakes = 0
      /\ failedInARow = 0 /\ refusedInARow = 0 /\ stopped = None
  BY DEF IntakeInit
<1>2. breaking \in SUBSET Issues
  BY DEF IntakeInit, kSubset
<1>3. IntakeTypeOK
  BY <1>1, <1>2, RoundHasAll DEF IntakeTypeOK
<1>4. Mates = {}
  BY <1>1, RoundHasAll DEF Mates
<1> QED
  BY <1>1, <1>3, <1>4, NobodyLost DEF IntakeInv

LEMMA IntakeRoundHolds == ASSUME IntakeInv, intakeRound PROVE IntakeInv'
<1>1. /\ todo' = Batches(Unsettled) /\ answered' = {} /\ settled' = settled /\ flakes' = flakes
      /\ failedInARow' = 0 /\ refusedInARow' = 0 /\ stopped' = None /\ breaking' = breaking
  BY DEF intakeRound
<1>2. IntakeTypeOK'
  BY <1>1, RoundHasAll DEF IntakeInv, IntakeTypeOK
<1>3. Mates' = {}
  BY <1>1, RoundHasAll DEF Mates
<1>4. Cardinality(Mates') <= flakes'
  BY <1>1, <1>3, FS_EmptySet DEF IntakeInv, IntakeTypeOK
<1> QED
  BY <1>2, <1>4 DEF IntakeInv, Isolates, Mates, Coming

LEMMA IntakeStep == ASSUME IntakeInv, [IntakeNext]_intakeVars PROVE IntakeInv'
<1>1. CASE intakeRound
  BY <1>1, IntakeRoundHolds
<1>2. CASE Breaks
  BY <1>2, BreaksHolds
<1>3. CASE Flakes
  BY <1>3, FlakesHolds
<1>4. CASE Answers
  BY <1>4, AnswersHolds
<1>5. CASE Uncounted
  BY <1>5, UncountedHolds
<1>6. CASE UNCHANGED intakeVars
  BY <1>6 DEF intakeVars, IntakeInv, IntakeTypeOK, Isolates
<1> QED
  BY <1>1, <1>2, <1>3, <1>4, <1>5, <1>6 DEF IntakeNext

\* Types, and nobody left out with a batch-mate (intakeRound, intake.mts:626).
THEOREM IntakeInvHolds == IntakeSpec => []IntakeInv
<1> QED
  BY IntakeInitHolds, IntakeStep, PTL DEF IntakeSpec

\* While a round goes on, what got no answer and is not coming up breaks answers
\* itself, one issue more at most for each run that failed by itself.
THEOREM IsolatesHolds == IntakeSpec => []Isolates
<1>1. IntakeInv => Isolates
  BY DEF IntakeInv
<1> QED
  BY <1>1, IntakeInvHolds, PTL
=============================================================================
