----------------------------- MODULE Critique -----------------------------
(***************************************************************************)
(* The plan critique's deferrals (.sandcastle/lib/critique.mts).  A second *)
(* model run judges the round's picks; its only power is to defer one      *)
(* behind another open issue, which the host saves as a "blocked by" link  *)
(* on GitHub.  The blocker gate then holds the pick back until the blocker *)
(* lands, so a loop of links would hold all its issues back for ever: the  *)
(* host walks the links before it adds one.                                *)
(*                                                                         *)
(* The walk reads each issue's links once a round and adds what the host   *)
(* linked since; meanwhile links come off GitHub (an owner overrides a     *)
(* deferral, a body is edited), and a read or a write can fail.            *)
(***************************************************************************)
EXTENDS FiniteSets

CONSTANTS
    Issues,     \* the open issues
    AddErrors   \* what a failing addBlockedBy can have done

\* A failed write either left GitHub as it was or had been applied anyway.
ASSUME AddErrorsAssumption == AddErrors \subseteq {"lost", "applied"}

VARIABLES
    links,     \* the issues each issue waits on, as GitHub and its body say
    picks,     \* the round's picks
    walked,    \* the issues whose links this round has read, for the walk
    read,      \* those links ({} for the issues not walked)
    added,     \* the links this round added
    judged,    \* the picks with a verdict
    deferred   \* the picks deferred

vars == <<links, picks, walked, read, added, judged, deferred>>

\* The issues b waits on, through any chain, and b itself.
Reach(waitsOn, b) ==
    {x \in Issues : \A S \in SUBSET Issues :
        b \in S /\ (\A y \in S : waitsOn[y] \subseteq S) => x \in S}

\* Every set of issues holds one that waits on none of them, so no loop of
\* links holds all its issues back.
SomeoneCanGo(waitsOn) ==
    \A S \in SUBSET Issues \ {{}} : \E x \in S : waitsOn[x] \cap S = {}

\* Mutant of blockersOf: the links added since an issue's links were read are
\* forgotten.
BlockersAsRead == [n \in Issues |-> IF n \in walked THEN read[n] ELSE links[n]]

\* What the walk takes n to wait on.
blockersOf == [n \in Issues |->
    (IF n \in walked THEN read[n] ELSE links[n]) \cup added[n]]

wouldCycle(id, blocker) == id \in Reach(blockersOf, blocker)

\* The walk has read the links of the issues in seen.
Read(seen) ==
    /\ walked' = walked \cup seen
    /\ read' = [n \in Issues |-> IF n \in seen \ walked THEN links[n] ELSE read[n]]

Init ==
    /\ links \in {waitsOn \in [Issues -> SUBSET Issues] : SomeoneCanGo(waitsOn)}
    /\ picks \in SUBSET Issues
    /\ walked = {}
    /\ read = [n \in Issues |-> {}]
    /\ added = [n \in Issues |-> {}]
    /\ judged = {}
    /\ deferred = {}

\* A verdict on an issue that was picked and has no verdict yet; any other is
\* ignored.
Judging(id) == id \in picks /\ id \notin judged

Keep(id) ==
    /\ Judging(id)
    /\ judged' = judged \cup {id}
    /\ UNCHANGED <<links, picks, walked, read, added, deferred>>

\* A defer that is not applied: its blocker waits on id, or part of the chain
\* could not be read.  What the walk did read stays read.
IgnoreDefer(id, blocker) ==
    /\ Judging(id)
    /\ \E seen \in SUBSET (Reach(blockersOf, blocker) \ {id}) :
          /\ wouldCycle(id, blocker) \/ ~(Reach(blockersOf, blocker) \subseteq walked \cup seen)
          /\ Read(seen)
    /\ UNCHANGED <<links, picks, added, judged, deferred>>

\* A defer is applied once its link is on GitHub; one GitHub won't link is
\* ignored, though the link may be there all the same.
Defer(id, blocker) ==
    /\ Judging(id)
    /\ ~wouldCycle(id, blocker)
    /\ Read(Reach(blockersOf, blocker))
    /\ \/ /\ links' = [links EXCEPT ![id] = @ \cup {blocker}]
          /\ added' = [added EXCEPT ![id] = @ \cup {blocker}]
          /\ judged' = judged \cup {id}
          /\ deferred' = deferred \cup {id}
       \/ /\ \/ "lost" \in AddErrors /\ UNCHANGED links
             \/ "applied" \in AddErrors /\ links' = [links EXCEPT ![id] = @ \cup {blocker}]
          /\ UNCHANGED <<added, judged, deferred>>
    /\ UNCHANGED picks

\* The owner overrides a link, or the text of an issue loses one.
Unlink(id, blocker) ==
    /\ blocker \in links[id]
    /\ links' = [links EXCEPT ![id] = @ \ {blocker}]
    /\ UNCHANGED <<picks, walked, read, added, judged, deferred>>

Next ==
    \E id \in Issues :
        \/ Keep(id)
        \/ \E blocker \in Issues :
               IgnoreDefer(id, blocker) \/ Defer(id, blocker) \/ Unlink(id, blocker)

Spec == Init /\ [][Next]_vars

-----------------------------------------------------------------------------

TypeOK ==
    /\ links \in [Issues -> SUBSET Issues]
    /\ picks \subseteq Issues
    /\ walked \subseteq Issues
    /\ read \in [Issues -> SUBSET Issues]
    /\ added \in [Issues -> SUBSET Issues]
    /\ judged \subseteq picks
    /\ deferred \subseteq judged

\* No deferral closes a loop of "blocked by" links, whatever was read when and
\* in whatever order the verdicts came: some issue of every group can be built.
NoLoop == SomeoneCanGo(links)

\* The walk misses no link that is on GitHub.
WalkSeesLinks == \A n \in Issues : links[n] \subseteq blockersOf[n]

IInv == TypeOK /\ NoLoop /\ WalkSeesLinks
=============================================================================
