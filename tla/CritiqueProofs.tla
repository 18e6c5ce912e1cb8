-------------------------- MODULE CritiqueProofs --------------------------
(***************************************************************************)
(* The critique never closes a loop of "blocked by" links, for every set   *)
(* of issues, every round's picks and every order of verdicts, reads and   *)
(* failures, as long as a failed addBlockedBy left GitHub as it was.       *)
(***************************************************************************)
EXTENDS Critique, TLAPS

Relations == [Issues -> SUBSET Issues]

\* What an issue waits on through any chain holds the issue itself and, with
\* each of its members, what that member waits on: wouldCycle's walk is done
\* when there is nothing left to push.
LEMMA ReachClosed ==
    ASSUME NEW waitsOn \in Relations, NEW b \in Issues
    PROVE  /\ b \in Reach(waitsOn, b)
           /\ Reach(waitsOn, b) \subseteq Issues
           /\ \A x \in Reach(waitsOn, b) : waitsOn[x] \subseteq Reach(waitsOn, b)
<1>1. b \in Reach(waitsOn, b) /\ Reach(waitsOn, b) \subseteq Issues
  BY DEF Reach
<1>2. ASSUME NEW x \in Reach(waitsOn, b), NEW y \in waitsOn[x]
      PROVE  y \in Reach(waitsOn, b)
  <2>1. x \in Issues /\ y \in Issues
    BY <1>1, <1>2 DEF Relations
  <2>2. ASSUME NEW S \in SUBSET Issues, b \in S, \A z \in S : waitsOn[z] \subseteq S
        PROVE  y \in S
    <3>1. x \in S
      BY <2>2 DEF Reach
    <3>2. QED
      BY <1>2, <2>2, <3>1
  <2>3. QED
    BY <2>1, <2>2 DEF Reach
<1>3. QED
  BY <1>1, <1>2

\* Taking links away closes no loop.
LEMMA FewerLinks ==
    ASSUME NEW old, NEW new, SomeoneCanGo(old),
           \A n \in Issues : new[n] \subseteq old[n]
    PROVE  SomeoneCanGo(new)
<1>1. ASSUME NEW S \in SUBSET Issues \ {{}}
      PROVE  \E x \in S : new[x] \cap S = {}
  <2>1. PICK x \in S : old[x] \cap S = {}
    BY <1>1 DEF SomeoneCanGo
  <2>2. QED
    BY <1>1, <2>1
<1>2. QED
  BY <1>1 DEF SomeoneCanGo

\* The link the host adds when the walk from the blocker did not meet the
\* pick closes no loop, even if the walk saw links that are gone: a group
\* that meets the blocker's chain has a member there that waits on none of
\* it, and any other group a member that waits neither on it nor on the
\* blocker.
LEMMA LinkAfterWalk ==
    ASSUME NEW old \in Relations, NEW seen \in Relations,
           \A n \in Issues : old[n] \subseteq seen[n],
           SomeoneCanGo(old),
           NEW id \in Issues, NEW b \in Issues, id \notin Reach(seen, b)
    PROVE  SomeoneCanGo([old EXCEPT ![id] = @ \cup {b}])
<1> DEFINE new == [old EXCEPT ![id] = @ \cup {b}]
           C == Reach(seen, b)
<1>1. b \in C /\ C \subseteq Issues /\ \A x \in C : seen[x] \subseteq C
  BY ReachClosed
<1>2. ASSUME NEW S \in SUBSET Issues \ {{}}
      PROVE  \E x \in S : new[x] \cap S = {}
  <2>1. CASE S \cap C # {}
    <3>1. S \cap C \in SUBSET Issues \ {{}}
      BY <1>2, <2>1
    <3>2. PICK x \in S \cap C : old[x] \cap (S \cap C) = {}
      BY <3>1 DEF SomeoneCanGo
    <3>3. old[x] \subseteq C
      BY <1>1, <3>2
    <3>4. new[x] = old[x]
      BY <1>1, <3>2 DEF Relations
    <3>5. QED
      BY <3>2, <3>3, <3>4
  <2>2. CASE S \cap C = {}
    <3>1. PICK x \in S : old[x] \cap S = {}
      BY <1>2 DEF SomeoneCanGo
    <3>2. new[x] \subseteq old[x] \cup {b}
      BY <1>2, <3>1 DEF Relations
    <3>3. b \notin S
      BY <1>1, <2>2
    <3>4. QED
      BY <3>1, <3>2, <3>3
  <2>3. QED
    BY <2>1, <2>2
<1>3. QED
  BY <1>2 DEF SomeoneCanGo

\* A walk's reads are typed, and what they add to blockersOf was on GitHub.
LEMMA ReadKeepsSight ==
    ASSUME TypeOK, WalkSeesLinks, NEW seen \in SUBSET Issues, Read(seen), added' = added,
           \A n \in Issues : links'[n] \subseteq links[n]
    PROVE  /\ walked' \subseteq Issues /\ read' \in Relations
           /\ WalkSeesLinks'
<1>1. walked' \subseteq Issues /\ read' \in Relations
  BY DEF TypeOK, Read, Relations
<1>2. ASSUME NEW n \in Issues
      PROVE  links'[n] \subseteq blockersOf'[n]
  <2>1. links[n] \subseteq (IF n \in walked THEN read[n] ELSE links[n]) \cup added[n]
    BY DEF WalkSeesLinks, blockersOf
  <2>2. blockersOf'[n] = (IF n \in walked' THEN read'[n] ELSE links'[n]) \cup added'[n]
    BY DEF blockersOf
  <2>3. QED
    BY <2>1, <2>2 DEF Read
<1>3. QED
  BY <1>1, <1>2 DEF WalkSeesLinks

LEMMA InitInv == Init => IInv
  BY DEF Init, IInv, TypeOK, NoLoop, WalkSeesLinks, blockersOf

LEMMA StepInv ==
    ASSUME "applied" \notin AddErrors, IInv, [Next]_vars
    PROVE  IInv'
<1> USE DEF IInv
<1>1. ASSUME NEW id \in Issues, Keep(id)
      PROVE  IInv'
  BY <1>1 DEF Keep, Judging, TypeOK, NoLoop, WalkSeesLinks, blockersOf
<1>2. ASSUME NEW id \in Issues, NEW blocker \in Issues, IgnoreDefer(id, blocker)
      PROVE  IInv'
  <2>1. PICK seen \in SUBSET (Reach(blockersOf, blocker) \ {id}) : Read(seen)
    BY <1>2 DEF IgnoreDefer
  <2>2. seen \in SUBSET Issues
    BY <2>1 DEF Reach
  <2>3. UNCHANGED <<links, picks, added, judged, deferred>>
    BY <1>2 DEF IgnoreDefer
  <2>4. walked' \subseteq Issues /\ read' \in Relations /\ WalkSeesLinks'
    BY <2>1, <2>2, <2>3, ReadKeepsSight
  <2>5. QED
    BY <2>3, <2>4 DEF TypeOK, NoLoop, Relations
<1>3. ASSUME NEW id \in Issues, NEW blocker \in Issues, Defer(id, blocker)
      PROVE  IInv'
  <2> DEFINE R == Reach(blockersOf, blocker)
  <2>1. links \in Relations /\ blockersOf \in Relations
    BY DEF TypeOK, Relations, blockersOf
  <2>2. R \in SUBSET Issues /\ Read(R) /\ id \notin R /\ picks' = picks /\ id \in picks
    BY <1>3 DEF Defer, Reach, wouldCycle, Judging
  <2>3. CASE /\ links' = [links EXCEPT ![id] = @ \cup {blocker}]
             /\ added' = [added EXCEPT ![id] = @ \cup {blocker}]
             /\ judged' = judged \cup {id}
             /\ deferred' = deferred \cup {id}
    <3>1. NoLoop'
      <4>1. \A n \in Issues : links[n] \subseteq blockersOf[n]
        BY DEF WalkSeesLinks
      <4>2. SomeoneCanGo([links EXCEPT ![id] = @ \cup {blocker}])
        BY <2>1, <2>2, <4>1, LinkAfterWalk DEF NoLoop
      <4>3. QED
        BY <2>3, <4>2 DEF NoLoop
    <3>2. walked' \subseteq Issues /\ read' \in Relations
      BY <2>2 DEF TypeOK, Read, Relations
    <3>3. ASSUME NEW n \in Issues
          PROVE  links'[n] \subseteq blockersOf'[n]
      <4>1. links[n] \subseteq (IF n \in walked THEN read[n] ELSE links[n]) \cup added[n]
        BY DEF WalkSeesLinks, blockersOf
      <4>2. blockersOf'[n] = (IF n \in walked' THEN read'[n] ELSE links'[n]) \cup added'[n]
        BY DEF blockersOf
      <4>3. links[n] \subseteq (IF n \in walked' THEN read'[n] ELSE links'[n]) \cup added[n]
        BY <2>2, <2>3, <4>1 DEF Read, TypeOK
      <4>4. QED
        BY <2>3, <4>2, <4>3 DEF TypeOK
    <3>4. TypeOK'
      BY <2>2, <2>3, <3>2 DEF TypeOK, Relations
    <3>5. QED
      BY <3>1, <3>3, <3>4 DEF WalkSeesLinks
  <2>4. CASE UNCHANGED <<links, added, judged, deferred>>
    <3>1. walked' \subseteq Issues /\ read' \in Relations /\ WalkSeesLinks'
      BY <2>2, <2>4, ReadKeepsSight
    <3>2. QED
      BY <2>2, <2>4, <3>1 DEF TypeOK, NoLoop, Relations
  <2>5. QED
    BY <1>3, <2>3, <2>4 DEF Defer
<1>4. ASSUME NEW id \in Issues, NEW blocker \in Issues, Unlink(id, blocker)
      PROVE  IInv'
  <2>1. \A n \in Issues : links'[n] \subseteq links[n]
    BY <1>4 DEF Unlink, TypeOK
  <2>2. NoLoop'
    BY <2>1, FewerLinks DEF NoLoop
  <2>3. TypeOK'
    BY <1>4 DEF Unlink, TypeOK
  <2>4. ASSUME NEW n \in Issues
        PROVE  links'[n] \subseteq blockersOf'[n]
    <3>1. links[n] \subseteq (IF n \in walked THEN read[n] ELSE links[n]) \cup added[n]
      BY DEF WalkSeesLinks, blockersOf
    <3>2. blockersOf'[n] = (IF n \in walked THEN read[n] ELSE links'[n]) \cup added[n]
      BY <1>4 DEF Unlink, blockersOf
    <3>3. QED
      BY <2>1, <3>1, <3>2
  <2>5. QED
    BY <2>2, <2>3, <2>4 DEF WalkSeesLinks
<1>5. CASE UNCHANGED vars
  BY <1>5 DEF vars, TypeOK, NoLoop, WalkSeesLinks, blockersOf
<1>6. QED
  BY <1>1, <1>2, <1>3, <1>4, <1>5 DEF Next

\* No deferral ever closes a loop of "blocked by" links (critique.mts
\* #wouldCycle), provided a failed write left GitHub as it was.
THEOREM NeverALoop ==
    ASSUME "applied" \notin AddErrors
    PROVE  Spec => []NoLoop
<1>1. IInv /\ [Next]_vars => IInv'
  BY StepInv
<1>2. IInv => NoLoop
  BY DEF IInv
<1>3. QED
  BY InitInv, <1>1, <1>2, PTL DEF Spec
=============================================================================
