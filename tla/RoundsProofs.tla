---------------------------- MODULE RoundsProofs ----------------------------
(***************************************************************************)
(* The overlap check's promises, for any picks and pull requests, and what *)
(* the round loop makes of them: Rounds' safety and action properties, for *)
(* any number of issues, rounds and pull requests.  Then what a round      *)
(* takes from the queue to begin with: QueueApproval's promises, for       *)
(* histories of any length.                                                *)
(*                                                                         *)
(* What a pick is held behind depends on what every earlier one is, so the *)
(* walk is a recursive function; that it exists is proved by taking the    *)
(* least number of picks for which it would not.                           *)
(***************************************************************************)
EXTENDS Rounds, QueueApproval, NaturalsInduction, WellFoundedInduction, FiniteSetTheorems,
        SequenceTheorems, TLAPS

-----------------------------------------------------------------------------
(* The least of a set of numbers.                                            *)

Below == {ss \in Nat \X Nat : ss[1] < ss[2]}

LEMMA BelowWellFounded == IsWellFoundedOn(Below, Nat)
  BY NatLessThanWellFounded DEF OpToRel, Below

LEMMA LeastNat == ASSUME NEW T \in SUBSET Nat, T # {} PROVE \E x \in T : \A y \in T : x <= y
<1>1. PICK x \in T : \A y \in T : ~ (<<y, x>> \in Below)
  BY BelowWellFounded, WFMin
<1>2. \A y \in T : ~ (y < x)
  BY <1>1 DEF Below
<1> QED
  BY <1>2

LEMMA LowestIsLeast ==
    ASSUME NEW T \in SUBSET Nat, T # {}
    PROVE  Lowest(T) \in T /\ \A y \in T : Lowest(T) <= y
  BY LeastNat DEF Lowest

-----------------------------------------------------------------------------
(* The overlap check.                                                        *)

\* A planner's picks, or some of them in their places: distinct issues.
Picks ==
    {picks \in UNION {[places -> [number : Issues, files : Seq(Paths)]] : places \in SUBSET (Nat \ {0})} :
        \A j, k \in DOMAIN picks : picks[j].number = picks[k].number => j = k}

PullRequests ==
    [number : Nat \ {0}, issue : Issues \cup {Nobody}, files : SUBSET Paths,
     state : {"open", "merged", "closed"}]

LEMMA PicksTyped ==
    ASSUME NEW picks \in Picks
    PROVE  /\ DOMAIN picks \subseteq Nat \ {0}
           /\ picks = [k \in DOMAIN picks |-> picks[k]]
           /\ \A k \in DOMAIN picks : picks[k].number \in Issues /\ picks[k].files \in Seq(Paths)
           /\ \A j, k \in DOMAIN picks : picks[j].number = picks[k].number => j = k
<1>1. PICK places \in SUBSET (Nat \ {0}) : picks \in [places -> [number : Issues, files : Seq(Paths)]]
  BY DEF Picks
<1>2. DOMAIN picks = places /\ picks = [k \in places |-> picks[k]]
  BY <1>1
<1>3. \A j, k \in DOMAIN picks : picks[j].number = picks[k].number => j = k
  BY DEF Picks
<1> QED
  BY <1>1, <1>2, <1>3

LEMMA SharesBothWays == ASSUME NEW x, NEW y PROVE sharesPath(x, y) <=> sharesPath(y, x)
  BY DEF sharesPath

\* A pick is held behind a claim or a pull request that shares a path with it,
\* and one that is not shares none.
LEMMA FirstOverlapSays ==
    ASSUME NEW picks \in Picks, NEW claimed \in SUBSET DOMAIN picks,
           NEW pullRequests \in SUBSET PullRequests, NEW files \in Seq(Paths),
           NEW overlap, overlap = firstOverlap(files, claimed, picks, pullRequests)
    PROVE  IF overlap = NoOverlap
           THEN /\ \A j \in claimed : ~ Clash(files, ToSet(picks[j].files))
                /\ \A pr \in pullRequests : ~ Clash(files, pr.files)
           ELSE \/ \E j \in claimed : overlap = BehindPick(picks[j].number)
                \/ \E pr \in pullRequests : overlap = BehindPR(pr.number)
<1> DEFINE claimsOn(path) == {j \in claimed : \E file \in ToSet(picks[j].files) : sharesPath(path, file)}
           changing(path) == {pr \in pullRequests : \E file \in pr.files : sharesPath(path, file)}
           hits == {k \in DOMAIN files : claimsOn(files[k]) # {} \/ changing(files[k]) # {}}
           path == files[Lowest(hits)]
           numbers == {pr.number : pr \in changing(path)}
<1>1. overlap = IF hits = {} THEN NoOverlap
                ELSE IF claimsOn(path) # {} THEN BehindPick(picks[Lowest(claimsOn(path))].number)
                ELSE BehindPR(Lowest(numbers))
  BY DEF firstOverlap
<1>2. /\ hits \subseteq Nat /\ \A p : claimsOn(p) \subseteq Nat /\ claimsOn(p) \subseteq claimed
      /\ numbers \subseteq Nat
  BY PicksTyped DEF PullRequests
<1>3. \A j, k : NoOverlap # BehindPick(j) /\ NoOverlap # BehindPR(j)
  BY DEF NoOverlap, BehindPick, BehindPR
<1>4. CASE hits = {}
  BY <1>1, <1>4 DEF Clash
<1>5. CASE hits # {} /\ claimsOn(path) # {}
  <2> HIDE DEF hits, path
  <2>1. Lowest(claimsOn(path)) \in claimed
    BY <1>2, <1>5, LowestIsLeast
  <2> QED
    BY <1>1, <1>3, <1>5, <2>1
<1>6. CASE hits # {} /\ claimsOn(path) = {}
  <2>1. Lowest(hits) \in hits
    BY <1>2, <1>6, LowestIsLeast
  <2>2. numbers # {}
    BY <1>6, <2>1
  <2> HIDE DEF hits, path
  <2>3. Lowest(numbers) \in numbers
    BY <1>2, <2>2, LowestIsLeast
  <2>4. \E pr \in pullRequests : Lowest(numbers) = pr.number
    BY <2>3
  <2> QED
    BY <1>1, <1>3, <1>6, <2>4
<1> QED
  BY <1>4, <1>5, <1>6

-----------------------------------------------------------------------------
(* The walk.                                                                 *)

Kept(picks, found, k) == {j \in withFiles(picks) : j < k /\ found[j] = NoOverlap}

FoundAt(picks, pullRequests, found, k) ==
    firstOverlap(picks[k].files, Kept(picks, found, k), picks, pullRequests)

\* The walk goes as far as there are picks.
LEMMA WalkExists ==
    ASSUME NEW picks \in Picks, NEW pullRequests, NEW n \in Nat, DOMAIN picks = 1..n
    PROVE  \E found : found = [k \in DOMAIN picks |-> FoundAt(picks, pullRequests, found, k)]
<1> DEFINE Far(m) == \E found : found = [k \in 1..m |-> FoundAt(picks, pullRequests, found, k)]
           T == {m \in Nat : ~ Far(m)}
<1>1. Far(0)
  <2>1. \A k \in 1..0 : FALSE
    OBVIOUS
  <2> DEFINE none == [k \in 1..0 |-> 0]
  <2>2. none = [k \in 1..0 |-> FoundAt(picks, pullRequests, none, k)]
    BY <2>1
  <2> QED
    BY <2>2
<1>2. ASSUME NEW m \in Nat, Far(m) PROVE Far(m + 1)
  <2>1. PICK found : found = [k \in 1..m |-> FoundAt(picks, pullRequests, found, k)]
    BY <1>2
  <2> DEFINE more == [k \in 1..m + 1 |-> IF k <= m THEN found[k]
                                          ELSE FoundAt(picks, pullRequests, found, k)]
  <2>2. ASSUME NEW k \in 1..m + 1 PROVE Kept(picks, more, k) = Kept(picks, found, k)
    <3>1. ASSUME NEW j \in withFiles(picks), j < k PROVE more[j] = found[j]
      <4>1. j \in 1..m
        BY <3>1 DEF withFiles
      <4> QED
        BY <4>1
    <3> HIDE DEF more
    <3> QED
      BY <3>1 DEF Kept
  <2>3. ASSUME NEW k \in 1..m + 1 PROVE more[k] = FoundAt(picks, pullRequests, more, k)
    <3>1. FoundAt(picks, pullRequests, more, k) = FoundAt(picks, pullRequests, found, k)
      <4> HIDE DEF more
      <4> QED
        BY <2>2 DEF FoundAt
    <3>2. CASE k <= m
      <4>1. k \in 1..m
        BY <3>2
      <4>2. found[k] = FoundAt(picks, pullRequests, found, k)
        BY <2>1, <4>1
      <4> QED
        BY <3>1, <3>2, <4>2
    <3>3. CASE ~ k <= m
      BY <3>1, <3>3
    <3> QED
      BY <3>2, <3>3
  <2>4. more = [k \in 1..m + 1 |-> FoundAt(picks, pullRequests, more, k)]
    BY <2>3
  <2> QED
    BY <2>4
<1> HIDE DEF Far
<1>3. T = {}
  <2> SUFFICES ASSUME T # {} PROVE FALSE
    OBVIOUS
  <2>1. PICK m \in T : \A y \in T : m <= y
    BY LeastNat
  <2>2. m # 0
    BY <1>1
  <2>3. m - 1 \in Nat /\ m - 1 \notin T
    BY <2>1, <2>2
  <2>4. Far(m - 1)
    BY <2>3
  <2>5. Far(m - 1 + 1) /\ m - 1 + 1 = m
    BY <1>2, <2>3, <2>4
  <2> QED
    BY <2>5
<1>4. Far(n)
  BY <1>3
<1> QED
  BY <1>4 DEF Far

LEMMA WalkSays ==
    ASSUME NEW picks \in Picks, NEW pullRequests, NEW n \in Nat, DOMAIN picks = 1..n,
           NEW found, found = walkPicks(picks, pullRequests)
    PROVE  \A k \in DOMAIN picks : found[k] = FoundAt(picks, pullRequests, found, k)
<1>1. found = CHOOSE f : f = [k \in DOMAIN picks |-> FoundAt(picks, pullRequests, f, k)]
  BY DEF walkPicks, FoundAt, Kept
<1>2. found = [k \in DOMAIN picks |-> FoundAt(picks, pullRequests, found, k)]
  BY <1>1, WalkExists
<1> QED
  BY <1>2

-----------------------------------------------------------------------------
(* What is held, and behind what.                                            *)

Claimed(picks, pullRequests) ==
    {k \in withFiles(picks) : walkPicks(picks, pullRequests)[k] = NoOverlap}

Blocker(picks, pullRequests) ==
    noFilesBlocker(picks, Claimed(picks, pullRequests), pullRequests)

OverlapAt(picks, pullRequests, k) ==
    IF picks[k].files # <<>> THEN walkPicks(picks, pullRequests)[k]
    ELSE IF Blocker(picks, pullRequests) = BehindPick(picks[k].number) THEN NoOverlap
    ELSE Blocker(picks, pullRequests)

HeldPicks(picks, pullRequests) ==
    {k \in DOMAIN picks : OverlapAt(picks, pullRequests, k) # NoOverlap}

\* Each pick is held behind what it overlaps.
LEMMA HoldsSay ==
    ASSUME NEW picks \in Picks, NEW pullRequests
    PROVE  LET held == HeldPicks(picks, pullRequests)
               holds == findOverlaps(picks, pullRequests)
           IN  /\ DOMAIN holds = {picks[k].number : k \in held}
               /\ \A k \in held : holds[picks[k].number] = OverlapAt(picks, pullRequests, k)
               /\ keptOf(picks, holds) = [k \in DOMAIN picks \ held |-> picks[k]]
<1> DEFINE held == HeldPicks(picks, pullRequests)
           holds == findOverlaps(picks, pullRequests)
           at(k) == OverlapAt(picks, pullRequests, k)
<1>1. holds = [n \in {picks[k].number : k \in held} |-> at(CHOOSE k \in held : picks[k].number = n)]
  BY DEF findOverlaps, Claimed, Blocker, OverlapAt, HeldPicks
<1>2. held \subseteq DOMAIN picks
  BY DEF HeldPicks
<1> HIDE DEF at, held, holds
<1>3. \A k \in held : (CHOOSE j \in held : picks[j].number = picks[k].number) = k
  BY <1>2, PicksTyped
<1>4. DOMAIN holds = {picks[k].number : k \in held}
  BY <1>1
<1>5. ASSUME NEW k \in held PROVE holds[picks[k].number] = at(k)
  <2>1. holds[picks[k].number] = at(CHOOSE j \in held : picks[j].number = picks[k].number)
    BY <1>1
  <2> QED
    BY <1>3, <2>1
<1>6. \A k \in DOMAIN picks : picks[k].number \in DOMAIN holds <=> k \in held
  BY <1>2, <1>4, PicksTyped
<1>7. {k \in DOMAIN picks : picks[k].number \notin DOMAIN holds} = DOMAIN picks \ held
  BY <1>6
<1>8. keptOf(picks, holds) = [k \in DOMAIN picks \ held |-> picks[k]]
  BY <1>7 DEF keptOf, Restrict
<1> QED
  BY <1>4, <1>5, <1>8 DEF at, held, holds

Disjoint(picks) ==
    \A j, k \in DOMAIN picks : j # k =>
        /\ picks[j].files # <<>>
        /\ ~Clash(picks[j].files, ToSet(picks[k].files))

\* What the overlap check promises: a pick is held behind one that is kept or
\* an open pull request, and the picks that are kept share no path with each
\* other or with an open pull request.
Promise(picks, pullRequests, holds, keeps) ==
    /\ DOMAIN holds \subseteq Numbers(picks)
    /\ DOMAIN keeps = {k \in DOMAIN picks : picks[k].number \notin DOMAIN holds}
    /\ \A k \in DOMAIN keeps : keeps[k] = picks[k]
    /\ keeps \in Picks
    /\ \A i \in DOMAIN holds :
         \/ \E k \in DOMAIN keeps : holds[i] = BehindPick(keeps[k].number)
         \/ \E pr \in pullRequests : holds[i] = BehindPR(pr.number)
    /\ Disjoint(keeps)
    /\ \A k \in DOMAIN keeps, pr \in pullRequests :
         keeps[k].files # <<>> /\ ~ Clash(keeps[k].files, pr.files)

LEMMA OverlapsSay ==
    ASSUME NEW picks \in Picks, NEW n \in Nat, DOMAIN picks = 1..n,
           NEW pullRequests \in SUBSET PullRequests,
           NEW holds, holds = findOverlaps(picks, pullRequests),
           NEW keeps, keeps = keptOf(picks, holds)
    PROVE  Promise(picks, pullRequests, holds, keeps)
<1> DEFINE found == walkPicks(picks, pullRequests)
           claimed == Claimed(picks, pullRequests)
           blocker == Blocker(picks, pullRequests)
           held == HeldPicks(picks, pullRequests)
           at(k) == OverlapAt(picks, pullRequests, k)
           noFiles == DOMAIN picks \ withFiles(picks)
<1>1. /\ DOMAIN holds = {picks[k].number : k \in held}
      /\ \A k \in held : holds[picks[k].number] = at(k)
      /\ keeps = [k \in DOMAIN picks \ held |-> picks[k]]
  BY HoldsSay
<1>2. \A k \in DOMAIN picks : found[k] = FoundAt(picks, pullRequests, found, k)
  BY WalkSays
<1>3. /\ DOMAIN picks \subseteq Nat \ {0}
      /\ \A k \in DOMAIN picks : picks[k].number \in Issues /\ picks[k].files \in Seq(Paths)
      /\ \A j, k \in DOMAIN picks : picks[j].number = picks[k].number => j = k
  BY PicksTyped
<1>4. /\ blocker = IF pullRequests # {} THEN BehindPR(Lowest({pr.number : pr \in pullRequests}))
                   ELSE IF claimed # {} THEN BehindPick(picks[Lowest(claimed)].number)
                   ELSE IF noFiles # {} THEN BehindPick(picks[Lowest(noFiles)].number)
                   ELSE NoOverlap
  BY DEF noFilesBlocker, Blocker
<1>5. \A k \in DOMAIN picks : at(k) = IF k \in withFiles(picks) THEN found[k]
                                      ELSE IF blocker = BehindPick(picks[k].number) THEN NoOverlap
                                      ELSE blocker
  BY DEF OverlapAt, withFiles
<1>6. held = {k \in DOMAIN picks : at(k) # NoOverlap}
  BY DEF HeldPicks
<1>7. claimed = {k \in withFiles(picks) : found[k] = NoOverlap} /\ withFiles(picks) \subseteq DOMAIN picks
  BY DEF Claimed, withFiles
<1>8. \A i, j : /\ BehindPick(i) = BehindPick(j) => i = j
                /\ BehindPR(i) # BehindPick(j) /\ BehindPick(i) # NoOverlap /\ BehindPR(i) # NoOverlap
  BY DEF BehindPick, BehindPR, NoOverlap
<1> HIDE DEF found, blocker, held, at
<1>9. claimed \subseteq DOMAIN picks \ held
  BY <1>5, <1>6, <1>7
<1>10. pullRequests # {} => \E pr \in pullRequests : blocker = BehindPR(pr.number)
  <2> DEFINE numbers == {pr.number : pr \in pullRequests}
  <2>1. ASSUME pullRequests # {} PROVE Lowest(numbers) \in numbers
    <3>1. numbers \subseteq Nat /\ numbers # {}
      BY <2>1 DEF PullRequests
    <3> HIDE DEF numbers
    <3> QED
      BY <3>1, LowestIsLeast
  <2> QED
    BY <1>4, <2>1
<1> HIDE DEF claimed, noFiles
<1>11. (claimed # {} => Lowest(claimed) \in claimed) /\ (noFiles # {} => Lowest(noFiles) \in noFiles)
  <2>1. claimed \subseteq Nat /\ noFiles \subseteq Nat
    BY <1>3, <1>9 DEF noFiles
  <2> QED
    BY <2>1, LowestIsLeast
\* A pick with files.
<1>12. ASSUME NEW k \in withFiles(picks)
       PROVE  IF k \notin held
              THEN /\ \A j \in claimed : j < k => ~ Clash(picks[k].files, ToSet(picks[j].files))
                   /\ \A pr \in pullRequests : ~ Clash(picks[k].files, pr.files)
              ELSE \/ \E j \in claimed : at(k) = BehindPick(picks[j].number)
                   \/ \E pr \in pullRequests : at(k) = BehindPR(pr.number)
  <2>1. /\ at(k) = firstOverlap(picks[k].files, Kept(picks, found, k), picks, pullRequests)
        /\ k \in DOMAIN picks
    BY <1>2, <1>5, <1>7 DEF FoundAt
  <2>2. Kept(picks, found, k) = {j \in claimed : j < k} /\ Kept(picks, found, k) \subseteq DOMAIN picks
    BY <1>7 DEF Kept
  <2>3. picks[k].files \in Seq(Paths)
    BY <1>3, <2>1
  <2>4. IF at(k) = NoOverlap
        THEN /\ \A j \in Kept(picks, found, k) : ~ Clash(picks[k].files, ToSet(picks[j].files))
             /\ \A pr \in pullRequests : ~ Clash(picks[k].files, pr.files)
        ELSE \/ \E j \in Kept(picks, found, k) : at(k) = BehindPick(picks[j].number)
             \/ \E pr \in pullRequests : at(k) = BehindPR(pr.number)
    <3>1. PICK files, before, overlap :
            /\ files = picks[k].files /\ before = Kept(picks, found, k) /\ overlap = at(k)
            /\ overlap = firstOverlap(files, before, picks, pullRequests)
      BY <2>1
    <3>2. files \in Seq(Paths) /\ before \in SUBSET DOMAIN picks
      BY <2>2, <2>3, <3>1
    <3> QED
      BY <3>1, <3>2, FirstOverlapSays
  <2> QED
    BY <1>6, <2>1, <2>2, <2>4
\* A pick without.
<1>13. ASSUME NEW k \in noFiles
       PROVE  IF k \notin held
              THEN pullRequests = {} /\ claimed = {} /\ k = Lowest(noFiles)
              ELSE \/ \E j \in DOMAIN picks \ held : at(k) = BehindPick(picks[j].number)
                   \/ \E pr \in pullRequests : at(k) = BehindPR(pr.number)
  <2>1. /\ k \in DOMAIN picks /\ k \notin withFiles(picks)
        /\ at(k) = IF blocker = BehindPick(picks[k].number) THEN NoOverlap ELSE blocker
    BY <1>5 DEF noFiles
  <2>2. CASE pullRequests # {}
    BY <1>6, <1>8, <1>10, <2>1, <2>2
  <2>3. CASE pullRequests = {} /\ claimed # {}
    <3>1. Lowest(claimed) \in withFiles(picks) /\ Lowest(claimed) \in DOMAIN picks \ held
      BY <1>7, <1>9, <1>11, <2>3
    <3>2. picks[Lowest(claimed)].number # picks[k].number
      BY <1>3, <2>1, <3>1
    <3>3. blocker = BehindPick(picks[Lowest(claimed)].number)
      BY <1>4, <2>3
    <3> QED
      BY <1>6, <1>8, <2>1, <3>1, <3>2, <3>3
  <2>4. CASE pullRequests = {} /\ claimed = {}
    <3> DEFINE first == Lowest(noFiles)
    <3>1. first \in noFiles /\ blocker = BehindPick(picks[first].number)
      BY <1>4, <1>11, <2>4
    <3>2. first \in DOMAIN picks /\ first \notin withFiles(picks)
      BY <3>1 DEF noFiles
    <3>3. first \in DOMAIN picks \ held
      BY <1>5, <1>6, <3>1, <3>2
    <3>4. picks[k].number = picks[first].number => k = first
      BY <1>3, <2>1, <3>2
    <3> HIDE DEF first
    <3>5. CASE k = first
      BY <2>4, <3>3, <3>5 DEF first
    <3>6. CASE k # first
      BY <1>6, <1>8, <2>1, <3>1, <3>3, <3>4, <3>6
    <3> QED
      BY <3>5, <3>6
  <2> QED
    BY <2>2, <2>3, <2>4
<1>14. DOMAIN keeps = DOMAIN picks \ held /\ \A k \in DOMAIN keeps : keeps[k] = picks[k]
  BY <1>1
<1>15. \A k \in DOMAIN picks : picks[k].number \in DOMAIN holds <=> k \in held
  BY <1>1, <1>3, <1>6
<1>16. \A k \in DOMAIN picks : k \in withFiles(picks) \/ k \in noFiles
  BY DEF noFiles
<1>17. ASSUME NEW i \in DOMAIN holds
       PROVE  \/ \E k \in DOMAIN keeps : holds[i] = BehindPick(keeps[k].number)
              \/ \E pr \in pullRequests : holds[i] = BehindPR(pr.number)
  <2>1. PICK k \in held : i = picks[k].number
    BY <1>1
  <2>2. holds[i] = at(k) /\ k \in DOMAIN picks
    BY <1>1, <1>6, <2>1
  <2>3. \/ \E j \in DOMAIN picks \ held : at(k) = BehindPick(picks[j].number)
        \/ \E pr \in pullRequests : at(k) = BehindPR(pr.number)
    BY <1>9, <1>12, <1>13, <1>16, <2>1, <2>2
  <2> QED
    BY <1>14, <2>2, <2>3
<1>18. ASSUME NEW k \in DOMAIN keeps, k \in noFiles PROVE DOMAIN keeps = {k} /\ pullRequests = {}
  <2>1. pullRequests = {} /\ claimed = {} /\ k = Lowest(noFiles)
    BY <1>13, <1>14, <1>18
  <2>2. ASSUME NEW j \in DOMAIN keeps PROVE j \in noFiles
    BY <1>5, <1>6, <1>7, <1>14, <1>16, <2>1
  <2>3. \A j \in DOMAIN keeps : j = Lowest(noFiles)
    BY <1>13, <1>14, <2>2
  <2> QED
    BY <2>1, <2>3
<1>19. ASSUME NEW k \in withFiles(picks) PROVE picks[k].files # <<>>
  BY DEF withFiles
<1>20. Disjoint(keeps)
  <2> SUFFICES ASSUME NEW j \in DOMAIN keeps, NEW k \in DOMAIN keeps, j # k
               PROVE  picks[j].files # <<>> /\ ~ Clash(picks[j].files, ToSet(picks[k].files))
    BY <1>14 DEF Disjoint
  <2>1. j \in withFiles(picks) /\ k \in withFiles(picks)
    BY <1>14, <1>16, <1>18
  <2>2. j \in claimed /\ k \in claimed
    BY <1>5, <1>6, <1>7, <1>14, <2>1
  <2>3. j < k \/ k < j
    BY <1>3, <1>14
  <2>4. Clash(picks[j].files, ToSet(picks[k].files)) <=> Clash(picks[k].files, ToSet(picks[j].files))
    BY SharesBothWays DEF Clash, ToSet
  <2> QED
    BY <1>12, <1>14, <1>19, <2>1, <2>2, <2>3, <2>4
<1>21. ASSUME NEW k \in DOMAIN keeps, NEW pr \in pullRequests
       PROVE  keeps[k].files # <<>> /\ ~ Clash(keeps[k].files, pr.files)
  <2>1. k \in withFiles(picks)
    BY <1>14, <1>16, <1>18
  <2> QED
    BY <1>12, <1>14, <1>19, <2>1
<1>22. DOMAIN holds \subseteq Numbers(picks)
  BY <1>1, <1>6 DEF Numbers
<1>23. keeps \in Picks
  <2>1. DOMAIN keeps \in SUBSET (Nat \ {0})
    BY <1>3, <1>14
  <2>2. \A k \in DOMAIN picks : picks[k] \in [number : Issues, files : Seq(Paths)]
    BY DEF Picks
  <2>3. keeps \in [DOMAIN keeps -> [number : Issues, files : Seq(Paths)]]
    BY <1>1, <1>14, <2>2
  <2>4. keeps \in UNION {[places -> [number : Issues, files : Seq(Paths)]] : places \in SUBSET (Nat \ {0})}
    BY <2>1, <2>3
  <2>5. \A j, k \in DOMAIN keeps : keeps[j].number = keeps[k].number => j = k
    BY <1>3, <1>14
  <2> QED
    BY <2>4, <2>5 DEF Picks
<1>24. DOMAIN keeps = {k \in DOMAIN picks : picks[k].number \notin DOMAIN holds}
  BY <1>14, <1>15
<1> QED
  BY <1>14, <1>17, <1>20, <1>21, <1>22, <1>23, <1>24 DEF Promise


-----------------------------------------------------------------------------
(* The inductive invariant of the round loop.                                *)

Typed ==
    /\ links \in [Issues -> SUBSET Issues]
    /\ open \subseteq Issues
    /\ phase \in {"top", "plan", "critique", "build", "ended"}
    /\ ready \subseteq Issues
    /\ kept \in Picks
    /\ DOMAIN settled \subseteq Numbers(kept)

\* The pull requests are numbered as they are opened.
Numbered ==
    /\ prs \subseteq PullRequests /\ IsFiniteSet(prs)
    /\ checkedAt \in Nat /\ checkedAt <= Cardinality(prs)
    /\ \A pr \in prs : pr.number <= Cardinality(prs)
    /\ \A pr, other \in prs : pr.number = other.number => pr = other

\* Nothing of a round is left when it is over.
Cleared ==
    /\ phase \in {"top", "plan", "ended"} => DOMAIN kept = {} /\ DOMAIN overlaps = {}
    /\ phase = "critique" => DOMAIN kept # {}
    /\ phase # "build" => DOMAIN settled = {}

\* Until the critique adds a link, no pick waits on an open issue.
NothingWaits ==
    /\ phase = "plan" => \A i \in ready : links[i] \cap open = {}
    /\ phase = "critique" => \A k \in DOMAIN kept : links[kept[k].number] \cap open = {}

\* What each held pick waits on.
HoldsBehind ==
    \A i \in DOMAIN overlaps :
        \/ \E j \in Issues : /\ overlaps[i] = BehindPick(j)
                             /\ phase = "critique" => j \in Numbers(kept)
        \/ \E pr \in prs : overlaps[i] = BehindPR(pr.number) /\ pr.number <= checkedAt

\* A build that published opened a pull request after the check.
Published ==
    \A i \in publishedIssues : \E pr \in prs : pr.issue = i /\ pr.number > checkedAt

IInv ==
    /\ Typed /\ Numbered /\ Cleared /\ NothingWaits /\ HoldsBehind /\ Published
    /\ BuildsDisjoint /\ BuildsClearOfPRs

LEMMA EmptyPicks == <<>> \in Picks /\ DOMAIN <<>> = {}
<1>1. DOMAIN <<>> = {}
  OBVIOUS
<1>2. <<>> \in [{} -> [number : Issues, files : Seq(Paths)]]
  OBVIOUS
<1>3. {} \in SUBSET (Nat \ {0})
  OBVIOUS
<1> QED
  BY <1>1, <1>2, <1>3 DEF Picks

\* Some of the picks, in their places.
LEMMA SomePicks ==
    ASSUME NEW picks \in Picks, NEW places \in SUBSET DOMAIN picks,
           NEW some, some = [k \in places |-> picks[k]]
    PROVE  some \in Picks /\ DOMAIN some = places
<1>1. \A k \in DOMAIN picks : picks[k] \in [number : Issues, files : Seq(Paths)]
  BY DEF Picks
<1>2. places \in SUBSET (Nat \ {0})
  BY PicksTyped
<1>3. some \in [places -> [number : Issues, files : Seq(Paths)]]
  BY <1>1
<1>4. \A j, k \in DOMAIN some : some[j].number = some[k].number => j = k
  BY PicksTyped
<1> QED
  BY <1>2, <1>3, <1>4 DEF Picks

LEMMA Initially == ASSUME Init PROVE IInv
<1>1. IsFiniteSet({}) /\ Cardinality({}) = 0
  BY FS_EmptySet
<1>2. Typed
  BY EmptyPicks DEF Init, Typed
<1>3. Numbered
  BY <1>1 DEF Init, Numbered
<1>4. Cleared /\ NothingWaits /\ HoldsBehind /\ Published
  BY EmptyPicks DEF Init, Cleared, NothingWaits, HoldsBehind, Published, publishedIssues
<1>5. BuildsDisjoint /\ BuildsClearOfPRs
  BY EmptyPicks DEF Init, BuildsDisjoint, BuildsClearOfPRs
<1> QED
  BY <1>2, <1>3, <1>4, <1>5 DEF IInv

\* One more pull request has the next number.
LEMMA OneMore ==
    ASSUME Numbered, NEW issue \in Issues \cup {Nobody}, NEW files \in ChangedFiles,
           prs' = WithPR(issue, files), UNCHANGED checkedAt
    PROVE  /\ Numbered'
           /\ prs \subseteq prs'
           /\ \A pr \in OpenPRs' : pr.number <= checkedAt' => pr \in OpenPRs
           /\ \E pr \in prs' : pr.issue = issue /\ pr.number > checkedAt'
<1> DEFINE n == Cardinality(prs)
           pr0 == [number |-> n + 1, issue |-> issue, files |-> files, state |-> "open"]
<1>1. n \in Nat
  BY FS_CardinalityType DEF Numbered
<1>2. prs' = prs \cup {pr0} /\ pr0 \in PullRequests
  BY <1>1, RoundsAssumption DEF WithPR, PullRequests
<1>3. pr0.number = n + 1 /\ pr0.issue = issue
  OBVIOUS
<1> HIDE DEF pr0
<1>4. \A pr \in prs : pr.number \in Nat /\ pr.number <= n
  BY DEF Numbered, PullRequests
<1>5. pr0 \notin prs
  BY <1>1, <1>3, <1>4
<1>6. IsFiniteSet(prs') /\ Cardinality(prs') = n + 1
  BY <1>2, <1>5, FS_AddElement DEF Numbered
<1> HIDE DEF n
<1>7. checkedAt \in Nat /\ checkedAt <= n /\ checkedAt' = checkedAt
  BY DEF Numbered, n
<1>8. Numbered'
  <2>1. prs' \subseteq PullRequests
    BY <1>2 DEF Numbered
  <2>2. checkedAt' \in Nat /\ checkedAt' <= Cardinality(prs')
    BY <1>1, <1>6, <1>7
  <2>3. \A pr \in prs' : pr.number <= Cardinality(prs')
    BY <1>1, <1>2, <1>3, <1>4, <1>6
  <2>4. \A pr, other \in prs' : pr.number = other.number => pr = other
    BY <1>1, <1>2, <1>3, <1>4 DEF Numbered
  <2> QED
    BY <1>6, <2>1, <2>2, <2>3, <2>4 DEF Numbered
<1>9. ASSUME NEW pr \in OpenPRs', pr.number <= checkedAt' PROVE pr \in OpenPRs
  BY <1>1, <1>2, <1>3, <1>7, <1>9 DEF OpenPRs
<1>10. pr0 \in prs' /\ pr0.issue = issue /\ pr0.number > checkedAt'
  BY <1>1, <1>2, <1>3, <1>7
<1> QED
  BY <1>2, <1>8, <1>9, <1>10

\* A round that is over leaves nothing behind.
LEMMA Over ==
    ASSUME IInv, phase' \in {"top", "ended"}, ready' = {}, kept' = <<>>, overlaps' = <<>>,
           checkedAt' = 0, settled' = <<>>, UNCHANGED <<open, prs>>,
           links' \in [Issues -> SUBSET Issues]
    PROVE  IInv'
<1>1. Typed'
  BY EmptyPicks DEF IInv, Typed
<1>2. Cardinality(prs) \in Nat
  BY FS_CardinalityType DEF IInv, Numbered
<1>3. Numbered'
  BY <1>2 DEF IInv, Numbered
<1>4. Cleared' /\ NothingWaits' /\ HoldsBehind' /\ Published'
  BY EmptyPicks DEF Cleared, NothingWaits, HoldsBehind, Published, publishedIssues
<1>5. BuildsDisjoint' /\ BuildsClearOfPRs'
  BY EmptyPicks DEF BuildsDisjoint, BuildsClearOfPRs
<1> QED
  BY <1>1, <1>3, <1>4, <1>5 DEF IInv

-----------------------------------------------------------------------------
(* Every step keeps it.                                                      *)

LEMMA OpenPRKeeps ==
    ASSUME IInv, NEW issue \in open \cup {Nobody}, NEW files \in ChangedFiles, OpenPR(issue, files)
    PROVE  IInv'
<1>1. /\ prs' = WithPR(issue, files)
      /\ UNCHANGED <<open, links, stopping, phase, round, heldForFiles, ready, kept, overlaps,
                     checkedAt, settled>>
  BY DEF OpenPR
<1>2. issue \in Issues \cup {Nobody}
  BY DEF IInv, Typed
<1>3. Numbered' /\ prs \subseteq prs' /\ \A pr \in OpenPRs' : pr.number <= checkedAt' => pr \in OpenPRs
  BY <1>1, <1>2, OneMore DEF IInv
<1>4. Typed' /\ Cleared' /\ NothingWaits' /\ BuildsDisjoint'
  BY <1>1 DEF IInv, Typed, Cleared, NothingWaits, BuildsDisjoint, Numbers
<1>5. HoldsBehind'
  BY <1>1, <1>3 DEF IInv, HoldsBehind, Numbers
<1>6. Published'
  BY <1>1, <1>3 DEF IInv, Published, publishedIssues
<1>7. BuildsClearOfPRs'
  BY <1>1, <1>3 DEF IInv, BuildsClearOfPRs
<1> QED
  BY <1>3, <1>4, <1>5, <1>6, <1>7 DEF IInv

LEMMA SettleKeeps ==
    ASSUME IInv, NEW i \in Issues, NEW outcome \in Outcomes, Settle(i, outcome)
    PROVE  IInv'
<1>1. /\ phase = "build" /\ i \in Numbers(kept)
      /\ settled' = [j \in DOMAIN settled \cup {i} |-> IF j = i THEN outcome ELSE settled[j]]
      /\ UNCHANGED <<open, links, stopping, phase, round, heldForFiles, ready, kept, overlaps,
                     checkedAt>>
  BY DEF Settle, Unsettled
<1>2. \/ \E files \in ChangedFiles : prs' = WithPR(i, files)
      \/ prs' = prs /\ outcome # "published"
  BY DEF Settle
<1>3. /\ Numbered' /\ prs \subseteq prs' /\ \A pr \in OpenPRs' : pr.number <= checkedAt' => pr \in OpenPRs
      /\ outcome = "published" => \E pr \in prs' : pr.issue = i /\ pr.number > checkedAt'
  <2>1. CASE \E files \in ChangedFiles : prs' = WithPR(i, files)
    BY <1>1, <2>1, OneMore DEF IInv
  <2>2. CASE prs' = prs /\ outcome # "published"
    BY <1>1, <2>2 DEF IInv, Numbered, OpenPRs
  <2> QED
    BY <1>2, <2>1, <2>2
<1>4. DOMAIN settled' = DOMAIN settled \cup {i}
  BY <1>1
<1>5. Typed' /\ Cleared' /\ NothingWaits' /\ BuildsDisjoint'
  BY <1>1, <1>4 DEF IInv, Typed, Cleared, NothingWaits, BuildsDisjoint, Numbers
<1>6. HoldsBehind'
  BY <1>1, <1>3 DEF IInv, HoldsBehind, Numbers
<1>7. Published'
  <2> SUFFICES ASSUME NEW j \in DOMAIN settled', settled'[j] = "published"
               PROVE  \E pr \in prs' : pr.issue = j /\ pr.number > checkedAt'
    BY DEF Published, publishedIssues
  <2>1. CASE j = i
    BY <1>1, <1>3, <2>1
  <2>2. CASE j # i
    BY <1>1, <1>3, <1>4, <2>2 DEF IInv, Published, publishedIssues
  <2> QED
    BY <2>1, <2>2
<1>8. BuildsClearOfPRs'
  BY <1>1, <1>3 DEF IInv, BuildsClearOfPRs
<1> QED
  BY <1>3, <1>5, <1>6, <1>7, <1>8 DEF IInv

\* A pull request that merges or is closed keeps its number, issue and files.
LEMMA EndPRKeeps ==
    ASSUME IInv, NEW pr \in OpenPRs, NEW state \in {"merged", "closed"}, EndPR(pr, state)
    PROVE  IInv'
<1>1. PICK ended : ended = [pr EXCEPT !.state = state]
  OBVIOUS
<1>2. /\ prs' = (prs \ {pr}) \cup {ended} /\ open' \subseteq open
      /\ UNCHANGED <<links, stopping, phase, round, heldForFiles, ready, kept, overlaps, checkedAt,
                     settled>>
  BY <1>1 DEF EndPR
<1>3. pr \in prs /\ pr \in PullRequests
  BY DEF OpenPRs, IInv, Numbered
<1>4. /\ ended \in PullRequests /\ ended.state # "open"
      /\ ended.number = pr.number /\ ended.issue = pr.issue /\ ended.files = pr.files
  BY <1>1, <1>3 DEF PullRequests
<1>5. \A other \in prs : other.number = pr.number => other = pr
  BY <1>3 DEF IInv, Numbered
<1>6. ended \notin prs \ {pr}
  BY <1>4, <1>5
<1>7. IsFiniteSet(prs') /\ Cardinality(prs') = Cardinality(prs)
  <2>1. IsFiniteSet(prs)
    BY DEF IInv, Numbered
  <2>2. IsFiniteSet(prs \ {pr}) /\ Cardinality(prs \ {pr}) = Cardinality(prs) - 1
    BY <1>3, <2>1, FS_RemoveElement
  <2>3. IsFiniteSet(prs') /\ Cardinality(prs') = Cardinality(prs \ {pr}) + 1
    BY <1>2, <1>6, <2>2, FS_AddElement
  <2>4. Cardinality(prs) \in Nat
    BY <2>1, FS_CardinalityType
  <2> QED
    BY <2>2, <2>3, <2>4
<1>8. Numbered'
  <2>1. prs' \subseteq PullRequests
    BY <1>2, <1>4 DEF IInv, Numbered
  <2>2. \A p \in prs' : p.number <= Cardinality(prs')
    BY <1>2, <1>3, <1>4, <1>7 DEF IInv, Numbered
  <2>3. \A p, other \in prs' : p.number = other.number => p = other
    BY <1>2, <1>4, <1>5 DEF IInv, Numbered
  <2>4. checkedAt' \in Nat /\ checkedAt' <= Cardinality(prs')
    BY <1>2, <1>7 DEF IInv, Numbered
  <2> QED
    BY <1>7, <2>1, <2>2, <2>3, <2>4 DEF Numbered
<1>9. \A p \in prs : \E p2 \in prs' : p2.number = p.number /\ p2.issue = p.issue
  BY <1>2, <1>4
<1>10. OpenPRs' \subseteq OpenPRs
  BY <1>2, <1>4 DEF OpenPRs
<1>11. Typed' /\ Cleared' /\ BuildsDisjoint'
  BY <1>2 DEF IInv, Typed, Cleared, BuildsDisjoint, Numbers
<1>12. NothingWaits'
  BY <1>2 DEF IInv, NothingWaits
<1>13. HoldsBehind'
  BY <1>2, <1>9 DEF IInv, HoldsBehind, Numbers
<1>14. Published'
  BY <1>2, <1>9 DEF IInv, Published, publishedIssues
<1>15. BuildsClearOfPRs'
  BY <1>2, <1>10 DEF IInv, BuildsClearOfPRs
<1> QED
  BY <1>8, <1>11, <1>12, <1>13, <1>14, <1>15 DEF IInv

LEMMA StartRoundKeeps == ASSUME IInv, StartRound PROVE IInv'
<1>1. phase = "top" /\ UNCHANGED <<open, links, prs, stopping>>
  BY DEF StartRound
<1>2. CASE End
  BY <1>1, <1>2, Over DEF End, IInv, Typed
<1>3. CASE \E passing \in SUBSET Unblocked :
              /\ phase' = "plan" /\ ready' = passing
              /\ UNCHANGED <<heldForFiles, kept, overlaps, checkedAt, settled>>
  <2>1. PICK passing \in SUBSET Unblocked :
              /\ phase' = "plan" /\ ready' = passing
              /\ UNCHANGED <<heldForFiles, kept, overlaps, checkedAt, settled>>
    BY <1>3
  <2>2. Typed' /\ Cleared' /\ NothingWaits'
    BY <1>1, <2>1 DEF IInv, Typed, Cleared, NothingWaits, Unblocked, unfinished, Numbers
  <2>3. HoldsBehind'
    BY <1>1, <2>1 DEF IInv, HoldsBehind, Cleared
  <2>4. Numbered' /\ Published' /\ BuildsDisjoint' /\ BuildsClearOfPRs'
    BY <1>1, <2>1 DEF IInv, Numbered, Published, publishedIssues, BuildsDisjoint, BuildsClearOfPRs, OpenPRs
  <2> QED
    BY <2>2, <2>3, <2>4 DEF IInv
<1> QED
  BY <1>2, <1>3 DEF StartRound

\* What a plan is, and what the overlap check makes of it.
LEMMA PlannedSays ==
    ASSUME IInv, NEW planned \in PlansFor(ready \ heldForFiles), PlanRound(planned),
           NEW holds, holds = findOverlaps(planned, OpenPRs),
           NEW keeps, keeps = keptOf(planned, holds)
    PROVE  /\ \A k \in DOMAIN planned : planned[k].number \in ready \ heldForFiles
           /\ Promise(planned, OpenPRs, holds, keeps)
           /\ planned # <<>> => DOMAIN planned # {}
<1> DEFINE issues == ready \ heldForFiles
<1>1. PICK n \in Nat : planned \in [1..n -> [number : issues, files : FileLists]]
  BY DEF PlansFor
<1>2. issues \subseteq Issues
  BY DEF IInv, Typed
<1>3. \A k \in DOMAIN planned : planned[k] \in [number : issues, files : FileLists]
  BY <1>1
<1>4. [number : issues, files : FileLists] \subseteq [number : Issues, files : Seq(Paths)]
  BY <1>2, RoundsAssumption
<1>5. DOMAIN planned = 1..n /\ DOMAIN planned \in SUBSET (Nat \ {0})
  BY <1>1
<1>6. planned \in [DOMAIN planned -> [number : Issues, files : Seq(Paths)]]
  BY <1>1, <1>4
<1>7. \A j, k \in DOMAIN planned : planned[j].number = planned[k].number => j = k
  BY DEF PlanRound
<1>8. planned \in Picks
  BY <1>5, <1>6, <1>7 DEF Picks
<1>9. OpenPRs \in SUBSET PullRequests
  BY DEF IInv, Numbered, OpenPRs
<1>10. PICK pulls : pulls = OpenPRs
  OBVIOUS
<1>11. holds = findOverlaps(planned, pulls) /\ pulls \in SUBSET PullRequests
  BY <1>9, <1>10
<1>12. Promise(planned, pulls, holds, keeps)
  BY <1>5, <1>8, <1>11, OverlapsSay
<1>13. planned # <<>> => DOMAIN planned # {}
  <2> SUFFICES ASSUME n = 0 PROVE planned = <<>>
    BY <1>5
  <2>1. planned \in [1..0 -> [number : Issues, files : Seq(Paths)]]
    BY <1>5, <1>6
  <2>2. <<>> \in [1..0 -> [number : Issues, files : Seq(Paths)]]
    OBVIOUS
  <2> QED
    BY <2>1, <2>2
<1>14. \A k \in DOMAIN planned : planned[k].number \in issues
  BY <1>3
<1> QED
  BY <1>10, <1>12, <1>13, <1>14

LEMMA PlanRoundKeeps ==
    ASSUME IInv, NEW planned \in PlansFor(ready \ heldForFiles), PlanRound(planned)
    PROVE  IInv'
<1>1. PICK holds, keeps : holds = findOverlaps(planned, OpenPRs) /\ keeps = keptOf(planned, holds)
  OBVIOUS
<1>2. phase = "plan" /\ UNCHANGED <<open, links, prs, stopping>>
  BY DEF PlanRound
<1>3. CASE End \/ NextRound(lastingHolds(holds, {}))
  BY <1>2, <1>3, Over DEF End, NextRound, IInv, Typed
<1>4. CASE /\ DOMAIN keeps # {}
           /\ phase' = "critique" /\ kept' = keeps /\ overlaps' = holds
           /\ checkedAt' = Cardinality(prs)
           /\ UNCHANGED <<round, heldForFiles, ready, settled>>
  <2>1. /\ \A k \in DOMAIN planned : planned[k].number \in ready \ heldForFiles
        /\ Promise(planned, OpenPRs, holds, keeps)
    BY <1>1, PlannedSays
  <2>2. /\ \A k \in DOMAIN planned : planned[k].number \in ready \ heldForFiles
        /\ DOMAIN holds \subseteq Numbers(planned)
        /\ DOMAIN keeps \subseteq DOMAIN planned /\ \A k \in DOMAIN keeps : keeps[k] = planned[k]
        /\ keeps \in Picks
        /\ \A i \in DOMAIN holds :
             \/ \E k \in DOMAIN keeps : holds[i] = BehindPick(keeps[k].number)
             \/ \E pr \in OpenPRs : holds[i] = BehindPR(pr.number)
        /\ Disjoint(keeps)
        /\ \A k \in DOMAIN keeps, pr \in OpenPRs :
             keeps[k].files # <<>> /\ ~ Clash(keeps[k].files, pr.files)
    BY <2>1 DEF Promise
  <2>3. DOMAIN settled = {} /\ DOMAIN settled' = {}
    BY <1>2, <1>4 DEF IInv, Cleared
  <2>4. Typed' /\ Cleared'
    BY <1>2, <1>4, <2>2, <2>3 DEF IInv, Typed, Cleared
  <2>5. \A k \in DOMAIN keeps : keeps[k].number \in ready /\ keeps[k].number \in Issues
    BY <2>2 DEF IInv, Typed
  <2>6. NothingWaits'
    BY <1>2, <1>4, <2>5 DEF IInv, NothingWaits
  <2>7. Cardinality(prs) \in Nat /\ \A pr \in prs : pr.number <= Cardinality(prs)
    BY FS_CardinalityType DEF IInv, Numbered
  <2>8. Numbered'
    BY <1>2, <1>4, <2>7 DEF IInv, Numbered
  <2>9. HoldsBehind'
    BY <1>2, <1>4, <2>2, <2>5, <2>7 DEF HoldsBehind, Numbers, OpenPRs
  <2>10. Published'
    BY <2>3 DEF Published, publishedIssues
  <2>11. BuildsDisjoint' /\ BuildsClearOfPRs'
    BY <1>2, <1>4, <2>2 DEF BuildsDisjoint, BuildsClearOfPRs, Disjoint, OpenPRs
  <2> QED
    BY <2>4, <2>6, <2>8, <2>9, <2>10, <2>11 DEF IInv
<1> QED
  BY <1>1, <1>3, <1>4 DEF PlanRound

\* What the critique leaves is some of the picks in their places.
LEMMA CritiqueLeaves ==
    ASSUME IInv, NEW deferred, CritiqueRound(deferred)
    PROVE  /\ links' \in [Issues -> SUBSET Issues]
           /\ \/ NextRound(lastingHolds(overlaps, {}))
              \/ /\ phase' = "build"
                 /\ \E places \in SUBSET DOMAIN kept : kept' = [k \in places |-> kept[k]]
                 /\ UNCHANGED <<round, heldForFiles, ready, overlaps, checkedAt, settled>>
<1>1. /\ \A i \in DOMAIN deferred : deferred[i] \in open
      /\ links' = [i \in Issues |-> links[i] \cup (IF i \in DOMAIN deferred THEN {deferred[i]} ELSE {})]
  BY DEF CritiqueRound
<1>2. links' \in [Issues -> SUBSET Issues]
  BY <1>1 DEF IInv, Typed
<1>3. DOMAIN kept # {} /\ kept \in Picks
  BY DEF CritiqueRound, IInv, Cleared, Typed
<1>4. Lowest(DOMAIN kept) \in DOMAIN kept
  BY <1>3, PicksTyped, LowestIsLeast
<1>5. CASE /\ phase' = "build"
           /\ \/ kept' = keptOf(kept, deferred) \/ kept' = Restrict(kept, {Lowest(DOMAIN kept)})
           /\ UNCHANGED <<round, heldForFiles, ready, overlaps, checkedAt, settled>>
  BY <1>2, <1>4, <1>5 DEF keptOf, Restrict
<1> QED
  BY <1>2, <1>5 DEF CritiqueRound, critiqued

LEMMA CritiqueRoundKeeps == ASSUME IInv, NEW deferred, CritiqueRound(deferred) PROVE IInv'
<1>1. /\ phase = "critique" /\ UNCHANGED <<open, prs, stopping>>
      /\ links' \in [Issues -> SUBSET Issues]
  BY CritiqueLeaves DEF CritiqueRound
<1>2. CASE NextRound(lastingHolds(overlaps, {}))
  BY <1>1, <1>2, Over DEF NextRound
<1>3. CASE /\ phase' = "build"
           /\ \E places \in SUBSET DOMAIN kept : kept' = [k \in places |-> kept[k]]
           /\ UNCHANGED <<round, heldForFiles, ready, overlaps, checkedAt, settled>>
  <2>1. PICK places \in SUBSET DOMAIN kept : kept' = [k \in places |-> kept[k]]
    BY <1>3
  <2>2. kept' \in Picks /\ DOMAIN kept' = places /\ \A k \in places : kept'[k] = kept[k]
    BY <2>1, SomePicks DEF IInv, Typed
  <2>3. DOMAIN settled = {}
    BY <1>1 DEF IInv, Cleared
  <2>4. Typed' /\ Cleared' /\ NothingWaits' /\ Published'
    BY <1>1, <1>3, <2>2, <2>3 DEF IInv, Typed, Cleared, NothingWaits, Published, publishedIssues
  <2>5. Numbered' /\ HoldsBehind'
    BY <1>1, <1>3 DEF IInv, Numbered, HoldsBehind
  <2>6. BuildsDisjoint' /\ BuildsClearOfPRs'
    BY <1>1, <1>3, <2>2 DEF IInv, BuildsDisjoint, BuildsClearOfPRs, OpenPRs
  <2> QED
    BY <2>4, <2>5, <2>6 DEF IInv
<1> QED
  BY <1>2, <1>3, CritiqueLeaves

LEMMA EndRoundKeeps == ASSUME IInv, EndRound PROVE IInv'
<1>1. UNCHANGED <<open, links, prs, stopping>> /\ (End \/ NextRound(lastingHolds(overlaps, publishedIssues)))
  BY DEF EndRound
<1> QED
  BY <1>1, Over DEF End, NextRound, IInv, Typed

LEMMA NextKeeps == ASSUME IInv, [Next]_vars PROVE IInv'
<1>1. CASE StartRound
  BY <1>1, StartRoundKeeps
<1>2. CASE Throw
  BY <1>2, Over DEF Throw, End, IInv, Typed
<1>3. CASE EndRound
  BY <1>3, EndRoundKeeps
<1>4. CASE LimitHit \/ UNCHANGED vars
  <2>1. UNCHANGED <<open, links, prs, phase, round, heldForFiles, ready, kept, overlaps, checkedAt, settled>>
    BY <1>4 DEF LimitHit, vars
  <2> QED
    BY <2>1 DEF IInv, Typed, Numbered, Cleared, NothingWaits, HoldsBehind, Published, publishedIssues,
                BuildsDisjoint, BuildsClearOfPRs, OpenPRs, Numbers
<1>5. CASE \E planned \in PlansFor(ready \ heldForFiles) : PlanRound(planned)
  BY <1>5, PlanRoundKeeps
<1>6. CASE \E deferring \in SUBSET Numbers(kept) :
             \E deferred \in [deferring -> Issues] : CritiqueRound(deferred)
  BY <1>6, CritiqueRoundKeeps
<1>7. CASE \E i \in Issues, outcome \in Outcomes : Settle(i, outcome)
  BY <1>7, SettleKeeps
<1>8. CASE \E issue \in open \cup {Nobody}, files \in ChangedFiles : OpenPR(issue, files)
  BY <1>8, OpenPRKeeps
<1>9. CASE \E pr \in OpenPRs, state \in {"merged", "closed"} : EndPR(pr, state)
  BY <1>9, EndPRKeeps
<1> QED
  BY <1>1, <1>2, <1>3, <1>4, <1>5, <1>6, <1>7, <1>8, <1>9 DEF Next

\* The inductive invariant holds.
THEOREM InvHolds == Spec => []IInv
<1>1. Init => IInv
  BY Initially
<1>2. IInv /\ [Next]_vars => IInv'
  BY NextKeeps
<1> QED
  BY <1>1, <1>2, PTL DEF Spec

-----------------------------------------------------------------------------
(* What a round promises.                                                    *)

\* Two builds of a round never name the same file (overlap.mts:83), through
\* any interleaving of people's pull requests and any critique.
THEOREM BuildsDisjointHolds == Spec => []BuildsDisjoint
  BY InvHolds, PTL DEF IInv

\* No build names a file of a pull request that was open when the overlap
\* check read them.
THEOREM BuildsClearOfPRsHolds == Spec => []BuildsClearOfPRs
  BY InvHolds, PTL DEF IInv

\* A pick is held only behind a pick that is kept or a pull request that was
\* read: no picks of a round wait on each other.
THEOREM HeldBehindWorkHolds == Spec => []HeldBehindWork
<1>1. IInv => HeldBehindWork
  <2> SUFFICES ASSUME IInv, phase = "critique", NEW i \in DOMAIN overlaps
               PROVE  \/ overlaps[i].kind = "pick" /\ overlaps[i].blocker \in Numbers(kept)
                      \/ overlaps[i].kind = "pr" /\ overlaps[i].blocker \in 1..checkedAt
    BY DEF HeldBehindWork
  <2>1. CASE \E j \in Issues : overlaps[i] = BehindPick(j) /\ j \in Numbers(kept)
    BY <2>1 DEF BehindPick
  <2>2. CASE \E pr \in prs : overlaps[i] = BehindPR(pr.number) /\ pr.number <= checkedAt
    <3>1. PICK pr \in prs : overlaps[i] = BehindPR(pr.number) /\ pr.number <= checkedAt
      BY <2>2
    <3>2. pr.number \in Nat \ {0} /\ checkedAt \in Nat
      BY DEF IInv, Numbered, PullRequests
    <3>3. pr.number \in 1..checkedAt
      BY <3>1, <3>2
    <3> QED
      BY <3>1, <3>3 DEF BehindPR
  <2> QED
    BY <2>1, <2>2 DEF IInv, HoldsBehind
<1> QED
  BY <1>1, InvHolds, PTL

-----------------------------------------------------------------------------
(* Rounds that end.                                                          *)

Counts ==
    phase # "top" /\ phase' = "top" =>
        publishedIssues # {} \/ links' # links \/ heldForFiles' # heldForFiles

\* A plan of which every pick is held: one of them is held behind a pull
\* request, and was not held before.
LEMMA AllHeldCounts ==
    ASSUME IInv, NEW planned \in PlansFor(ready \ heldForFiles), PlanRound(planned), phase' = "top"
    PROVE  heldForFiles' # heldForFiles
<1>1. PICK holds, keeps : holds = findOverlaps(planned, OpenPRs) /\ keeps = keptOf(planned, holds)
  OBVIOUS
<1>2. /\ planned # <<>> /\ DOMAIN keeps = {}
      /\ heldForFiles' = heldForFiles \cup lastingHolds(holds, {})
  BY <1>1 DEF PlanRound, End, NextRound
<1>3. /\ \A k \in DOMAIN planned : planned[k].number \in ready \ heldForFiles
      /\ Promise(planned, OpenPRs, holds, keeps) /\ DOMAIN planned # {}
  BY <1>1, <1>2, PlannedSays
<1>4. /\ \A k \in DOMAIN planned : planned[k].number \in ready \ heldForFiles
      /\ \A k \in DOMAIN planned : planned[k].number \in DOMAIN holds \/ k \in DOMAIN keeps
      /\ \A i \in DOMAIN holds :
           \/ \E k \in DOMAIN keeps : holds[i] = BehindPick(keeps[k].number)
           \/ \E pr \in OpenPRs : holds[i] = BehindPR(pr.number)
      /\ DOMAIN planned # {}
  BY <1>3 DEF Promise
<1>5. PICK k \in DOMAIN planned : planned[k].number \in DOMAIN holds
  BY <1>2, <1>4
<1>6. \E pr \in OpenPRs : holds[planned[k].number] = BehindPR(pr.number)
  BY <1>2, <1>4, <1>5
<1>7. planned[k].number \in lastingHolds(holds, {})
  BY <1>5, <1>6 DEF lastingHolds, BehindPR
<1> QED
  BY <1>2, <1>4, <1>7

\* A critique that defers every pick: the first link it adds is new, as its
\* blocker is open and the pick waited on no open issue.
LEMMA AllDeferredCounts ==
    ASSUME IInv, NEW deferring \in SUBSET Numbers(kept), NEW deferred \in [deferring -> Issues],
           CritiqueRound(deferred), phase' = "top"
    PROVE  links' # links
<1>1. /\ phase = "critique" /\ DOMAIN keptOf(kept, deferred) = {}
      /\ \A i \in DOMAIN deferred : deferred[i] \in open
      /\ links' = [i \in Issues |-> links[i] \cup (IF i \in DOMAIN deferred THEN {deferred[i]} ELSE {})]
  BY DEF CritiqueRound
<1>2. PICK k \in DOMAIN kept : TRUE
  BY <1>1 DEF IInv, Cleared
<1>3. PICK i \in Issues : i = kept[k].number
  BY PicksTyped DEF IInv, Typed
<1>4. i \in DOMAIN deferred
  BY <1>1, <1>2, <1>3 DEF keptOf, Restrict
<1>5. links[i] \cap open = {}
  BY <1>1, <1>2, <1>3 DEF IInv, NothingWaits
<1>6. deferred[i] \notin links[i] /\ deferred[i] \in links'[i]
  BY <1>1, <1>3, <1>4, <1>5
<1> QED
  BY <1>6

\* A run that goes on to another round opened a pull request, added a link or
\* holds one more issue for its files (main.mts:284): it does not plan the
\* same picks again for nothing.
THEOREM EveryRoundCountsHolds == Spec => EveryRoundCounts
<1>1. ASSUME IInv, [Next]_vars PROVE [Counts]_vars
  <2> SUFFICES ASSUME phase # "top", phase' = "top"
               PROVE  publishedIssues # {} \/ links' # links \/ heldForFiles' # heldForFiles
    BY DEF Counts
  <2>1. CASE \E planned \in PlansFor(ready \ heldForFiles) : PlanRound(planned)
    BY <1>1, <2>1, AllHeldCounts
  <2>2. CASE \E deferring \in SUBSET Numbers(kept) :
               \E deferred \in [deferring -> Issues] : CritiqueRound(deferred)
    BY <1>1, <2>2, AllDeferredCounts
  <2>3. CASE EndRound
    BY <2>3 DEF EndRound, End
  <2>4. CASE StartRound \/ Throw
    BY <2>4 DEF StartRound, Throw, End
  <2>5. CASE \/ LimitHit \/ UNCHANGED vars
             \/ \E i \in Issues, outcome \in Outcomes : Settle(i, outcome)
             \/ \E issue \in open \cup {Nobody}, files \in ChangedFiles : OpenPR(issue, files)
             \/ \E pr \in OpenPRs, state \in {"merged", "closed"} : EndPR(pr, state)
    <3>1. phase' = phase
      BY <2>5 DEF LimitHit, vars, Settle, OpenPR, EndPR
    <3> QED
      BY <3>1
  <2> QED
    BY <1>1, <2>1, <2>2, <2>3, <2>4, <2>5 DEF Next
<1> QED
  BY <1>1, InvHolds, PTL DEF Spec, EveryRoundCounts, Counts

Reasoned ==
    \A i \in heldForFiles' \ heldForFiles :
        \E pr \in prs :
            IF phase = "plan" THEN pr.state = "open"
            ELSE IF overlaps[i].kind = "pr" THEN pr.number = overlaps[i].blocker
            ELSE pr.issue = overlaps[i].blocker /\ pr.number > checkedAt

\* What of the holds of a round that goes on lasts, and for which pull request.
LEMMA LastingSays ==
    ASSUME IInv, NEW published \in SUBSET publishedIssues, NEW i \in lastingHolds(overlaps, published)
    PROVE  \E pr \in prs : IF overlaps[i].kind = "pr" THEN pr.number = overlaps[i].blocker
                           ELSE pr.issue = overlaps[i].blocker /\ pr.number > checkedAt
<1>1. i \in DOMAIN overlaps /\ (overlaps[i].kind = "pr" \/ overlaps[i].blocker \in published)
  BY DEF lastingHolds
<1>2. CASE overlaps[i].kind = "pr"
  <2>1. ASSUME NEW j \in Issues, overlaps[i] = BehindPick(j) PROVE FALSE
    BY <1>2, <2>1 DEF BehindPick
  <2>2. PICK pr \in prs : overlaps[i] = BehindPR(pr.number)
    BY <1>1, <2>1 DEF IInv, HoldsBehind
  <2> QED
    BY <1>2, <2>2 DEF BehindPR
<1>3. CASE overlaps[i].kind # "pr"
  BY <1>1, <1>3 DEF IInv, Published
<1> QED
  BY <1>2, <1>3

\* An issue stays out of the rest of the run only for a pull request: one that
\* was open when the check read it, or one its blocker opened in this round.
THEOREM HoldsLastForAReasonHolds == Spec => HoldsLastForAReason
<1>1. ASSUME IInv, [Next]_vars PROVE [Reasoned]_vars
  <2> SUFFICES ASSUME NEW i \in heldForFiles' \ heldForFiles
               PROVE  \E pr \in prs :
                         IF phase = "plan" THEN pr.state = "open"
                         ELSE IF overlaps[i].kind = "pr" THEN pr.number = overlaps[i].blocker
                         ELSE pr.issue = overlaps[i].blocker /\ pr.number > checkedAt
    BY DEF Reasoned
  <2>1. CASE \E planned \in PlansFor(ready \ heldForFiles) : PlanRound(planned)
    <3>1. PICK planned \in PlansFor(ready \ heldForFiles) : PlanRound(planned)
      BY <2>1
    <3>2. PICK holds, keeps : holds = findOverlaps(planned, OpenPRs) /\ keeps = keptOf(planned, holds)
      OBVIOUS
    <3>3. phase = "plan" /\ i \in lastingHolds(holds, {}) /\ DOMAIN keeps = {}
      BY <3>1, <3>2 DEF PlanRound, End, NextRound
    <3>4. Promise(planned, OpenPRs, holds, keeps)
      BY <1>1, <3>1, <3>2, PlannedSays
    <3>5. \A j \in DOMAIN holds :
             \/ \E k \in DOMAIN keeps : holds[j] = BehindPick(keeps[k].number)
             \/ \E pr \in OpenPRs : holds[j] = BehindPR(pr.number)
      BY <3>4 DEF Promise
    <3>6. \E pr \in OpenPRs : TRUE
      BY <3>3, <3>5 DEF lastingHolds
    <3> QED
      BY <3>3, <3>6 DEF OpenPRs
  <2>2. CASE \E deferring \in SUBSET Numbers(kept) :
               \E deferred \in [deferring -> Issues] : CritiqueRound(deferred)
    <3>1. phase = "critique" /\ i \in lastingHolds(overlaps, {})
      BY <2>2 DEF CritiqueRound, NextRound
    <3> QED
      BY <1>1, <3>1, LastingSays
  <2>3. CASE EndRound
    <3>1. phase = "build" /\ i \in lastingHolds(overlaps, publishedIssues)
      BY <2>3 DEF EndRound, End, NextRound
    <3> QED
      BY <1>1, <3>1, LastingSays
  <2>4. CASE StartRound \/ Throw
    BY <2>4 DEF StartRound, Throw, End
  <2>5. CASE \/ LimitHit \/ UNCHANGED vars
             \/ \E j \in Issues, outcome \in Outcomes : Settle(j, outcome)
             \/ \E issue \in open \cup {Nobody}, files \in ChangedFiles : OpenPR(issue, files)
             \/ \E pr \in OpenPRs, state \in {"merged", "closed"} : EndPR(pr, state)
    <3>1. heldForFiles' = heldForFiles
      BY <2>5 DEF LimitHit, vars, Settle, OpenPR, EndPR
    <3> QED
      BY <3>1
  <2> QED
    BY <1>1, <2>1, <2>2, <2>3, <2>4, <2>5 DEF Next
<1> QED
  BY <1>1, InvHolds, PTL DEF Spec, HoldsLastForAReason, Reasoned

-----------------------------------------------------------------------------
(* The queue.  What a load of it takes for granted of the history.             *)

ByHost(i) ==
    /\ history[i].what \in {"labeled", "unlabeled"} /\ history[i].label \in {"ready", "needs-human"}
    /\ history[i].by = "host"

\* The owner queues nothing while a load reads.
NotQueued(i) ==
    history[i].what = "labeled" /\ history[i].label = Queue => history[i].by = "stranger"

Changes ==
    [what : {"labeled", "unlabeled", "renamed", "edited"}, label : Labels \cup {""},
     by : People, at : Nat]
Reads == [events : Nat, edits : Nat]

HistoryInOrder ==
    /\ \A i, j \in DOMAIN history : i <= j => history[i].at <= history[j].at
    /\ \A i \in DOMAIN history : history[i].at <= now

LoadTyped ==
    /\ step \in {"off", "events", "edits", "judge", "fix"}
    /\ listed \in 0..Len(history) /\ (step # "off" => listed # 0)
    /\ step \in {"edits", "judge", "fix"} => read \in Reads
    /\ step \in {"judge", "fix"} => read.edits <= Len(history)
    /\ fixes \subseteq {"ready", "needs-human"} /\ labels \subseteq Labels

\* What the events read lack of the listing are labels of the host's, and what they
\* have beyond it queues nothing.
EventsFit ==
    step \in {"edits", "judge"} =>
        /\ read.events <= Len(history)
        /\ step = "judge" => read.events <= read.edits
        /\ \A i \in read.events + 1..listed : ByHost(i)
        /\ \A i \in listed + 1..read.events : NotQueued(i)

\* What is done during the reads is of another second than the listing shows.
LaterActs ==
    step \in {"events", "edits"} =>
        \A i \in listed + 1..Len(history) : NotQueued(i) /\ history[i].at # history[listed].at

\* A read of the round was made for a listing; what came later in that listing's
\* second is the host's.
CacheFits ==
    \A entry \in cache :
        /\ entry.read \in Reads
        /\ entry.read.events <= entry.read.edits /\ entry.read.edits <= Len(history)
        /\ \E l \in DOMAIN history :
            /\ entry.key[1] = history[l].at
            /\ \A i \in entry.read.events + 1..l : ByHost(i)
            /\ \A i \in l + 1..Len(history) : history[i].at = history[l].at => ByHost(i)

\* Each label as it was after n changes.
ReadyByOwner(n) ==
    LET added == latest(Adds(n, "ready"))
    IN  added # 0 /\ history[added].by \in Owners

NotTakenOff(n) ==
    LET removed == latest(Removals(n, "needs-human"))
    IN  removed <= latest(Adds(n, "needs-human")) \/ history[removed].by \in Owners

\* Once judged the text is approved, and a label not among those still to put right
\* is as the owner or the host left it.
PutRight ==
    step = "fix" =>
        /\ OwnersText(listed)
        /\ "ready" \in labels \ fixes => \E n \in Moments : ReadyByOwner(n)
        /\ "needs-human" \notin labels \cup fixes => \E n \in Moments : NotTakenOff(n)

\* The queue's inductive invariant.
QueueInv ==
    /\ history \in Seq(Changes) /\ history # <<>> /\ now \in Nat
    /\ HistoryInOrder /\ LoadTyped /\ EventsFit /\ LaterActs /\ CacheFits /\ PutRight

-----------------------------------------------------------------------------
(* The last of some changes.                                                 *)

LEMMA LatestSays ==
    ASSUME NEW n \in Nat, NEW S \in SUBSET (1..n)
    PROVE  /\ latest(S) \in {0} \cup S /\ latest(S) \in 0..n
           /\ \A i \in S : i <= latest(S)
<1> DEFINE T == {0} \cup S
           Bounds == {b \in 0..n : \A i \in T : i <= b}
<1>1. n \in Bounds /\ Bounds \in SUBSET Nat
  OBVIOUS
<1>2. PICK b \in Bounds : \A c \in Bounds : b <= c
  BY <1>1, LeastNat
<1>3. b \in T
  <2>1. CASE b = 0
    BY <2>1
  <2>2. CASE b # 0 /\ b \notin T
    <3>1. b - 1 \in 0..n /\ ~ (b <= b - 1)
      BY <2>2
    <3>2. b - 1 \notin Bounds
      BY <1>2, <3>1
    <3>3. PICK i \in T : ~ (i <= b - 1)
      BY <3>1, <3>2
    <3>4. i <= b /\ i \in Nat /\ i # b
      BY <1>2, <2>2, <3>3
    <3> QED
      BY <3>1, <3>3, <3>4
  <2> QED
    BY <2>1, <2>2
<1>4. \A i \in T : b >= i
  BY <1>2
<1>5. latest(S) = CHOOSE x \in T : \A y \in T : x >= y
  BY DEF latest, Max
<1>6. latest(S) \in T /\ \A y \in T : latest(S) >= y
  BY <1>3, <1>4, <1>5
<1>7. latest(S) \in {0} \cup S /\ \A i \in S : latest(S) >= i
  BY <1>6
<1>8. latest(S) \in 0..n
  <2>1. 0 \in 0..n /\ \A i \in S : i \in 0..n
    OBVIOUS
  <2> QED
    BY <1>7, <2>1
<1>9. \A i \in S : i <= latest(S)
  BY <1>7, <1>8
<1> QED
  BY <1>7, <1>8, <1>9

LEMMA LatestIs ==
    ASSUME NEW n \in Nat, NEW S \in SUBSET (1..n), NEW m \in {0} \cup S, \A i \in S : i <= m
    PROVE  latest(S) = m
<1>1. /\ latest(S) \in {0} \cup S /\ latest(S) \in 0..n
      /\ \A i \in S : i <= latest(S)
  BY LatestSays
<1> QED
  BY <1>1

LEMMA MaxOfTwo == ASSUME NEW a \in Int, NEW b \in Int PROVE Max({a, b}) = IF a >= b THEN a ELSE b
  BY DEF Max

LEMMA AddsTyped == ASSUME NEW n \in Nat, NEW l PROVE Adds(n, l) \in SUBSET (1..n) /\ Removals(n, l) \in SUBSET (1..n)
  BY DEF Adds, Removals

-----------------------------------------------------------------------------
(* A history only grows.                                                     *)

Grows ==
    /\ history' \in Seq(Changes) /\ Len(history') >= Len(history)
    /\ \A i \in DOMAIN history : history'[i] = history[i]
    /\ \A i \in Len(history) + 1..Len(history') : history'[i].at = now

LEMMA AppendGrows ==
    ASSUME history \in Seq(Changes), NEW change \in Changes, change.at = now,
           history' = Append(history, change)
    PROVE  /\ Grows
           /\ \A i \in Len(history) + 1..Len(history') : history'[i] = change
<1>1. /\ history' \in Seq(Changes) /\ Len(history') = Len(history) + 1
      /\ \A i \in 1..Len(history) : history'[i] = history[i]
      /\ history'[Len(history) + 1] = change
  BY AppendProperties
<1>2. Len(history) \in Nat /\ DOMAIN history = 1..Len(history)
  OBVIOUS
<1>3. \A i \in Len(history) + 1..Len(history') : i = Len(history) + 1
  BY <1>1, <1>2
<1>4. \A i \in Len(history) + 1..Len(history') : history'[i] = change
  BY <1>1, <1>3
<1> QED
  BY <1>1, <1>2, <1>4 DEF Grows

LEMMA HappensGrows ==
    ASSUME history \in Seq(Changes), now \in Nat,
           NEW what \in {"labeled", "unlabeled", "renamed", "edited"},
           NEW label \in Labels \cup {""}, NEW by \in People, Happens(what, label, by)
    PROVE  /\ Grows
           /\ \A i \in Len(history) + 1..Len(history') :
                history'[i].what = what /\ history'[i].label = label /\ history'[i].by = by
<1>1. PICK change : change = [what |-> what, label |-> label, by |-> by, at |-> now]
  OBVIOUS
<1>2. change \in Changes
  BY <1>1 DEF Changes
<1>3. history' = Append(history, change)
  BY <1>1 DEF Happens
<1>4. change.at = now /\ change.what = what /\ change.label = label /\ change.by = by
  BY <1>1
<1>5. Grows /\ \A i \in Len(history) + 1..Len(history') : history'[i] = change
  BY <1>2, <1>3, <1>4, AppendGrows
<1> QED
  BY <1>4, <1>5

LEMMA SameGrows == ASSUME history \in Seq(Changes), history' = history PROVE Grows
  BY DEF Grows

\* What was so of the first n changes stays so.
LEMMA PrefixStays ==
    ASSUME history \in Seq(Changes), Grows, NEW n \in 0..Len(history)
    PROVE  /\ \A l : Adds(n, l)' = Adds(n, l) /\ Removals(n, l)' = Removals(n, l)
           /\ \A what : Edits(n, what)' = Edits(n, what)
<1>1. \A i \in 1..n : history'[i] = history[i]
  BY DEF Grows
<1> QED
  BY <1>1 DEF Adds, Removals, Edits

LEMMA PromisesStay ==
    ASSUME history \in Seq(Changes), Grows, NEW n \in 0..Len(history)
    PROVE  /\ OwnersText(n) => OwnersText(n)'
           /\ ReadyByOwner(n) => ReadyByOwner(n)'
           /\ NotTakenOff(n) => NotTakenOff(n)'
<1>1. \A i \in 1..n : history'[i] = history[i]
  BY DEF Grows
<1>2. /\ \A l : Adds(n, l)' = Adds(n, l) /\ Removals(n, l)' = Removals(n, l)
      /\ \A what : Edits(n, what)' = Edits(n, what)
  BY PrefixStays
<1>3. \A l : latest(Adds(n, l)) \in 0..n /\ latest(Removals(n, l)) \in 0..n
  BY AddsTyped, LatestSays
<1>4. \A l : latest(Adds(n, l))' = latest(Adds(n, l)) /\ latest(Removals(n, l))' = latest(Removals(n, l))
  BY <1>2 DEF latest
<1>5. OwnersText(n) => OwnersText(n)'
  <2>1. ASSUME OwnersText(n) PROVE OwnersText(n)'
    <3>1. PICK queued \in 0..n : queued = latest(Adds(n, Queue))
      BY <1>3
    <3>2. latest(Adds(n, Queue))' = queued
      BY <1>4, <3>1
    <3>3. /\ queued # 0 /\ history[queued].by \in Owners
          /\ \A i \in Edits(n, "renamed") \cup Edits(n, "edited") : i > queued => history[i].by \in Owners
      BY <2>1, <3>1 DEF OwnersText
    <3>4. history'[queued].by \in Owners
      BY <1>1, <3>3
    <3>5. \A i \in Edits(n, "renamed")' \cup Edits(n, "edited")' : i > queued => history'[i].by \in Owners
      BY <1>1, <1>2, <3>3 DEF Edits
    <3> QED
      BY <3>2, <3>3, <3>4, <3>5 DEF OwnersText
  <2> QED
    BY <2>1
<1>6. ReadyByOwner(n) => ReadyByOwner(n)'
  <2>1. PICK added \in 0..n : added = latest(Adds(n, "ready"))
    BY <1>3
  <2>2. latest(Adds(n, "ready"))' = added
    BY <1>4, <2>1
  <2>3. added # 0 => history'[added] = history[added]
    BY <1>1
  <2> QED
    BY <2>1, <2>2, <2>3 DEF ReadyByOwner
<1>7. NotTakenOff(n) => NotTakenOff(n)'
  <2>1. PICK removed \in 0..n : removed = latest(Removals(n, "needs-human"))
    BY <1>3
  <2>2. PICK added \in 0..n : added = latest(Adds(n, "needs-human"))
    BY <1>3
  <2>3. latest(Removals(n, "needs-human"))' = removed /\ latest(Adds(n, "needs-human"))' = added
    BY <1>4, <2>1, <2>2
  <2>4. removed # 0 => history'[removed] = history[removed]
    BY <1>1
  <2>5. removed = 0 => removed <= added
    OBVIOUS
  <2> QED
    BY <2>1, <2>2, <2>3, <2>4, <2>5 DEF NotTakenOff
<1> QED
  BY <1>5, <1>6, <1>7

-----------------------------------------------------------------------------
(* What a step that only lets the history grow leaves as it was.             *)

HistoryTyped == history \in Seq(Changes) /\ history # <<>> /\ now \in Nat

LEMMA HistoryStays ==
    ASSUME HistoryTyped, HistoryInOrder, Grows, now' \in Nat, now <= now'
    PROVE  HistoryTyped' /\ HistoryInOrder'
<1>1. HistoryTyped'
  BY DEF HistoryTyped, Grows
<1>2. ASSUME NEW i \in DOMAIN history' PROVE /\ history'[i].at \in Nat /\ history'[i].at <= now
                                             /\ i \in DOMAIN history => history'[i].at = history[i].at
                                             /\ i \notin DOMAIN history => history'[i].at = now
  <2>1. history'[i] \in Changes
    BY DEF Grows
  <2>2. history'[i].at \in Nat
    BY <2>1 DEF Changes
  <2>3. i \in DOMAIN history \/ i \in Len(history) + 1..Len(history')
    BY DEF Grows, HistoryTyped
  <2> QED
    BY <2>2, <2>3 DEF Grows, HistoryInOrder, HistoryTyped
<1>3. \A i \in DOMAIN history' : history'[i].at <= now'
  BY <1>2 DEF HistoryTyped
<1>4. ASSUME NEW i \in DOMAIN history', NEW j \in DOMAIN history', i <= j
      PROVE  history'[i].at <= history'[j].at
  <2>1. CASE j \in DOMAIN history
    <3>1. i \in DOMAIN history
      BY <1>4, <2>1 DEF HistoryTyped, Grows
    <3> QED
      BY <1>2, <1>4, <2>1, <3>1 DEF HistoryInOrder
  <2>2. CASE j \notin DOMAIN history
    BY <1>2, <2>2
  <2> QED
    BY <2>1, <2>2
<1> QED
  BY <1>1, <1>3, <1>4 DEF HistoryInOrder

\* The reads kept stay as good, if what is new is the host's or of a later second.
LEMMA CacheStays ==
    ASSUME HistoryTyped, CacheFits, Grows, cache' = cache,
           \/ \A i \in Len(history) + 1..Len(history') : ByHost(i)'
           \/ \A entry \in cache : entry.key[1] # now
    PROVE  CacheFits'
<1> SUFFICES ASSUME NEW entry \in cache
             PROVE  /\ entry.read \in Reads
                    /\ entry.read.events <= entry.read.edits /\ entry.read.edits <= Len(history')
                    /\ \E l \in DOMAIN history' :
                        /\ entry.key[1] = history'[l].at
                        /\ \A i \in entry.read.events + 1..l : ByHost(i)'
                        /\ \A i \in l + 1..Len(history') : history'[i].at = history'[l].at => ByHost(i)'
  BY DEF CacheFits
<1>1. PICK l \in DOMAIN history :
            /\ entry.key[1] = history[l].at
            /\ \A i \in entry.read.events + 1..l : ByHost(i)
            /\ \A i \in l + 1..Len(history) : history[i].at = history[l].at => ByHost(i)
  BY DEF CacheFits
<1>2. /\ entry.read \in Reads /\ entry.read.events \in Nat /\ entry.read.edits \in Nat
      /\ entry.read.events <= entry.read.edits /\ entry.read.edits <= Len(history)
  BY DEF CacheFits, Reads
<1>3. entry.read.edits <= Len(history')
  BY <1>2 DEF Grows, HistoryTyped
<1>4. l \in DOMAIN history' /\ history'[l] = history[l]
  BY DEF Grows, HistoryTyped
<1>5. \A i \in DOMAIN history : ByHost(i)' <=> ByHost(i)
  BY DEF Grows, ByHost
<1>6. \A i \in entry.read.events + 1..l : ByHost(i)'
  BY <1>1, <1>2, <1>5 DEF HistoryTyped
<1>7. ASSUME NEW i \in l + 1..Len(history'), history'[i].at = history'[l].at PROVE ByHost(i)'
  <2>1. CASE i \in DOMAIN history
    BY <1>1, <1>4, <1>5, <1>7, <2>1 DEF Grows, HistoryTyped
  <2>2. CASE i \notin DOMAIN history
    <3>1. i \in Len(history) + 1..Len(history')
      BY <2>2 DEF Grows, HistoryTyped
    <3>2. history'[i].at = now
      BY <3>1 DEF Grows
    <3>3. entry.key[1] = now
      BY <1>1, <1>4, <1>7, <3>2
    <3> QED
      BY <3>1, <3>3
  <2> QED
    BY <2>1, <2>2
<1> QED
  BY <1>1, <1>2, <1>3, <1>4, <1>6, <1>7

\* The load's own reads, its place unchanged.
LEMMA LoadStays ==
    ASSUME HistoryTyped, LoadTyped, EventsFit, Grows, UNCHANGED <<step, listed, read>>,
           fixes' \subseteq {"ready", "needs-human"}, labels' \subseteq Labels
    PROVE  LoadTyped' /\ EventsFit'
<1>1. LoadTyped'
  <2>1. Len(history) \in Nat /\ Len(history') \in Nat /\ Len(history) <= Len(history')
    BY DEF HistoryTyped, Grows
  <2>2. listed' \in 0..Len(history') /\ (step' # "off" => listed' # 0)
    BY <2>1 DEF LoadTyped
  <2>3. step' \in {"edits", "judge", "fix"} => read' \in Reads
    BY DEF LoadTyped
  <2>4. step' \in {"judge", "fix"} => read'.edits <= Len(history')
    <3>1. CASE step \in {"judge", "fix"}
      <4>1. read.edits \in Nat /\ read.edits <= Len(history)
        BY <3>1 DEF LoadTyped, Reads
      <4> QED
        BY <2>1, <4>1
    <3>2. CASE step \notin {"judge", "fix"}
      BY <3>2
    <3> QED
      BY <3>1, <3>2
  <2> QED
    BY <2>2, <2>3, <2>4 DEF LoadTyped
<1>2. \A i \in DOMAIN history : (ByHost(i)' <=> ByHost(i)) /\ (NotQueued(i)' <=> NotQueued(i))
  BY DEF Grows, ByHost, NotQueued
<1>3. ASSUME step \in {"edits", "judge"}
      PROVE  /\ read.events <= Len(history')
             /\ step = "judge" => read.events <= read.edits
             /\ \A i \in read.events + 1..listed : ByHost(i)'
             /\ \A i \in listed + 1..read.events : NotQueued(i)'
  <2>1. /\ read.events <= Len(history)
        /\ step = "judge" => read.events <= read.edits
        /\ \A i \in read.events + 1..listed : ByHost(i)
        /\ \A i \in listed + 1..read.events : NotQueued(i)
    BY <1>3 DEF EventsFit
  <2>2. read.events \in Nat /\ listed \in 0..Len(history)
    BY <1>3 DEF LoadTyped, Reads
  <2>3. Len(history) \in Nat /\ Len(history') \in Nat /\ DOMAIN history = 1..Len(history)
    BY DEF HistoryTyped, Grows
  <2>4. \A i \in read.events + 1..listed : i \in DOMAIN history
    BY <2>2, <2>3
  <2>5. \A i \in listed + 1..read.events : i \in DOMAIN history
    BY <2>1, <2>2, <2>3
  <2>6. Len(history) <= Len(history')
    BY DEF Grows
  <2>7. read.events <= Len(history')
    BY <2>1, <2>2, <2>3, <2>6
  <2>8. \A i \in read.events + 1..listed : ByHost(i)'
    BY <1>2, <2>1, <2>4
  <2>9. \A i \in listed + 1..read.events : NotQueued(i)'
    BY <1>2, <2>1, <2>5
  <2> QED
    BY <2>1, <2>7, <2>8, <2>9
<1> QED
  BY <1>1, <1>3 DEF EventsFit

LEMMA MomentsSay ==
    ASSUME HistoryTyped, LoadTyped, step \in {"judge", "fix"}
    PROVE  /\ Moments \subseteq 0..Len(history) /\ listed \in Moments
           /\ \A n \in Nat : listed <= n /\ n <= read.edits => n \in Moments
<1>1. read.edits \in Nat /\ read.edits <= Len(history) /\ listed \in 0..Len(history)
  BY DEF LoadTyped, Reads
<1>2. Len(history) \in Nat
  BY DEF HistoryTyped
<1>3. PICK from \in Nat, to \in Nat : from = listed /\ to = read.edits
  BY <1>1, <1>2
<1>4. Max({from, to}) = IF from >= to THEN from ELSE to
  BY MaxOfTwo
<1>5. Moments = from..Max({from, to})
  BY <1>3 DEF Moments
<1>6. Max({from, to}) \in from..Len(history)
  BY <1>1, <1>2, <1>3, <1>4
<1>7. \A n \in Nat : from <= n /\ n <= to => n \in Moments
  BY <1>4, <1>5
<1>8. Moments \subseteq 0..Len(history)
  BY <1>2, <1>3, <1>5, <1>6
<1>9. listed \in Moments
  BY <1>3, <1>5, <1>6
<1> QED
  BY <1>3, <1>7, <1>8, <1>9

-----------------------------------------------------------------------------
(* What a judgement shows.  The events it reads end at seen, the edits at      *)
(* edited, the listing at shown.                                              *)

Fits(seen, edited, shown) ==
    /\ seen <= edited /\ edited <= Len(history) /\ shown <= Len(history)
    /\ \A i \in seen + 1..shown : ByHost(i)
    /\ \A i \in shown + 1..seen : NotQueued(i)

LEMMA JudgeFits ==
    ASSUME HistoryTyped, LoadTyped, EventsFit, step = "judge"
    PROVE  /\ read.events \in Nat /\ read.edits \in Nat /\ listed \in Nat
           /\ Fits(read.events, read.edits, listed)
<1>1. read.events \in Nat /\ read.edits \in Nat /\ read.edits <= Len(history) /\ listed \in 0..Len(history)
  BY DEF LoadTyped, Reads
<1>2. /\ read.events <= read.edits
      /\ \A i \in read.events + 1..listed : ByHost(i)
      /\ \A i \in listed + 1..read.events : NotQueued(i)
  BY DEF EventsFit
<1> QED
  BY <1>1, <1>2 DEF Fits, HistoryTyped

\* A change of the listing that the events lack is a label of the host's.
LEMMA NotSeen ==
    ASSUME NEW seen \in Nat, NEW edited \in Nat, NEW shown \in Nat, Fits(seen, edited, shown),
           NEW i \in 1..shown, i > seen
    PROVE  /\ history[i].by = "host" /\ history[i].label # Queue
           /\ history[i].what # "renamed" /\ history[i].what # "edited"
<1>1. ByHost(i)
  BY DEF Fits
<1> QED
  BY <1>1 DEF ByHost, Queue

LEMMA QueuedAsShown ==
    ASSUME HistoryTyped, NEW seen \in Nat, NEW edited \in Nat, NEW shown \in Nat, Fits(seen, edited, shown),
           latest(Adds(seen, Queue)) # 0, history[latest(Adds(seen, Queue))].by \in Owners
    PROVE  latest(Adds(shown, Queue)) = latest(Adds(seen, Queue)) /\ latest(Adds(seen, Queue)) \in 1..shown
<1>1. PICK queued \in 0..seen : queued = latest(Adds(seen, Queue))
  BY AddsTyped, LatestSays
<1>2. queued \in Adds(seen, Queue) /\ \A i \in Adds(seen, Queue) : i <= queued
  BY <1>1, AddsTyped, LatestSays
<1>3. queued <= shown
  <2>1. ASSUME queued > shown PROVE FALSE
    <3>1. queued \in shown + 1..seen
      BY <1>1, <2>1
    <3>2. NotQueued(queued)
      BY <3>1 DEF Fits
    <3> QED
      BY <1>1, <1>2, <3>2 DEF NotQueued, Adds, Owners
  <2> QED
    BY <1>1, <2>1
<1>4. queued \in Adds(shown, Queue)
  BY <1>1, <1>2, <1>3 DEF Adds
<1>5. ASSUME NEW i \in Adds(shown, Queue) PROVE i <= queued
  <2>1. i \in 1..shown /\ history[i].what = "labeled" /\ history[i].label = Queue
    BY DEF Adds
  <2>2. ~ (i > seen)
    BY <2>1, NotSeen
  <2>3. i \in Adds(seen, Queue)
    BY <2>1, <2>2 DEF Adds
  <2> QED
    BY <1>2, <2>3
<1>6. latest(Adds(shown, Queue)) = queued
  BY <1>4, <1>5, AddsTyped, LatestIs
<1> QED
  BY <1>1, <1>3, <1>6

\* An approved issue's text, as the listing shows it, is the owner's.
LEMMA ApprovedText ==
    ASSUME HistoryTyped, HistoryInOrder, LoadTyped, EventsFit, step = "judge",
           NEW unknown, approval(unknown)
    PROVE  OwnersText(listed)
<1>1. PICK seen \in Nat, edited \in Nat, shown \in Nat :
        seen = read.events /\ edited = read.edits /\ shown = listed /\ Fits(seen, edited, shown)
  BY JudgeFits
<1>2. PICK queued \in 0..seen : queued = latest(Adds(seen, Queue))
  BY AddsTyped, LatestSays
<1>3. /\ queued # 0
      /\ history[queued].by \in Owners
      /\ \A i \in Edits(seen, "renamed") \cup Edits(edited, "edited") :
            ~ (history[i].at < history[queued].at) => history[i].by \in Owners
  BY <1>1, <1>2 DEF approval
<1>4. latest(Adds(shown, Queue)) = queued /\ queued \in 1..shown
  BY <1>1, <1>2, <1>3, QueuedAsShown
<1>5. ASSUME NEW i \in Edits(shown, "renamed") \cup Edits(shown, "edited"), i > queued
      PROVE  history[i].by \in Owners
  <2>1. i \in 1..shown /\ (history[i].what = "renamed" \/ history[i].what = "edited")
    BY DEF Edits
  <2>2. i <= seen
    BY <1>1, <2>1, NotSeen
  <2>3. i \in Edits(seen, "renamed") \cup Edits(edited, "edited")
    BY <1>1, <2>1, <2>2 DEF Edits, Fits
  <2>4. i \in DOMAIN history /\ queued \in DOMAIN history
    BY <1>1, <1>4, <2>1 DEF Fits, HistoryTyped
  <2>5. history[i] \in Changes /\ history[queued] \in Changes
    BY <2>4 DEF HistoryTyped
  <2>6. history[i].at \in Nat /\ history[queued].at \in Nat
    BY <2>5 DEF Changes
  <2>7. history[queued].at <= history[i].at
    BY <1>5, <1>2, <2>1, <2>4 DEF HistoryInOrder
  <2> QED
    BY <1>3, <2>3, <2>6, <2>7
<1> QED
  BY <1>1, <1>3, <1>4, <1>5 DEF OwnersText

\* A moment at which the events read, or the listing, stand for both.
LEMMA ReadyAsRead ==
    ASSUME HistoryTyped, NEW seen \in Nat, NEW edited \in Nat, NEW shown \in Nat, Fits(seen, edited, shown),
           ReadyByOwner(seen)
    PROVE  \E n \in {seen, shown} : shown <= n /\ (n <= edited \/ n = shown) /\ ReadyByOwner(n)
<1>1. CASE seen >= shown
  BY <1>1 DEF Fits
<1>2. CASE seen < shown
  <2>1. PICK first \in 0..seen : first = latest(Adds(seen, "ready"))
    BY AddsTyped, LatestSays
  <2>2. PICK added \in 0..shown : added = latest(Adds(shown, "ready"))
    BY AddsTyped, LatestSays
  <2>3. first # 0 /\ history[first].by \in Owners
    BY <2>1 DEF ReadyByOwner
  <2>4. first \in Adds(seen, "ready") /\ \A i \in Adds(seen, "ready") : i <= first
    BY <2>1, <2>3, AddsTyped, LatestSays
  <2>5. \A i \in Adds(shown, "ready") : i <= added
    BY <2>2, AddsTyped, LatestSays
  <2>6. first <= added
    BY <1>2, <2>1, <2>4, <2>5 DEF Adds
  <2>7. added # 0 /\ added \in Adds(shown, "ready")
    BY <2>1, <2>2, <2>3, <2>6, AddsTyped, LatestSays
  <2>8. history[added].by \in Owners
    <3>1. CASE added > seen
      <4>1. history[added].by = "host"
        BY <2>2, <2>7, <3>1, NotSeen
      <4> QED
        BY <4>1 DEF Owners, People
    <3>2. CASE ~ (added > seen)
      <4>1. added \in Adds(seen, "ready")
        BY <2>2, <2>7, <3>2 DEF Adds
      <4>2. added = first
        BY <2>1, <2>2, <2>4, <2>6, <4>1
      <4> QED
        BY <2>3, <4>2
    <3> QED
      BY <3>1, <3>2
  <2>9. ReadyByOwner(shown)
    BY <2>2, <2>7, <2>8 DEF ReadyByOwner
  <2> QED
    BY <2>9
<1> QED
  BY <1>1, <1>2

LEMMA TakenOffAsRead ==
    ASSUME HistoryTyped, NEW seen \in Nat, NEW edited \in Nat, NEW shown \in Nat, Fits(seen, edited, shown),
           NotTakenOff(seen)
    PROVE  \E n \in {seen, shown} : shown <= n /\ (n <= edited \/ n = shown) /\ NotTakenOff(n)
<1>1. CASE seen >= shown
  BY <1>1 DEF Fits
<1>2. CASE seen < shown
  <2>1. PICK first \in 0..seen : first = latest(Removals(seen, "needs-human"))
    BY AddsTyped, LatestSays
  <2>2. PICK removed \in 0..shown : removed = latest(Removals(shown, "needs-human"))
    BY AddsTyped, LatestSays
  <2>3. PICK firstOn \in 0..seen : firstOn = latest(Adds(seen, "needs-human"))
    BY AddsTyped, LatestSays
  <2>4. PICK on \in 0..shown : on = latest(Adds(shown, "needs-human"))
    BY AddsTyped, LatestSays
  <2>5. firstOn <= on
    <3>1. firstOn \in {0} \cup Adds(shown, "needs-human")
      BY <1>2, <2>3, AddsTyped, LatestSays DEF Adds
    <3>2. \A i \in Adds(shown, "needs-human") : i <= on
      BY <2>4, AddsTyped, LatestSays
    <3> QED
      BY <2>3, <2>4, <3>1, <3>2
  <2>6. CASE removed = 0
    BY <2>2, <2>4, <2>6 DEF NotTakenOff
  <2>7. CASE removed # 0
    <3>1. removed \in Removals(shown, "needs-human")
      BY <2>2, <2>7, AddsTyped, LatestSays
    <3>2. CASE removed > seen
      <4>1. history[removed].by = "host"
        BY <2>2, <2>7, <3>2, NotSeen
      <4>2. NotTakenOff(shown)
        BY <2>2, <4>1 DEF NotTakenOff, Owners, People
      <4> QED
        BY <4>2
    <3>3. CASE ~ (removed > seen)
      <4>1. removed \in Removals(seen, "needs-human")
        BY <2>2, <3>1, <3>3 DEF Removals
      <4>2. removed <= first
        BY <2>1, <4>1, AddsTyped, LatestSays
      <4>3. first <= removed
        <5>1. first \in {0} \cup Removals(shown, "needs-human")
          BY <1>2, <2>1, AddsTyped, LatestSays DEF Removals
        <5>2. \A i \in Removals(shown, "needs-human") : i <= removed
          BY <2>2, AddsTyped, LatestSays
        <5> QED
          BY <2>1, <2>2, <5>1, <5>2
      <4>4. first = removed
        BY <2>1, <2>2, <4>2, <4>3
      <4>5. first <= firstOn \/ history[first].by \in Owners
        BY <2>1, <2>3 DEF NotTakenOff
      <4>6. removed <= on \/ history[removed].by \in Owners
        BY <2>1, <2>2, <2>3, <2>4, <2>5, <4>4, <4>5
      <4>7. NotTakenOff(shown)
        BY <2>2, <2>4, <4>6 DEF NotTakenOff
      <4> QED
        BY <4>7
    <3> QED
      BY <3>2, <3>3
  <2> QED
    BY <2>6, <2>7
<1> QED
  BY <1>1, <1>2

-----------------------------------------------------------------------------
(* The steps.                                                                *)

\* What the labels' origins are.
LEMMA OriginsSay ==
    ASSUME HistoryTyped, LoadTyped, EventsFit, step = "judge"
    PROVE  /\ "ready" \in labels =>
                "ready" \in Trusted /\ Origins["ready"] = latest(Adds(read.events, "ready"))
           /\ "needs-human" \notin labels
              /\ latest(Removals(read.events, "needs-human")) > latest(Adds(read.events, "needs-human")) =>
                /\ "needs-human" \in Trusted
                /\ Origins["needs-human"] = latest(Removals(read.events, "needs-human"))
           /\ DOMAIN Origins = Trusted
<1>1. ISSUE_LABEL_RULES.trustAdds = {"ready"} /\ ISSUE_LABEL_RULES.trustRemovals = {"needs-human"}
  BY DEF ISSUE_LABEL_RULES
<1>2. \A l \in Trusted :
        Origins[l] = latest(IF l \in {"ready"} THEN Adds(read.events, l) ELSE Removals(read.events, l))
  BY <1>1 DEF Origins
<1>3. DOMAIN Origins = Trusted
  BY DEF Origins
<1>4. "ready" \in labels => "ready" \in Trusted
  BY <1>1 DEF Trusted
<1>5. "needs-human" \notin labels
      /\ latest(Removals(read.events, "needs-human")) > latest(Adds(read.events, "needs-human")) =>
            "needs-human" \in Trusted
  BY <1>1 DEF Trusted
<1> QED
  BY <1>2, <1>3, <1>4, <1>5

LEMMA OwnersOrStrangers ==
    ASSUME HistoryTyped, NEW i \in DOMAIN history
    PROVE  history[i].by = "stranger" \/ history[i].by \in Owners
<1>1. history[i] \in Changes
  BY DEF HistoryTyped
<1> QED
  BY <1>1 DEF Changes, Owners

LEMMA MomentOf ==
    ASSUME HistoryTyped, LoadTyped, step = "judge", NEW n \in Nat, listed <= n, n <= read.edits \/ n = listed
    PROVE  n \in Moments
  BY MomentsSay

LEMMA ReadyJudged ==
    ASSUME HistoryTyped, LoadTyped, EventsFit, step = "judge", NEW unknown, OriginsKnown(unknown),
           "ready" \in labels, "ready" \notin labelOriginFixes
    PROVE  \E n \in Moments : ReadyByOwner(n)
<1>1. PICK seen \in Nat, edited \in Nat, shown \in Nat :
        seen = read.events /\ edited = read.edits /\ shown = listed /\ Fits(seen, edited, shown)
  BY JudgeFits
<1>2. PICK added \in 0..seen : added = latest(Adds(seen, "ready"))
  BY AddsTyped, LatestSays
<1>3. "ready" \in DOMAIN Origins /\ Origins["ready"] = added
  BY <1>1, <1>2, OriginsSay
<1>4. added # 0 /\ history[added].by # "stranger"
  BY <1>3 DEF OriginsKnown, labelOriginFixes
<1>5. added \in DOMAIN history
  BY <1>1, <1>2, <1>4 DEF HistoryTyped, Fits
<1>6. ReadyByOwner(seen)
  BY <1>2, <1>4, <1>5, OwnersOrStrangers DEF ReadyByOwner
<1>7. PICK n \in {seen, shown} : shown <= n /\ (n <= edited \/ n = shown) /\ ReadyByOwner(n)
  BY <1>1, <1>6, ReadyAsRead
<1>8. n \in Moments
  BY <1>1, <1>7, MomentOf
<1> QED
  BY <1>7, <1>8

LEMMA TakenOffJudged ==
    ASSUME HistoryTyped, LoadTyped, EventsFit, step = "judge", NEW unknown, OriginsKnown(unknown),
           "needs-human" \notin labels, "needs-human" \notin labelOriginFixes
    PROVE  \E n \in Moments : NotTakenOff(n)
<1>1. PICK seen \in Nat, edited \in Nat, shown \in Nat :
        seen = read.events /\ edited = read.edits /\ shown = listed /\ Fits(seen, edited, shown)
  BY JudgeFits
<1>2. PICK removed \in 0..seen : removed = latest(Removals(seen, "needs-human"))
  BY AddsTyped, LatestSays
<1>3. PICK added \in 0..seen : added = latest(Adds(seen, "needs-human"))
  BY AddsTyped, LatestSays
<1>4. NotTakenOff(seen)
  <2>1. CASE removed <= added
    BY <1>2, <1>3, <2>1 DEF NotTakenOff
  <2>2. CASE removed > added
    <3>1. "needs-human" \in DOMAIN Origins /\ Origins["needs-human"] = removed
      BY <1>1, <1>2, <1>3, <2>2, OriginsSay
    <3>2. removed # 0 /\ history[removed].by # "stranger"
      BY <3>1 DEF OriginsKnown, labelOriginFixes
    <3>3. removed \in DOMAIN history
      BY <1>1, <1>2, <3>2 DEF HistoryTyped, Fits
    <3>4. history[removed].by \in Owners
      BY <3>2, <3>3, OwnersOrStrangers
    <3> QED
      BY <1>2, <3>4 DEF NotTakenOff
  <2> QED
    BY <2>1, <2>2
<1>5. PICK n \in {seen, shown} : shown <= n /\ (n <= edited \/ n = shown) /\ NotTakenOff(n)
  BY <1>1, <1>4, TakenOffAsRead
<1>6. n \in Moments
  BY <1>1, <1>5, MomentOf
<1> QED
  BY <1>5, <1>6

\* The owner does not queue the issue while it is loaded, and nobody changes it in
\* the second that a load listed it in.
Apart == ~ RequeueMidLoad /\ ~ SharedSeconds

LEMMA QueueInvParts ==
    QueueInv <=> HistoryTyped /\ HistoryInOrder /\ LoadTyped /\ EventsFit /\ LaterActs /\ CacheFits /\ PutRight
  BY DEF QueueInv, HistoryTyped

LEMMA PutRightStays ==
    ASSUME HistoryTyped, LoadTyped, PutRight, Grows, UNCHANGED <<step, listed, read>>,
           "ready" \in labels' \ fixes' => "ready" \in labels \ fixes,
           "needs-human" \notin labels' \cup fixes' => "needs-human" \notin labels \cup fixes
    PROVE  PutRight'
<1> SUFFICES ASSUME step = "fix" PROVE PutRight'
  BY DEF PutRight
<1>1. Moments' = Moments /\ Moments \subseteq 0..Len(history)
  BY MomentsSay DEF Moments
<1>2. \A n \in 0..Len(history) :
        /\ OwnersText(n) => OwnersText(n)'
        /\ ReadyByOwner(n) => ReadyByOwner(n)'
        /\ NotTakenOff(n) => NotTakenOff(n)'
  BY PromisesStay DEF HistoryTyped
<1>3. /\ OwnersText(listed)
      /\ "ready" \in labels \ fixes => \E n \in Moments : ReadyByOwner(n)
      /\ "needs-human" \notin labels \cup fixes => \E n \in Moments : NotTakenOff(n)
  BY DEF PutRight
<1>4. OwnersText(listed)'
  <2>1. PICK n \in 0..Len(history) : n = listed
    BY DEF LoadTyped
  <2>2. OwnersText(n)'
    BY <1>2, <1>3, <2>1
  <2>3. listed' = n
    BY <2>1
  <2> QED
    BY <2>2, <2>3
<1>5. "ready" \in labels' \ fixes' => \E n \in Moments' : ReadyByOwner(n)'
  BY <1>1, <1>2, <1>3
<1>6. "needs-human" \notin labels' \cup fixes' => \E n \in Moments' : NotTakenOff(n)'
  BY <1>1, <1>2, <1>3
<1> QED
  BY <1>4, <1>5, <1>6 DEF PutRight

LEMMA TouchSays ==
    ASSUME HistoryTyped, NEW by \in {"owner", "stranger"}, Touch(by)
    PROVE  /\ Grows
           /\ ~ RequeueMidLoad /\ step # "off" =>
                \A i \in Len(history) + 1..Len(history') : NotQueued(i)'
<1>1. CASE \E l \in Labels \ Carried :
            (RequeueMidLoad \/ step = "off" \/ by # "owner" \/ l # Queue) /\ Happens("labeled", l, by)
  <2>1. PICK l \in Labels :
            (RequeueMidLoad \/ step = "off" \/ by # "owner" \/ l # Queue) /\ Happens("labeled", l, by)
    BY <1>1
  <2>2. by \in People /\ l \in Labels \cup {""}
    BY DEF People
  <2>3. /\ Grows
        /\ \A i \in Len(history) + 1..Len(history') :
                history'[i].what = "labeled" /\ history'[i].label = l /\ history'[i].by = by
    BY <2>1, <2>2, HappensGrows DEF HistoryTyped
  <2> QED
    BY <2>1, <2>3 DEF NotQueued
<1>2. CASE \E l \in Carried : Happens("unlabeled", l, by)
  <2>1. PICK l \in Carried : Happens("unlabeled", l, by)
    BY <1>2
  <2>2. by \in People /\ l \in Labels \cup {""}
    BY DEF People, Carried, LabelsAt
  <2>3. /\ Grows
        /\ \A i \in Len(history) + 1..Len(history') : history'[i].what = "unlabeled"
    BY <2>1, <2>2, HappensGrows DEF HistoryTyped
  <2> QED
    BY <2>3 DEF NotQueued
<1>3. CASE \E what \in {"renamed", "edited"} : Happens(what, "", by)
  <2>1. by \in People /\ "" \in Labels \cup {""}
    BY DEF People
  <2>2. CASE Happens("renamed", "", by)
    <3>1. /\ Grows
          /\ \A i \in Len(history) + 1..Len(history') : history'[i].what = "renamed"
      BY <2>1, <2>2, HappensGrows DEF HistoryTyped
    <3> QED
      BY <3>1 DEF NotQueued
  <2>3. CASE Happens("edited", "", by)
    <3>1. /\ Grows
          /\ \A i \in Len(history) + 1..Len(history') : history'[i].what = "edited"
      BY <2>1, <2>3, HappensGrows DEF HistoryTyped
    <3> QED
      BY <3>1 DEF NotQueued
  <2> QED
    BY <1>3, <2>2, <2>3
<1> QED
  BY <1>1, <1>2, <1>3 DEF Touch

LEMMA JudgedSays ==
    ASSUME HistoryTyped, Judged
    PROVE  Grows /\ step = "off"
<1>1. PICK l \in {"ready", "needs-human"} : Happens("labeled", l, "host")
  BY DEF Judged
<1>2. l \in Labels \cup {""} /\ "host" \in People
  BY DEF Labels, People
<1>3. Grows
  BY <1>1, <1>2, HappensGrows DEF HistoryTyped
<1> QED
  BY <1>3 DEF Judged

LEMMA ActHolds == ASSUME Apart, QueueInv, Act PROVE QueueInv'
<1>1. /\ HistoryTyped /\ HistoryInOrder /\ LoadTyped /\ EventsFit /\ LaterActs /\ CacheFits /\ PutRight
  BY QueueInvParts
<1>2. /\ now' = now /\ UNCHANGED <<step, listed, read, cache, fixes, labels>>
      /\ \A time \in {entry.key[1] : entry \in cache} : time # now
      /\ step = "off" \/ updatedAt(listed) # now
  BY DEF Act, Apart, loadVars
<1>3. Grows /\ (step # "off" => \A i \in Len(history) + 1..Len(history') : NotQueued(i)')
  BY <1>1, TouchSays, JudgedSays DEF Act, Apart
<1>4. HistoryTyped' /\ HistoryInOrder'
  BY <1>1, <1>2, <1>3, HistoryStays DEF HistoryTyped
<1>5. CacheFits'
  BY <1>1, <1>2, <1>3, CacheStays
<1>6. LoadTyped' /\ EventsFit'
  BY <1>1, <1>2, <1>3, LoadStays DEF LoadTyped
<1>7. PutRight'
  BY <1>1, <1>2, <1>3, PutRightStays
<1>8. LaterActs'
  <2> SUFFICES ASSUME step \in {"events", "edits"}, NEW i \in listed + 1..Len(history')
               PROVE  NotQueued(i)' /\ history'[i].at # history'[listed].at
    BY <1>2 DEF LaterActs
  <2>1. listed \in DOMAIN history /\ updatedAt(listed) = history[listed].at /\ history'[listed] = history[listed]
    BY <1>1, <1>3 DEF LoadTyped, updatedAt, HistoryTyped, Grows
  <2>2. CASE i \in DOMAIN history
    <3>1. i \in listed + 1..Len(history) /\ history'[i] = history[i]
      BY <1>1, <1>3, <2>1, <2>2 DEF Grows, HistoryTyped
    <3>2. NotQueued(i) /\ history[i].at # history[listed].at
      BY <1>1, <3>1 DEF LaterActs
    <3> QED
      BY <2>1, <3>1, <3>2 DEF NotQueued
  <2>3. CASE i \notin DOMAIN history
    <3>1. i \in Len(history) + 1..Len(history')
      BY <1>1, <1>3, <2>1, <2>3 DEF Grows, HistoryTyped
    <3>2. history'[i].at = now /\ NotQueued(i)'
      BY <1>3, <3>1 DEF Grows
    <3> QED
      BY <1>2, <2>1, <3>2
  <2> QED
    BY <2>2, <2>3
<1> QED
  BY <1>4, <1>5, <1>6, <1>7, <1>8 DEF QueueInv, HistoryTyped

LEMMA TickHolds == ASSUME QueueInv, Tick PROVE QueueInv'
<1>1. /\ HistoryTyped /\ HistoryInOrder /\ LoadTyped /\ EventsFit /\ LaterActs /\ CacheFits /\ PutRight
  BY QueueInvParts
<1>2. now' = now + 1 /\ history' = history /\ UNCHANGED <<step, listed, read, cache, fixes, labels>>
  BY DEF Tick, loadVars
<1>3. HistoryTyped' /\ HistoryInOrder'
  BY <1>1, <1>2, SameGrows, HistoryStays DEF HistoryTyped
<1>4. CacheFits'
  BY <1>1, <1>2 DEF CacheFits, ByHost
<1>5. LoadTyped' /\ EventsFit' /\ PutRight'
  BY <1>1, <1>2, SameGrows, LoadStays, PutRightStays DEF LoadTyped, HistoryTyped
<1>6. LaterActs'
  BY <1>1, <1>2 DEF LaterActs, NotQueued
<1> QED
  BY <1>3, <1>4, <1>5, <1>6 DEF QueueInv, HistoryTyped

\* A load's own steps up to its judgement leave GitHub alone.
LEMMA GithubAlone ==
    ASSUME HistoryTyped, HistoryInOrder, UNCHANGED githubVars
    PROVE  HistoryTyped' /\ HistoryInOrder'
  BY DEF githubVars, HistoryTyped, HistoryInOrder

LEMMA CacheAlone ==
    ASSUME CacheFits, UNCHANGED githubVars, cache' \subseteq cache
    PROVE  CacheFits'
<1>1. history' = history
  BY DEF githubVars
<1>2. \A i : ByHost(i)' <=> ByHost(i)
  BY <1>1 DEF ByHost
<1> QED
  BY <1>1, <1>2 DEF CacheFits

LEMMA SkipHolds ==
    ASSUME HistoryTyped', HistoryInOrder', CacheFits', Skip
    PROVE  QueueInv'
<1>1. step' = "off" /\ listed' = 0 /\ fixes' = {} /\ labels' = {}
  BY DEF Skip
<1>2. LoadTyped'
  BY <1>1 DEF LoadTyped, HistoryTyped
<1> QED
  BY <1>1, <1>2 DEF QueueInv, HistoryTyped, EventsFit, LaterActs, PutRight

LEMMA RoundHolds == ASSUME QueueInv, startQueueRound PROVE QueueInv'
<1>1. /\ HistoryTyped /\ HistoryInOrder /\ LoadTyped /\ EventsFit /\ LaterActs /\ CacheFits /\ PutRight
  BY QueueInvParts
<1>2. /\ UNCHANGED githubVars /\ UNCHANGED <<step, listed, read, fixes, labels>> /\ cache' = {}
      /\ step = "off"
  BY DEF startQueueRound
<1>3. HistoryTyped' /\ HistoryInOrder' /\ CacheFits'
  BY <1>1, <1>2, GithubAlone, CacheAlone
<1>4. LoadTyped'
  BY <1>1, <1>2 DEF LoadTyped, githubVars
<1> QED
  BY <1>2, <1>3, <1>4 DEF QueueInv, HistoryTyped, EventsFit, LaterActs, PutRight

\* A read of the round stands for a listing that has its key: in the second of the
\* listing it was made for nobody but the host has acted since.
LEMMA KnownRead ==
    ASSUME HistoryTyped, HistoryInOrder, CacheFits,
           NEW entry \in cache, entry.key = cacheKey(Len(history))
    PROVE  /\ entry.read \in Reads
           /\ entry.read.events <= entry.read.edits /\ entry.read.edits <= Len(history)
           /\ \A i \in entry.read.events + 1..Len(history) : ByHost(i)
<1>1. PICK l \in DOMAIN history :
            /\ entry.key[1] = history[l].at
            /\ \A i \in entry.read.events + 1..l : ByHost(i)
            /\ \A i \in l + 1..Len(history) : history[i].at = history[l].at => ByHost(i)
  BY DEF CacheFits
<1>2. /\ entry.read \in Reads /\ entry.read.events \in Nat
      /\ entry.read.events <= entry.read.edits /\ entry.read.edits <= Len(history)
  BY DEF CacheFits, Reads
<1>3. Len(history) \in Nat \ {0} /\ DOMAIN history = 1..Len(history)
  BY DEF HistoryTyped
<1>4. \A i \in DOMAIN history : history[i] \in Changes
  BY DEF HistoryTyped
<1>5. \A i \in DOMAIN history : history[i].at \in Nat
  BY <1>4 DEF Changes
<1>6. history[Len(history)].at = history[l].at
  BY <1>1, <1>3 DEF cacheKey, updatedAt
<1>7. ASSUME NEW i \in entry.read.events + 1..Len(history) PROVE ByHost(i)
  <2>1. CASE i <= l
    BY <1>1, <1>2, <1>3, <2>1
  <2>2. CASE ~ (i <= l)
    <3>1. i \in l + 1..Len(history) /\ i \in DOMAIN history
      BY <1>2, <1>3, <2>2
    <3>2. history[l].at <= history[i].at /\ history[i].at <= history[Len(history)].at
      BY <1>3, <3>1 DEF HistoryInOrder
    <3>3. history[i].at = history[l].at
      BY <1>3, <1>5, <1>6, <3>1, <3>2
    <3> QED
      BY <1>1, <3>1, <3>3
  <2> QED
    BY <2>1, <2>2
<1> QED
  BY <1>2, <1>7

LEMMA ListHolds == ASSUME QueueInv, List PROVE QueueInv'
<1>1. /\ HistoryTyped /\ HistoryInOrder /\ LoadTyped /\ EventsFit /\ LaterActs /\ CacheFits /\ PutRight
  BY QueueInvParts
<1>2. /\ UNCHANGED githubVars /\ cache' = cache /\ fixes' = fixes
      /\ listed' = Len(history) /\ labels' = Carried /\ history' = history
  BY DEF List, githubVars
<1>3. HistoryTyped' /\ HistoryInOrder' /\ CacheFits'
  BY <1>1, <1>2, GithubAlone, CacheAlone
<1>4. Len(history) \in Nat \ {0} /\ labels' \subseteq Labels /\ fixes' \subseteq {"ready", "needs-human"}
  BY <1>1, <1>2 DEF HistoryTyped, LoadTyped, Carried, LabelsAt
<1>5. \/ step' = "events"
      \/ step' = "judge" /\ \E entry \in cache : entry.key = cacheKey(Len(history)) /\ read' = entry.read
  BY <1>2 DEF List, cacheKey
<1>6. CASE step' = "events"
  <2>1. LoadTyped'
    BY <1>2, <1>4, <1>6 DEF LoadTyped
  <2>2. LaterActs'
    BY <1>2, <1>4 DEF LaterActs
  <2> QED
    BY <1>3, <1>6, <2>1, <2>2 DEF QueueInv, HistoryTyped, EventsFit, PutRight
<1>7. CASE step' = "judge" /\ \E entry \in cache : entry.key = cacheKey(Len(history)) /\ read' = entry.read
  <2>1. PICK entry \in cache : entry.key = cacheKey(Len(history)) /\ read' = entry.read
    BY <1>7
  <2>2. /\ read' \in Reads /\ read'.events <= read'.edits /\ read'.edits <= Len(history)
        /\ \A i \in read'.events + 1..Len(history) : ByHost(i)
    BY <1>1, <2>1, KnownRead
  <2>3. read'.events \in Nat /\ read'.edits \in Nat
    BY <2>2 DEF Reads
  <2>4. LoadTyped'
    BY <1>2, <1>4, <1>7, <2>2 DEF LoadTyped
  <2>5. \A i \in read'.events + 1..Len(history) : ByHost(i)'
    BY <1>2, <2>2 DEF ByHost
  <2>6. read'.events <= Len(history) /\ \A i \in Len(history) + 1..read'.events : NotQueued(i)'
    BY <1>4, <2>2, <2>3
  <2>7. EventsFit'
    BY <1>2, <2>2, <2>5, <2>6 DEF EventsFit
  <2> QED
    BY <1>3, <1>7, <2>4, <2>7 DEF QueueInv, HistoryTyped, LaterActs, PutRight
<1> QED
  BY <1>5, <1>6, <1>7

LEMMA EventsHolds == ASSUME QueueInv, issueEvents PROVE QueueInv'
<1>1. /\ HistoryTyped /\ HistoryInOrder /\ LoadTyped /\ EventsFit /\ LaterActs /\ CacheFits /\ PutRight
  BY QueueInvParts
<1>2. UNCHANGED githubVars /\ cache' = cache /\ step = "events" /\ history' = history
  BY DEF issueEvents, githubVars
<1>3. HistoryTyped' /\ HistoryInOrder' /\ CacheFits'
  BY <1>1, <1>2, GithubAlone, CacheAlone
<1>4. CASE Skip
  BY <1>3, <1>4, SkipHolds
<1>5. CASE ~ Skip
  <2>1. /\ \E n \in {Len(history), Len(history) - 1} :
            /\ n < Len(history) =>
                latest(DOMAIN history) \in Adds(Len(history), "ready") /\ history[n + 1].by = "host"
            /\ read' = [events |-> n, edits |-> 0]
        /\ step' = "edits" /\ UNCHANGED <<listed, fixes, labels>>
    BY <1>5 DEF issueEvents
  <2>2. PICK n \in {Len(history), Len(history) - 1} :
            /\ n < Len(history) =>
                latest(DOMAIN history) \in Adds(Len(history), "ready") /\ history[n + 1].by = "host"
            /\ read' = [events |-> n, edits |-> 0]
    BY <2>1
  <2>3. Len(history) \in Nat \ {0} /\ DOMAIN history = 1..Len(history)
    BY <1>1 DEF HistoryTyped
  <2>4. n \in Nat /\ read' \in Reads /\ read'.events = n
    BY <2>2, <2>3 DEF Reads
  <2>5. LoadTyped'
    BY <1>1, <1>2, <2>1, <2>4 DEF LoadTyped
  <2>6. ASSUME NEW i \in n + 1..listed PROVE ByHost(i)
    <3> PICK len \in Nat \ {0} : len = Len(history)
      BY <2>3
    <3>0. listed \in 0..len /\ n \in {len, len - 1}
      BY <1>1 DEF LoadTyped
    <3>1. n < Len(history) /\ i = Len(history) /\ n + 1 = i
      BY <2>6, <3>0
    <3>2. latest(1..Len(history)) = Len(history)
      <4> DEFINE all == 1..len
      <4>1. all \in SUBSET (1..len) /\ len \in {0} \cup all /\ \A j \in all : j <= len
        OBVIOUS
      <4> HIDE DEF all
      <4>2. latest(all) = len
        BY <4>1, LatestIs
      <4> QED
        BY <4>2 DEF all
    <3>3. history[i].what = "labeled" /\ history[i].label = "ready"
      BY <2>2, <2>3, <3>1, <3>2 DEF Adds
    <3> QED
      BY <2>2, <3>1, <3>3 DEF ByHost
  <2>7. \A i \in listed + 1..n : NotQueued(i)
    <3> PICK len \in Nat : len = Len(history)
      BY <2>3
    <3>1. listed \in 0..len /\ n <= len
      BY <1>1, <2>2 DEF LoadTyped
    <3>2. \A i \in listed + 1..n : i \in listed + 1..len
      BY <2>4, <3>1
    <3> QED
      BY <1>1, <1>2, <3>2 DEF LaterActs
  <2>8. EventsFit'
    <3>1. \A i : (ByHost(i)' <=> ByHost(i)) /\ (NotQueued(i)' <=> NotQueued(i))
      BY <1>2 DEF ByHost, NotQueued
    <3>2. n <= Len(history') /\ listed' = listed /\ step' = "edits"
      BY <1>2, <2>1, <2>2, <2>3
    <3> QED
      BY <2>4, <2>6, <2>7, <3>1, <3>2 DEF EventsFit
  <2>9. LaterActs'
    BY <1>1, <1>2, <2>1 DEF LaterActs, NotQueued
  <2> QED
    BY <1>3, <2>1, <2>5, <2>8, <2>9 DEF QueueInv, HistoryTyped, PutRight
<1> QED
  BY <1>4, <1>5

LEMMA EditsHolds == ASSUME QueueInv, bodyEdits PROVE QueueInv'
<1>1. /\ HistoryTyped /\ HistoryInOrder /\ LoadTyped /\ EventsFit /\ LaterActs /\ CacheFits /\ PutRight
  BY QueueInvParts
<1>2. UNCHANGED githubVars /\ step = "edits" /\ history' = history
  BY DEF bodyEdits, githubVars
<1>3. HistoryTyped' /\ HistoryInOrder'
  BY <1>1, <1>2, GithubAlone
<1>4. CASE Skip /\ UNCHANGED cache
  BY <1>1, <1>2, <1>3, <1>4, CacheAlone, SkipHolds
<1>5. CASE /\ read' = [read EXCEPT !.edits = Len(history)]
           /\ cache' = cache \cup {[key |-> cacheKey(listed), read |-> read']}
           /\ step' = "judge" /\ UNCHANGED <<listed, fixes, labels>>
  <2>1. Len(history) \in Nat \ {0} /\ DOMAIN history = 1..Len(history)
    BY <1>1 DEF HistoryTyped
  <2>2. read \in Reads /\ read.events \in Nat /\ listed \in 1..Len(history)
    BY <1>1, <1>2, <2>1 DEF LoadTyped, Reads
  <2>3. read' \in Reads /\ read'.events = read.events /\ read'.edits = Len(history)
    BY <1>5, <2>1, <2>2 DEF Reads
  <2>4. /\ read.events <= Len(history)
        /\ \A i \in read.events + 1..listed : ByHost(i)
        /\ \A i \in listed + 1..read.events : NotQueued(i)
    BY <1>1, <1>2 DEF EventsFit
  <2>5. LoadTyped'
    BY <1>1, <1>2, <1>5, <2>1, <2>3 DEF LoadTyped
  <2>6. EventsFit'
    BY <1>2, <1>5, <2>3, <2>4 DEF EventsFit, ByHost, NotQueued
  <2>7. CacheFits'
    <3>1. PICK entry : entry = [key |-> cacheKey(listed), read |-> read']
      OBVIOUS
    <3>2. entry.read = read' /\ entry.key[1] = history[listed].at
      BY <2>2, <3>1 DEF cacheKey, updatedAt
    <3>3. \A i \in listed + 1..Len(history) : history[i].at # history[listed].at
      BY <1>1, <1>2 DEF LaterActs
    <3>4. \A i : ByHost(i)' <=> ByHost(i)
      BY <1>2 DEF ByHost
    <3>5. /\ entry.read \in Reads
          /\ entry.read.events <= entry.read.edits /\ entry.read.edits <= Len(history')
          /\ \E l \in DOMAIN history' :
                /\ entry.key[1] = history'[l].at
                /\ \A i \in entry.read.events + 1..l : ByHost(i)'
                /\ \A i \in l + 1..Len(history') : history'[i].at = history'[l].at => ByHost(i)'
      BY <1>2, <2>1, <2>2, <2>3, <2>4, <3>2, <3>3, <3>4
    <3>6. cache' = cache \cup {entry}
      BY <1>5, <3>1
    <3>7. \A other \in cache :
            /\ other.read \in Reads
            /\ other.read.events <= other.read.edits /\ other.read.edits <= Len(history')
            /\ \E l \in DOMAIN history' :
                  /\ other.key[1] = history'[l].at
                  /\ \A i \in other.read.events + 1..l : ByHost(i)'
                  /\ \A i \in l + 1..Len(history') : history'[i].at = history'[l].at => ByHost(i)'
      BY <1>1, <1>2, <3>4 DEF CacheFits
    <3> QED
      BY <3>5, <3>6, <3>7 DEF CacheFits
  <2> QED
    BY <1>3, <1>5, <2>5, <2>6, <2>7 DEF QueueInv, HistoryTyped, LaterActs, PutRight
<1> QED
  BY <1>4, <1>5 DEF bodyEdits

LEMMA JudgeHolds == ASSUME QueueInv, NEW unknown \in SUBSET (People \ {"host"}), Judge(unknown) PROVE QueueInv'
<1>1. /\ HistoryTyped /\ HistoryInOrder /\ LoadTyped /\ EventsFit /\ LaterActs /\ CacheFits /\ PutRight
  BY QueueInvParts
<1>2. UNCHANGED githubVars /\ cache' = cache /\ step = "judge" /\ history' = history
  BY DEF Judge, githubVars
<1>3. HistoryTyped' /\ HistoryInOrder' /\ CacheFits'
  BY <1>1, <1>2, GithubAlone, CacheAlone
<1>4. CASE Skip
  BY <1>3, <1>4, SkipHolds
<1>5. CASE ~ Skip
  <2>1. /\ approval(unknown) /\ OriginsKnown(unknown)
        /\ step' = "fix" /\ fixes' = labelOriginFixes /\ UNCHANGED <<listed, read, labels>>
    BY <1>5 DEF Judge
  <2>2. fixes' \subseteq {"ready", "needs-human"}
    BY <1>1, <2>1 DEF labelOriginFixes, Origins, Trusted, ISSUE_LABEL_RULES, Labels
  <2>3. LoadTyped'
    BY <1>1, <1>2, <2>1, <2>2 DEF LoadTyped
  <2>4. OwnersText(listed)
    BY <1>1, <1>2, <2>1, ApprovedText
  <2>5. "ready" \in labels \ labelOriginFixes => \E n \in Moments : ReadyByOwner(n)
    BY <1>1, <1>2, <2>1, ReadyJudged
  <2>6. "needs-human" \notin labels \cup labelOriginFixes => \E n \in Moments : NotTakenOff(n)
    BY <1>1, <1>2, <2>1, TakenOffJudged
  <2>7. Moments' = Moments
    BY <2>1 DEF Moments
  <2>8. \A n : (ReadyByOwner(n)' <=> ReadyByOwner(n)) /\ (NotTakenOff(n)' <=> NotTakenOff(n))
    BY <1>2 DEF ReadyByOwner, NotTakenOff, Adds, Removals, latest
  <2>9. OwnersText(listed)'
    BY <1>2, <2>1, <2>4 DEF OwnersText, Adds, Edits, latest
  <2>10. PutRight'
    BY <2>1, <2>5, <2>6, <2>7, <2>8, <2>9 DEF PutRight
  <2> QED
    BY <1>3, <2>1, <2>3, <2>10 DEF QueueInv, HistoryTyped, EventsFit, LaterActs
<1> QED
  BY <1>4, <1>5

LEMMA WrittenSays ==
    ASSUME HistoryTyped, NEW l \in Labels, l \in {"ready", "needs-human"}, Written(l)
    PROVE  Grows /\ \A i \in Len(history) + 1..Len(history') : ByHost(i)'
<1>1. CASE history' = history
  BY <1>1, SameGrows DEF HistoryTyped
<1>2. l \in Labels \cup {""} /\ "host" \in People
  BY DEF People
<1>3. CASE Happens("labeled", l, "host")
  <2>1. /\ Grows
        /\ \A i \in Len(history) + 1..Len(history') :
                history'[i].what = "labeled" /\ history'[i].label = l /\ history'[i].by = "host"
    BY <1>2, <1>3, HappensGrows DEF HistoryTyped
  <2> QED
    BY <2>1 DEF ByHost
<1>4. CASE Happens("unlabeled", l, "host")
  <2>1. /\ Grows
        /\ \A i \in Len(history) + 1..Len(history') :
                history'[i].what = "unlabeled" /\ history'[i].label = l /\ history'[i].by = "host"
    BY <1>2, <1>4, HappensGrows DEF HistoryTyped
  <2> QED
    BY <2>1 DEF ByHost
<1> QED
  BY <1>1, <1>3, <1>4 DEF Written

LEMMA FixHolds == ASSUME QueueInv, NEW l \in Labels, Fix(l) PROVE QueueInv'
<1>1. /\ HistoryTyped /\ HistoryInOrder /\ LoadTyped /\ EventsFit /\ LaterActs /\ CacheFits /\ PutRight
  BY QueueInvParts
<1>2. now' = now /\ cache' = cache /\ step = "fix" /\ l \in fixes
  BY DEF Fix
<1>3. l \in {"ready", "needs-human"}
  BY <1>1, <1>2 DEF LoadTyped
<1>4. CASE (Written(l) \/ UNCHANGED history) /\ Skip
  <2>1. Grows
    BY <1>1, <1>3, <1>4, WrittenSays, SameGrows DEF HistoryTyped
  <2>2. HistoryTyped' /\ HistoryInOrder'
    BY <1>1, <1>2, <2>1, HistoryStays DEF HistoryTyped
  <2>3. \A i \in Len(history) + 1..Len(history') : ByHost(i)'
    <3>1. CASE Written(l)
      BY <1>1, <1>3, <3>1, WrittenSays
    <3>2. CASE history' = history
      BY <1>1, <3>2 DEF HistoryTyped
    <3> QED
      BY <1>4, <3>1, <3>2
  <2>4. CacheFits'
    BY <1>1, <1>2, <2>1, <2>3, CacheStays
  <2> QED
    BY <1>4, <2>2, <2>4, SkipHolds
<1>5. CASE /\ Written(l)
           /\ labels' = IF l \in ISSUE_LABEL_RULES.trustAdds THEN labels \ {l} ELSE labels \cup {l}
           /\ fixes' = fixes \ {l} /\ UNCHANGED <<step, listed, read>>
  <2>1. Grows /\ \A i \in Len(history) + 1..Len(history') : ByHost(i)'
    BY <1>1, <1>3, <1>5, WrittenSays
  <2>2. HistoryTyped' /\ HistoryInOrder'
    BY <1>1, <1>2, <2>1, HistoryStays DEF HistoryTyped
  <2>3. CacheFits'
    BY <1>1, <1>2, <2>1, CacheStays
  <2>4. fixes' \subseteq {"ready", "needs-human"} /\ labels' \subseteq Labels
    BY <1>1, <1>5 DEF LoadTyped
  <2>5. LoadTyped' /\ EventsFit'
    BY <1>1, <1>5, <2>1, <2>4, LoadStays
  <2>6. l = "ready" => labels' = labels \ {l}
    BY <1>5 DEF ISSUE_LABEL_RULES
  <2>7. l = "needs-human" => labels' = labels \cup {l}
    BY <1>5 DEF ISSUE_LABEL_RULES
  <2>8. "ready" \in labels' \ fixes' => "ready" \in labels \ fixes
    BY <1>3, <1>5, <2>6, <2>7
  <2>9. "needs-human" \notin labels' \cup fixes' => "needs-human" \notin labels \cup fixes
    BY <1>3, <1>5, <2>6, <2>7
  <2>10. PutRight'
    BY <1>1, <1>5, <2>1, <2>8, <2>9, PutRightStays
  <2> QED
    BY <1>2, <1>5, <2>2, <2>3, <2>5, <2>10 DEF QueueInv, HistoryTyped, LaterActs
<1> QED
  BY <1>4, <1>5 DEF Fix

LEMMA EndLoadHolds == ASSUME QueueInv, EndLoad PROVE QueueInv'
<1>1. HistoryTyped /\ HistoryInOrder /\ CacheFits
  BY QueueInvParts
<1>2. UNCHANGED githubVars /\ cache' = cache /\ Skip
  BY DEF EndLoad
<1> QED
  BY <1>1, <1>2, GithubAlone, CacheAlone, SkipHolds

LEMMA QueueInitHolds == QueueInit => QueueInv
<1> SUFFICES ASSUME QueueInit PROVE QueueInv
  OBVIOUS
<1>1. PICK first \in Changes, second \in Changes :
        history = <<first, second>> /\ first.at = 0 /\ second.at = 0
  <2>1. PICK by \in {"owner", "stranger"}, renamer \in {"owner", "stranger"},
             judged \in {"ready", "needs-human"} :
            \E other \in {[what |-> "labeled", label |-> judged, by |-> "host", at |-> 0],
                          [what |-> "renamed", label |-> "", by |-> renamer, at |-> 0]} :
                history = <<[what |-> "labeled", label |-> Queue, by |-> by, at |-> 0], other>>
    BY DEF QueueInit
  <2>2. [what |-> "labeled", label |-> Queue, by |-> by, at |-> 0] \in Changes
    BY DEF Changes, People, Labels
  <2>3. /\ [what |-> "labeled", label |-> judged, by |-> "host", at |-> 0] \in Changes
        /\ [what |-> "renamed", label |-> "", by |-> renamer, at |-> 0] \in Changes
    BY DEF Changes, People, Labels
  <2> QED
    BY <2>1, <2>2, <2>3
<1>2. now = 0 /\ step = "off" /\ listed = 0 /\ read = None /\ cache = {} /\ fixes = {} /\ labels = {}
  BY DEF QueueInit
<1>3. history \in Seq(Changes) /\ history # <<>> /\ Len(history) = 2 /\ DOMAIN history = 1..2
  BY <1>1
<1>4. \A i \in DOMAIN history : history[i].at = 0
  BY <1>1, <1>3
<1>5. HistoryInOrder
  BY <1>2, <1>3, <1>4 DEF HistoryInOrder
<1>6. LoadTyped
  BY <1>2, <1>3 DEF LoadTyped
<1> QED
  BY <1>2, <1>3, <1>5, <1>6 DEF QueueInv, EventsFit, LaterActs, CacheFits, PutRight

LEMMA QueueStep == ASSUME Apart, QueueInv, [QueueNext]_queueVars PROVE QueueInv'
<1>1. CASE Act
  BY <1>1, ActHolds
<1>2. CASE Tick
  BY <1>2, TickHolds
<1>3. CASE startQueueRound
  BY <1>3, RoundHolds
<1>4. CASE List
  BY <1>4, ListHolds
<1>5. CASE issueEvents
  BY <1>5, EventsHolds
<1>6. CASE bodyEdits
  BY <1>6, EditsHolds
<1>7. CASE EndLoad
  BY <1>7, EndLoadHolds
<1>8. CASE \E unknown \in SUBSET (People \ {"host"}) : Judge(unknown)
  BY <1>8, JudgeHolds
<1>9. CASE \E l \in Labels : Fix(l)
  BY <1>9, FixHolds
<1>10. CASE UNCHANGED queueVars
  <2>1. UNCHANGED githubVars /\ history' = history /\ UNCHANGED <<step, listed, read, cache, fixes, labels>>
    BY <1>10 DEF queueVars, githubVars, loadVars
  <2>2. HistoryTyped /\ HistoryInOrder /\ LoadTyped /\ EventsFit /\ LaterActs /\ CacheFits /\ PutRight
    BY QueueInvParts
  <2>3. HistoryTyped' /\ HistoryInOrder' /\ CacheFits'
    BY <2>1, <2>2, GithubAlone, CacheAlone
  <2>4. LoadTyped' /\ EventsFit' /\ PutRight'
    BY <2>1, <2>2, SameGrows, LoadStays, PutRightStays DEF LoadTyped, HistoryTyped
  <2>5. LaterActs'
    BY <2>1, <2>2 DEF LaterActs, NotQueued
  <2> QED
    BY <2>3, <2>4, <2>5 DEF QueueInv, HistoryTyped
<1> QED
  BY <1>1, <1>2, <1>3, <1>4, <1>5, <1>6, <1>7, <1>8, <1>9, <1>10 DEF QueueNext, Load

\* Reads fit the listing they are judged with, and what is put right stays right.
THEOREM QueueInvHolds == ASSUME Apart PROVE QueueSpec => []QueueInv
<1> QED
  BY QueueInitHolds, QueueStep, PTL DEF QueueSpec

\* What an agent is given is text that was the owner's when the owner last queued
\* the issue (approval, queue.mts:75), whatever others do while a load reads.
THEOREM KeepsApprovedTextHolds == ASSUME Apart PROVE QueueSpec => []KeepsApprovedText
<1>1. QueueInv => KeepsApprovedText
  <2> SUFFICES ASSUME QueueInv, GoesOn PROVE \E n \in Moments : OwnersText(n) /\ TextAt(n) = TextAt(listed)
    BY DEF KeepsApprovedText
  <2>1. step = "fix" /\ HistoryTyped /\ LoadTyped /\ PutRight
    BY QueueInvParts DEF GoesOn
  <2>2. listed \in Moments /\ OwnersText(listed)
    BY <2>1, MomentsSay DEF PutRight
  <2> QED
    BY <2>2
<1> QED
  BY <1>1, QueueInvHolds, PTL

\* It goes on as ready, and as not handed back, only by the owner's or the host's
\* doing (labelOriginFixes, queue.mts:130).
THEOREM TrustsOwnersLabelsHolds == ASSUME Apart PROVE QueueSpec => []TrustsOwnersLabels
<1>1. QueueInv => TrustsOwnersLabels
  <2> SUFFICES ASSUME QueueInv, GoesOn PROVE TrustsOwnersLabels
    BY DEF TrustsOwnersLabels
  <2>1. step = "fix" /\ fixes = {} /\ HistoryTyped /\ LoadTyped /\ PutRight
    BY QueueInvParts DEF GoesOn
  <2>2. "ready" \in labels => \E n \in Moments : history[latest(Adds(n, "ready"))].by \in Owners
    BY <2>1 DEF PutRight, ReadyByOwner
  <2>3. ASSUME "needs-human" \notin labels
        PROVE  \E n \in Moments :
                  \/ latest(Removals(n, "needs-human")) \in {0} \cup 0..latest(Adds(n, "needs-human"))
                  \/ history[latest(Removals(n, "needs-human"))].by \in Owners
    <3>1. PICK n \in Moments : NotTakenOff(n)
      BY <2>1, <2>3 DEF PutRight
    <3>2. n \in Nat
      BY <2>1, MomentsSay DEF HistoryTyped
    <3>3. latest(Removals(n, "needs-human")) \in 0..n /\ latest(Adds(n, "needs-human")) \in 0..n
      BY <3>2, AddsTyped, LatestSays
    <3> QED
      BY <3>1, <3>3 DEF NotTakenOff
  <2> QED
    BY <2>2, <2>3 DEF TrustsOwnersLabels
<1> QED
  BY <1>1, QueueInvHolds, PTL

=============================================================================
