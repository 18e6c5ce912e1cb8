------------------------------ MODULE Overlap ------------------------------
(***************************************************************************)
(* The host's file-overlap check (.sandcastle/lib/overlap.mts): which of   *)
(* the planner's picks are held back this round because their planned      *)
(* files share a path with a pick kept earlier or with an open pull        *)
(* request, and which of those holds last for the rest of the run.         *)
(*                                                                         *)
(* A pick is [number, files], files a sequence of paths in the planner's   *)
(* order ("touches anything" when empty); a pull request has a number and  *)
(* a set of files.  The picks are a function of their place in that order, *)
(* so that leaving some out moves no other.                                *)
(***************************************************************************)
EXTENDS Naturals, SequencesExt

CONSTANTS
    Paths,    \* the paths picks and pull requests name
    Covers,   \* <<folder, path>> for every path under a folder
    Copies    \* {a, b} for a Template file and its root copy

ASSUME PathAssumption == Covers \subseteq Paths \X Paths /\ Copies \subseteq SUBSET Paths

\* A Template file and its root copy are one file (pathKey).
copiesOf(path) == UNION {pair \in Copies : path \in pair}

aliases(path) == {path} \cup copiesOf(path)

\* The same file, or one a folder holding the other, under any of its names.
sharesPath(a, b) ==
    \E left \in aliases(a), right \in aliases(b) :
        left = right \/ <<left, right>> \in Covers \/ <<right, left>> \in Covers

NoOverlap == [kind |-> "none"]
BehindPick(number) == [kind |-> "pick", blocker |-> number]
BehindPR(number) == [kind |-> "pr", blocker |-> number]

Lowest(numbers) == CHOOSE n \in numbers : \A m \in numbers : n <= m

\* Mutant of firstOverlap: a pull request's file inside a planned folder does
\* not count.
firstOverlapExact(files, claimed, picks, pullRequests) ==
    LET claimsOn(path) == {j \in claimed : \E file \in ToSet(picks[j].files) : sharesPath(path, file)}
        changing(path) == {pr \in pullRequests : path \in pr.files}
        hits == {k \in DOMAIN files : claimsOn(files[k]) # {} \/ changing(files[k]) # {}}
        path == files[Lowest(hits)]
    IN  IF hits = {} THEN NoOverlap
        ELSE IF claimsOn(path) # {} THEN BehindPick(picks[Lowest(claimsOn(path))].number)
        ELSE BehindPR(Lowest({pr.number : pr \in changing(path)}))

\* What the first path that overlaps anything is held behind: the earliest pick
\* that claimed it, or else the lowest-numbered pull request that changes it.
firstOverlap(files, claimed, picks, pullRequests) ==
    LET claimsOn(path) == {j \in claimed : \E file \in ToSet(picks[j].files) : sharesPath(path, file)}
        changing(path) == {pr \in pullRequests : \E file \in pr.files : sharesPath(path, file)}
        hits == {k \in DOMAIN files : claimsOn(files[k]) # {} \/ changing(files[k]) # {}}
        path == files[Lowest(hits)]
    IN  IF hits = {} THEN NoOverlap
        ELSE IF claimsOn(path) # {} THEN BehindPick(picks[Lowest(claimsOn(path))].number)
        ELSE BehindPR(Lowest({pr.number : pr \in changing(path)}))

withFiles(picks) == {k \in DOMAIN picks : picks[k].files # <<>>}

\* Mutant of walkPicks: a held pick claims its paths too.
walkPicksClaimAll(picks, pullRequests) ==
    LET found[k \in DOMAIN picks] ==
            firstOverlap(picks[k].files, {j \in withFiles(picks) : j < k}, picks, pullRequests)
    IN  found

\* The walk in the planner's order: what each pick with files overlaps, among
\* the pull requests and the picks kept before it.  A held pick claims nothing.
walkPicks(picks, pullRequests) ==
    LET found[k \in DOMAIN picks] ==
            firstOverlap(picks[k].files,
                         {j \in withFiles(picks) : j < k /\ found[j] = NoOverlap},
                         picks, pullRequests)
    IN  found

\* Mutant of noFilesBlocker: the claims of kept picks are not looked at.
noFilesBlockerAlone(picks, claimed, pullRequests) ==
    LET noFiles == DOMAIN picks \ withFiles(picks)
    IN  IF pullRequests # {} THEN BehindPR(Lowest({pr.number : pr \in pullRequests}))
        ELSE IF noFiles # {} THEN BehindPick(picks[Lowest(noFiles)].number)
        ELSE NoOverlap

\* What the picks with no files wait on: the lowest-numbered pull request, or
\* the first kept pick, or else the first of themselves, which is built.
noFilesBlocker(picks, claimed, pullRequests) ==
    LET noFiles == DOMAIN picks \ withFiles(picks)
    IN  IF pullRequests # {} THEN BehindPR(Lowest({pr.number : pr \in pullRequests}))
        ELSE IF claimed # {} THEN BehindPick(picks[Lowest(claimed)].number)
        ELSE IF noFiles # {} THEN BehindPick(picks[Lowest(noFiles)].number)
        ELSE NoOverlap

\* The picks to hold back, by number, and what each is held behind.
findOverlaps(picks, pullRequests) ==
    LET found == walkPicks(picks, pullRequests)
        blocker == noFilesBlocker(picks, {k \in withFiles(picks) : found[k] = NoOverlap}, pullRequests)
        overlap(k) == IF picks[k].files # <<>> THEN found[k]
                      ELSE IF blocker = BehindPick(picks[k].number) THEN NoOverlap
                      ELSE blocker
        held == {k \in DOMAIN picks : overlap(k) # NoOverlap}
    IN  [n \in {picks[k].number : k \in held} |->
            overlap(CHOOSE k \in held : picks[k].number = n)]

\* The picks that are left, each in its place of the planner's order.
keptOf(picks, overlaps) ==
    Restrict(picks, {k \in DOMAIN picks : picks[k].number \notin DOMAIN overlaps})

\* Mutant of lastingHolds: every hold lasts the run.
lastingHoldsAll(overlaps, published) == DOMAIN overlaps

\* The holds that last for the rest of the run: behind an open pull request,
\* or behind a pick that opened one.
lastingHolds(overlaps, published) ==
    {n \in DOMAIN overlaps : \/ overlaps[n].kind = "pr"
                             \/ overlaps[n].blocker \in published}
=============================================================================
