------------------------------ MODULE Rounds ------------------------------
(***************************************************************************)
(* The round loop of a full Sandcastle run (.sandcastle/main.mts): gate,   *)
(* plan, overlap check, critique, builds in parallel, summary, and again,  *)
(* up to MAX_ITERATIONS times.  The planner and the critique are model     *)
(* runs that may answer anything; what the host does with their answers is *)
(* code.  Meanwhile people and other runs open, merge and close pull       *)
(* requests.                                                               *)
(***************************************************************************)
EXTENDS Overlap

CONSTANTS
    Issues,          \* the queue's issues
    Nobody,          \* the issue of a pull request no issue's branch opened
    FileLists,       \* what the planner can name as an issue's files
    ChangedFiles,    \* what a pull request can change
    MAX_ITERATIONS,  \* rounds in a run
    MaxPRs           \* bound on the pull requests ever opened

ASSUME RoundsAssumption ==
    /\ Nobody \notin Issues
    /\ FileLists \subseteq Seq(Paths)
    /\ ChangedFiles \subseteq SUBSET Paths
    /\ MAX_ITERATIONS \in Nat /\ MaxPRs \in Nat

VARIABLES
    open,          \* the issues still open
    links,         \* the "blocked by" links
    prs,           \* the pull requests into main: [number, issue, files, state]
    stopping,      \* the time budget has passed or the usage limit was hit
    phase,         \* where the run is
    round,         \* its iteration
    heldForFiles,  \* the issues the overlap check holds for the rest of the run
    ready,         \* the gate's ready issues, as read
    kept,          \* the picks to build
    overlaps,      \* the picks held this round, and behind what
    checkedAt,     \* the pull requests the overlap check saw are 1..checkedAt
    settled        \* how each build of the round ended

vars == <<open, links, prs, stopping, phase, round, heldForFiles, ready, kept, overlaps,
          checkedAt, settled>>

\* How a build can end: a pull request, none, or a stop on a limit.
Outcomes == {"published", "unpublished", "stopped"}

OpenPRs == {pr \in prs : pr.state = "open"}
Numbers(picks) == {picks[k].number : k \in DOMAIN picks}

\* A build has not settled.
Unsettled == Numbers(kept) \ DOMAIN settled

NoCycle(waitsOn) ==
    \A S \in SUBSET Issues \ {{}} : \E x \in S : waitsOn[x] \cap S = {}

Init ==
    /\ open = Issues
    /\ links = [i \in Issues |-> {}]
    /\ prs = {}
    /\ stopping = FALSE
    /\ phase = "top"
    /\ round = 0
    /\ heldForFiles = {}
    /\ ready = {}
    /\ kept = <<>>
    /\ overlaps = <<>>
    /\ checkedAt = 0
    /\ settled = <<>>

-----------------------------------------------------------------------------
(* The pull requests.                                                        *)

\* prs with one more.
WithPR(issue, files) ==
    prs \cup {[number |-> Cardinality(prs) + 1, issue |-> issue, files |-> files, state |-> "open"]}

\* A person or another run opens one: for an issue, or for none.
OpenPR(issue, files) ==
    /\ Cardinality(prs) < MaxPRs
    /\ prs' = WithPR(issue, files)
    /\ UNCHANGED <<open, links, stopping, phase, round, heldForFiles, ready, kept, overlaps,
                   checkedAt, settled>>

\* It merges, which closes its issue as completed, or is closed.
EndPR(pr, state) ==
    /\ pr \in OpenPRs
    /\ prs' = (prs \ {pr}) \cup {[pr EXCEPT !.state = state]}
    /\ open' = IF state = "merged" THEN open \ {pr.issue} ELSE open
    /\ UNCHANGED <<links, stopping, phase, round, heldForFiles, ready, kept, overlaps,
                   checkedAt, settled>>

\* The time budget passes, or a role meets the usage limit.
LimitHit ==
    /\ phase # "ended" /\ ~stopping
    /\ stopping' = TRUE
    /\ UNCHANGED <<open, links, prs, phase, round, heldForFiles, ready, kept, overlaps,
                   checkedAt, settled>>

-----------------------------------------------------------------------------
(* The round.                                                                *)

\* The run is over, and the next one starts afresh from GitHub.
End ==
    /\ phase' = "ended"
    /\ heldForFiles' = {}
    /\ ready' = {}
    /\ kept' = <<>>
    /\ overlaps' = <<>>
    /\ checkedAt' = 0
    /\ settled' = <<>>
    /\ UNCHANGED round

\* A role that would start after a limit was hit throws UncountedStopError, a
\* plan that cannot be read or a failed read of GitHub or git throws, up to
\* where the round's builds start: the run ends.
Throw ==
    /\ phase \in {"top", "plan", "critique"} \/ (phase = "build" /\ settled = <<>>)
    /\ End
    /\ UNCHANGED <<open, links, prs, stopping>>

\* The blockers of an issue, by native link or a line of its body, that have yet
\* to land.
unfinished(i) == links[i] \cap open

\* The open issues with no open pull request from their branch and no blocker
\* that has yet to land.
Unblocked == {i \in open : unfinished(i) = {} /\ \A pr \in OpenPRs : pr.issue # i}

RoundsLeft == round < MAX_ITERATIONS

\* The gate: any unblocked issue may still be held back, by its labels (intake
\* has not cleared it, it is handed back, another run builds it) or by a link
\* that cannot be read.  A round with nothing to plan ends the run.
StartRound ==
    /\ phase = "top"
    /\ \/ (stopping \/ ~RoundsLeft) /\ End
       \/ /\ ~stopping /\ RoundsLeft
          /\ \E passing \in SUBSET Unblocked :
                IF passing \ heldForFiles = {} THEN End
                ELSE /\ round' = round + 1
                     /\ phase' = "plan"
                     /\ ready' = passing
                     /\ UNCHANGED <<heldForFiles, kept, overlaps, checkedAt, settled>>
    /\ UNCHANGED <<open, links, prs, stopping>>

\* Every order the planner can name a set of issues in, with files for each.
PlansFor(issues) ==
    UNION {[1..n -> [number : issues, files : FileLists]] : n \in 0..Cardinality(issues)}

\* The next round, with what lasts of this one.
NextRound(lasting) ==
    /\ phase' = "top"
    /\ heldForFiles' = heldForFiles \cup lasting
    /\ ready' = {}
    /\ kept' = <<>>
    /\ overlaps' = <<>>
    /\ checkedAt' = 0
    /\ settled' = <<>>
    /\ UNCHANGED round

\* planRound and holdOverlappingPicks: the planner sees the ready issues that
\* are not held for their files; the check reads the pull requests when it
\* has answered.  readyPicks drops a repeated issue.
PlanRound(planned) ==
    /\ phase = "plan" /\ ~stopping
    /\ \A j, k \in DOMAIN planned : j # k => planned[j].number # planned[k].number
    /\ LET holds == findOverlaps(planned, OpenPRs)
           keeps == keptOf(planned, holds)
       IN  IF planned = <<>> THEN End
           ELSE IF DOMAIN keeps = {} THEN NextRound(lastingHolds(holds, {}))
           ELSE /\ phase' = "critique"
                /\ kept' = keeps
                /\ overlaps' = holds
                /\ checkedAt' = Cardinality(prs)
                /\ UNCHANGED <<round, heldForFiles, ready, settled>>
    /\ UNCHANGED <<open, links, prs, stopping>>

\* What critiqueRound can return: the picks it did not defer, or, when it failed
\* and deferred none, the planner's first pick alone.
critiqued(deferred) ==
    {keptOf(kept, deferred)} \cup
        IF deferred = <<>> THEN {Restrict(kept, {Lowest(DOMAIN kept)})} ELSE {}

\* deferred maps each pick the critique defers to its blocker, an open issue
\* that waits on it through no chain; the link goes on GitHub.
CritiqueRound(deferred) ==
    LET linked == [i \in Issues |-> links[i] \cup (IF i \in DOMAIN deferred THEN {deferred[i]} ELSE {})]
    IN  /\ phase = "critique" /\ ~stopping
        /\ \A i \in DOMAIN deferred : deferred[i] \in open
        /\ NoCycle(linked)
        /\ links' = linked
        /\ IF DOMAIN keptOf(kept, deferred) = {}
           THEN NextRound(lastingHolds(overlaps, {}))
           ELSE /\ phase' = "build"
                /\ kept' \in critiqued(deferred)
                /\ UNCHANGED <<round, heldForFiles, ready, overlaps, checkedAt, settled>>
        /\ UNCHANGED <<open, prs, stopping>>

\* A build opens its pull request, whose files need not be the planned ones; or
\* fails, which may be after it opened one; or stops on a limit.
Settle(i, outcome) ==
    /\ phase = "build" /\ i \in Unsettled
    /\ settled' = [j \in DOMAIN settled \cup {i} |-> IF j = i THEN outcome ELSE settled[j]]
    /\ \/ /\ outcome \in {"published", "unpublished"} /\ Cardinality(prs) < MaxPRs
          /\ \E files \in ChangedFiles : prs' = WithPR(i, files)
       \/ /\ outcome = "unpublished" \/ (outcome = "stopped" /\ stopping)
          /\ UNCHANGED prs
    /\ UNCHANGED <<open, links, stopping, phase, round, heldForFiles, ready, kept, overlaps,
                   checkedAt>>

publishedIssues == {i \in DOMAIN settled : settled[i] = "published"}

\* Mutant of EndRound: the round after one that published nothing goes on.
EndRoundRegardless ==
    /\ phase = "build" /\ Unsettled = {}
    /\ IF \E i \in DOMAIN settled : settled[i] = "stopped" THEN End
       ELSE NextRound(lastingHolds(overlaps, publishedIssues))
    /\ UNCHANGED <<open, links, prs, stopping>>

\* roundSummary: the run goes on only if a pull request opened and no build
\* stopped on a limit.
EndRound ==
    /\ phase = "build" /\ Unsettled = {}
    /\ IF publishedIssues = {} \/ \E i \in DOMAIN settled : settled[i] = "stopped" THEN End
       ELSE NextRound(lastingHolds(overlaps, publishedIssues))
    /\ UNCHANGED <<open, links, prs, stopping>>

Next ==
    \/ StartRound \/ Throw \/ EndRound \/ LimitHit
    \/ \E planned \in PlansFor(ready \ heldForFiles) : PlanRound(planned)
    \/ \E deferring \in SUBSET Numbers(kept) :
          \E deferred \in [deferring -> Issues] : CritiqueRound(deferred)
    \/ \E i \in Issues, outcome \in Outcomes : Settle(i, outcome)
    \/ \E issue \in open \cup {Nobody}, files \in ChangedFiles : OpenPR(issue, files)
    \/ \E pr \in OpenPRs, state \in {"merged", "closed"} : EndPR(pr, state)

Spec == Init /\ [][Next]_vars

-----------------------------------------------------------------------------

Clash(files, others) ==
    \E k \in DOMAIN files, other \in others : sharesPath(files[k], other)

\* Two builds of a round never name the same file, and a build whose files
\* nobody named is the only one.
BuildsDisjoint ==
    \A j, k \in DOMAIN kept : j # k =>
        /\ kept[j].files # <<>>
        /\ ~Clash(kept[j].files, ToSet(kept[k].files))

\* A build names no file of a pull request that was open when the overlap
\* check read them and still is, and one that names none runs with no such
\* pull request open.
BuildsClearOfPRs ==
    \A k \in DOMAIN kept : \A pr \in OpenPRs : pr.number <= checkedAt =>
        kept[k].files # <<>> /\ ~Clash(kept[k].files, pr.files)

\* A pick is held only behind work that goes on: a pick of this round that is
\* not itself held, or a pull request the check read.  So no picks wait on
\* each other.
HeldBehindWork ==
    phase = "critique" =>
        \A i \in DOMAIN overlaps :
            \/ overlaps[i].kind = "pick" /\ overlaps[i].blocker \in Numbers(kept)
            \/ overlaps[i].kind = "pr" /\ overlaps[i].blocker \in 1..checkedAt

\* A run that goes on to another round does not plan the same picks again for
\* nothing: a pull request opened, a link was added or an issue is now held
\* (main.mts:284).
EveryRoundCounts ==
    [][phase # "top" /\ phase' = "top" =>
          \/ publishedIssues # {}
          \/ links' # links
          \/ heldForFiles' # heldForFiles]_vars

\* An issue stays out of the rest of the run only for a pull request that was
\* open when the check ran or that its blocker opened in this round.
HoldsLastForAReason ==
    [][\A i \in heldForFiles' \ heldForFiles :
          \E pr \in prs :
              IF phase = "plan" THEN pr.state = "open"
              ELSE IF overlaps[i].kind = "pr" THEN pr.number = overlaps[i].blocker
              ELSE pr.issue = overlaps[i].blocker /\ pr.number > checkedAt]_vars
=============================================================================
