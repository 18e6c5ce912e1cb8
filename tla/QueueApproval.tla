---------------------------- MODULE QueueApproval ----------------------------
(***************************************************************************)
(* Which queued issue reaches an agent (.sandcastle/lib/queue.mts): the    *)
(* one whose last queueing was the owner's, with no edit of a stranger's   *)
(* since, and whose sandcastle:ready and sandcastle:needs-human are the    *)
(* owner's doing, or are put right.  One issue is followed.                *)
(*                                                                         *)
(* What GitHub knows of it is its history, in which every read is of a     *)
(* prefix: a load lists the issue, then reads its events, then its body's  *)
(* edits, while people go on; the reads are kept for the round under what  *)
(* the listing showed, in which times are to the second.                   *)
(***************************************************************************)
EXTENDS Naturals, Sequences, FiniteSetsExt

CONSTANTS
    MaxEvents,       \* bound on the history people make
    MaxTime,         \* bound on the seconds
    RequeueMidLoad,  \* whether the owner may queue the issue during a load
    SharedSeconds,   \* whether people act again in the second a load read in
    None             \* no read yet

ASSUME BoundsAssumption == MaxEvents \in Nat /\ MaxTime \in Nat
ASSUME FlagsAssumption == RequeueMidLoad \in BOOLEAN /\ SharedSeconds \in BOOLEAN

VARIABLES
    history,  \* what was done to the issue, oldest first
    now,      \* the second
    step,     \* where the load is
    listed,   \* how much of the history the listing shows
    read,     \* how much of it the events and the edits read show
    cache,    \* this round's reads
    fixes,    \* the labels still to put right
    labels    \* the issue's labels as the load has them

githubVars == <<history, now>>
loadVars == <<step, listed, read, cache, fixes, labels>>
queueVars == <<githubVars, loadVars>>

Queue == "sandcastle"
ISSUE_LABEL_RULES == [trustAdds |-> {"ready"}, trustRemovals |-> {"needs-human"}]
Labels == {Queue, "ready", "needs-human"}
People == {"owner", "stranger", "host"}
Owners == People \ {"stranger"}

-----------------------------------------------------------------------------
(* An issue after the first n things done to it.                             *)

Adds(n, label) == {i \in 1..n : history[i].what = "labeled" /\ history[i].label = label}
Removals(n, label) == {i \in 1..n : history[i].what = "unlabeled" /\ history[i].label = label}
latest(indices) == Max({0} \cup indices)

LabelsAt(n) == {l \in Labels : latest(Adds(n, l)) > latest(Removals(n, l))}

\* A title or a body is one of two, and each edit makes it the other.
Edits(n, what) == {i \in 1..n : history[i].what = what}
TextAt(n) == [what \in {"renamed", "edited"} |-> Cardinality(Edits(n, what)) % 2]

updatedAt(n) == IF n = 0 THEN 0 ELSE history[n].at

\* Mutant of cacheKey: labels and text only.
cacheKeyUndated(n) == <<0, LabelsAt(n), TextAt(n)>>

\* What a listing shows: the key of a round's reads.
cacheKey(n) == <<updatedAt(n), LabelsAt(n), TextAt(n)>>

\* Someone put the issue in the queue, and it was judged or renamed since.
QueueInit ==
    /\ \E by, renamer \in {"owner", "stranger"}, judged \in {"ready", "needs-human"} :
            \E second \in {[what |-> "labeled", label |-> judged, by |-> "host", at |-> 0],
                           [what |-> "renamed", label |-> "", by |-> renamer, at |-> 0]} :
                history = <<[what |-> "labeled", label |-> Queue, by |-> by, at |-> 0], second>>
    /\ now = 0
    /\ step = "off" /\ listed = 0 /\ read = None /\ cache = {}
    /\ fixes = {} /\ labels = {}

-----------------------------------------------------------------------------
(* GitHub and the people on it.                                              *)

Happens(what, label, by) ==
    history' = Append(history, [what |-> what, label |-> label, by |-> by, at |-> now])

Carried == LabelsAt(Len(history))

\* The owner and others label the issue, rename it and edit its body.
Touch(by) ==
    \/ \E l \in Labels \ Carried :
        /\ RequeueMidLoad \/ step = "off" \/ by # "owner" \/ l # Queue
        /\ Happens("labeled", l, by)
    \/ \E l \in Carried : Happens("unlabeled", l, by)
    \/ \E what \in {"renamed", "edited"} : Happens(what, "", by)

\* The host's other phases label what they judged ready or hand back.
Judged == step = "off" /\ \E l \in {"ready", "needs-human"} \ Carried : Happens("labeled", l, "host")

Act ==
    /\ Len(history) < MaxEvents
    /\ SharedSeconds \/ \A time \in {entry.key[1] : entry \in cache} : time # now
    /\ SharedSeconds \/ step = "off" \/ updatedAt(listed) # now
    /\ Touch("owner") \/ Touch("stranger") \/ Judged
    /\ UNCHANGED <<now, loadVars>>

Tick == now < MaxTime /\ now' = now + 1 /\ UNCHANGED <<history, loadVars>>

-----------------------------------------------------------------------------
(* loadQueue.                                                                *)

\* The sweep, intake and the gate of a round share one read of the issue.
startQueueRound ==
    /\ step = "off" /\ cache # {} /\ cache' = {}
    /\ UNCHANGED <<githubVars, step, listed, read, fixes, labels>>

List ==
    /\ step = "off" /\ Queue \in Carried
    /\ listed' = Len(history) /\ labels' = Carried
    /\ LET known == {entry \in cache : entry.key = cacheKey(listed')}
       IN  \/ known = {} /\ step' = "events" /\ read' = None
          \/ \E entry \in known : step' = "judge" /\ read' = entry.read
    /\ UNCHANGED <<githubVars, cache, fixes>>

\* A skipped issue is left as it is and met again by the next load.
Skip == step' = "off" /\ listed' = 0 /\ read' = None /\ fixes' = {} /\ labels' = {}

\* The events list may not show yet what the host has just added.
issueEvents ==
    /\ step = "events"
    /\ \/ /\ \E n \in {Len(history), Len(history) - 1} :
            /\ n < Len(history) => latest(DOMAIN history) \in Adds(Len(history), "ready") /\ history[n + 1].by = "host"
            /\ read' = [events |-> n, edits |-> 0]
          /\ step' = "edits" /\ UNCHANGED <<listed, fixes, labels>>
       \/ Skip
    /\ UNCHANGED <<githubVars, cache>>

bodyEdits ==
    /\ step = "edits"
    /\ \/ /\ read' = [read EXCEPT !.edits = Len(history)]
          /\ cache' = cache \cup {[key |-> cacheKey(listed), read |-> read']}
          /\ step' = "judge" /\ UNCHANGED <<listed, fixes, labels>>
       \/ Skip /\ UNCHANGED cache
    /\ UNCHANGED githubVars

\* Mutant of approval: what happened in the second of the add came before it.
approvalAfter(unknown) ==
    LET queued == latest(Adds(read.events, Queue))
        changes == {i \in Edits(read.events, "renamed") \cup Edits(read.edits, "edited") :
                        history[i].at > history[queued].at}
    IN  /\ queued # 0
        /\ \A i \in changes \cup {queued} : history[i].by \in Owners \ unknown

\* The last add of the queue label is the owner's, and so is every edit but those
\* provably before it.  A lookup that fails approves nothing.
approval(unknown) ==
    LET queued == latest(Adds(read.events, Queue))
        changes == {i \in Edits(read.events, "renamed") \cup Edits(read.edits, "edited") :
                        ~ (history[i].at < history[queued].at)}
    IN  /\ queued # 0
        /\ \A i \in changes \cup {queued} : history[i].by \in Owners \ unknown

\* The trusted labels as they are: those to be on only by the owner's word that the
\* issue carries, and those to be off only by it that someone took off.
Trusted ==
    (labels \cap ISSUE_LABEL_RULES.trustAdds) \cup
    {l \in ISSUE_LABEL_RULES.trustRemovals \ labels :
        latest(Removals(read.events, l)) > latest(Adds(read.events, l))}

\* The change each of them rests on: its last add or its last removal (0 if the
\* events lack it).
Origins ==
    [l \in Trusted |->
        latest(IF l \in ISSUE_LABEL_RULES.trustAdds THEN Adds(read.events, l) ELSE Removals(read.events, l))]

\* The labels whose origin is a stranger's.
labelOriginFixes == {l \in DOMAIN Origins : history[Origins[l]].by = "stranger"}

\* All of them known, or the issue is skipped: no write rests on a guess.
OriginsKnown(unknown) ==
    \A l \in DOMAIN Origins : Origins[l] # 0 /\ history[Origins[l]].by \notin unknown

Judge(unknown) ==
    /\ step = "judge"
    /\ IF approval(unknown) /\ OriginsKnown(unknown)
       THEN step' = "fix" /\ fixes' = labelOriginFixes /\ UNCHANGED <<listed, read, labels>>
       ELSE Skip
    /\ UNCHANGED <<githubVars, cache>>

\* Mutant of Written: a label to take off is only forgotten.
WrittenAdds(l) ==
    IF l \in ISSUE_LABEL_RULES.trustAdds \/ l \in Carried
    THEN UNCHANGED history ELSE Happens("labeled", l, "host")

\* Takes a stranger's label off, or puts back one a stranger took off.
Written(l) ==
    IF l \in ISSUE_LABEL_RULES.trustAdds
    THEN IF l \in Carried THEN Happens("unlabeled", l, "host") ELSE UNCHANGED history
    ELSE IF l \in Carried THEN UNCHANGED history ELSE Happens("labeled", l, "host")

\* A write that fails may have been applied; the issue is skipped.
Fix(l) ==
    /\ step = "fix" /\ l \in fixes
    /\ \/ /\ Written(l)
          /\ labels' = IF l \in ISSUE_LABEL_RULES.trustAdds THEN labels \ {l} ELSE labels \cup {l}
          /\ fixes' = fixes \ {l} /\ UNCHANGED <<step, listed, read>>
       \/ (Written(l) \/ UNCHANGED history) /\ Skip
    /\ UNCHANGED <<now, cache>>

\* Once nothing is left to put right the issue goes on to an agent.
GoesOn == step = "fix" /\ fixes = {}

EndLoad == GoesOn /\ Skip /\ UNCHANGED <<githubVars, cache>>

Load ==
    \/ startQueueRound \/ List \/ issueEvents \/ bodyEdits \/ EndLoad
    \/ \E unknown \in SUBSET (People \ {"host"}) : Judge(unknown)
    \/ \E l \in Labels : Fix(l)

QueueNext == Act \/ Tick \/ Load

QueueSpec == QueueInit /\ [][QueueNext]_queueVars

-----------------------------------------------------------------------------

\* The moments of a load, from its listing to the last of its reads.
Moments == listed..Max({listed, read.edits})

\* Nobody but the owner touched the text since the owner last queued the issue.
OwnersText(n) ==
    LET queued == latest(Adds(n, Queue))
    IN  /\ queued # 0 /\ history[queued].by \in Owners
        /\ \A i \in Edits(n, "renamed") \cup Edits(n, "edited") : i > queued => history[i].by \in Owners

\* "only the owner's own queueing, undisturbed by anyone else, reaches an agent"
\* (queue.mts:69): what an agent is given is the text the listing showed, though
\* the queueing is judged by events read later, or earlier in the round.
KeepsApprovedText ==
    GoesOn => \E n \in Moments : OwnersText(n) /\ TextAt(n) = TextAt(listed)

\* An issue goes on as ready only by the owner's word, and without a hand-back
\* label only if no stranger took it off, at some moment of the load.
TrustsOwnersLabels ==
    GoesOn =>
      /\ "ready" \in labels =>
            \E n \in Moments : history[latest(Adds(n, "ready"))].by \in Owners
      /\ "needs-human" \notin labels =>
            \E n \in Moments : \/ latest(Removals(n, "needs-human")) \in {0} \cup 0..latest(Adds(n, "needs-human"))
                               \/ history[latest(Removals(n, "needs-human"))].by \in Owners

\* A failed lookup, read or write is not all a load ever gets.
QueueLiveSpec ==
    /\ QueueSpec
    /\ WF_queueVars(List \/ EndLoad) /\ SF_queueVars(startQueueRound)
    /\ SF_queueVars(issueEvents /\ step' = "edits") /\ SF_queueVars(bodyEdits /\ step' = "judge")
    /\ SF_queueVars(Judge({})) /\ \A l \in Labels : SF_queueVars(Fix(l) /\ step' = "fix")

\* A stranger's edit in the very second of the queueing holds the issue back.
Undisturbed(n) ==
    OwnersText(n) /\ \A i \in Edits(n, "renamed") \cup Edits(n, "edited") :
                        history[i].by \in Owners \/ history[i].at < history[latest(Adds(n, Queue))].at

\* A sandcastle:ready that a stranger put on an issue the owner queued does not
\* stay: it comes off, or the issue's approval goes.
StrangersReady ==
    /\ "ready" \in Carried /\ Queue \in Carried
    /\ history[latest(Adds(Len(history), "ready"))].by = "stranger"
    /\ Undisturbed(Len(history))
StrangersReadyGoes == StrangersReady ~> ~ StrangersReady
=============================================================================
