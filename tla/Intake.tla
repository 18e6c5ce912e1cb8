-------------------------------- MODULE Intake --------------------------------
(***************************************************************************)
(* Intake's rounds over the unjudged issues (.sandcastle/lib/intake.mts):  *)
(* one agent run per batch, a batch whose run fails tried again in halves, *)
(* and the two counts that end a round early.  Some issues always break    *)
(* the answer of the run they are in; now and then a run fails for nothing *)
(* in its batch.  What a verdict does to its issue is IssueSplit's.        *)
(***************************************************************************)
EXTENDS Naturals, SequencesExt, FiniteSetsExt

CONSTANTS
    Queued,                        \* how many issues intake has not judged
    INTAKE_BATCH_SIZE,
    INTAKE_FAILED_RUNS_LIMIT,
    INTAKE_REFUSED_BATCHES_LIMIT,
    MaxBreaking,                   \* bound on the issues that break an answer
    MaxFlakes,                     \* bound on the runs that fail or end by themselves
    None                           \* the round has not stopped

ASSUME CountsAssumption ==
    /\ None \notin {"failed", "refused", "uncounted"}
    /\ Queued \in Nat /\ MaxFlakes \in Nat /\ MaxBreaking \in Nat
    /\ {INTAKE_BATCH_SIZE, INTAKE_FAILED_RUNS_LIMIT, INTAKE_REFUSED_BATCHES_LIMIT} \subseteq Nat \ {0}

VARIABLES
    breaking,       \* the issues whose batch never gets an answer
    flakes,         \* runs that failed or ended by themselves, over all rounds
    settled,        \* judged, by this run or another
    todo,           \* the batches still to judge this round, next first
    answered,       \* the issues whose run answered this round
    failedInARow,   \* runs without an answer since the last with one
    refusedInARow,  \* batches GitHub refused since the last it took
    stopped         \* why the round stopped, once it has

intakeVars == <<breaking, flakes, settled, todo, answered, failedInARow, refusedInARow, stopped>>

Issues == 1..Queued

\* Consecutive pieces of s of the given size, the last one what is left.
Batches(s) ==
    [k \in 1..((Len(s) + INTAKE_BATCH_SIZE - 1) \div INTAKE_BATCH_SIZE) |->
        SubSeq(s, (k - 1) * INTAKE_BATCH_SIZE + 1, Min({k * INTAKE_BATCH_SIZE, Len(s)}))]

\* The issues up to n that nobody has judged, oldest first.
unsettledTo[n \in 0..Queued] ==
    IF n = 0 THEN <<>>
    ELSE IF n \in settled THEN unsettledTo[n - 1]
    ELSE Append(unsettledTo[n - 1], n)

Unsettled == unsettledTo[Queued]

IntakeInit ==
    /\ breaking \in UNION {kSubset(k, Issues) : k \in 0..MaxBreaking}
    /\ flakes = 0 /\ settled = {}
    /\ todo = Batches(Unsettled) /\ answered = {}
    /\ failedInARow = 0 /\ refusedInARow = 0 /\ stopped = None

\* The next round, or the next run's, meets what the last one left.
intakeRound ==
    /\ todo = <<>>
    /\ todo' = Batches(Unsettled) /\ answered' = {}
    /\ failedInARow' = 0 /\ refusedInARow' = 0 /\ stopped' = None
    /\ UNCHANGED <<breaking, flakes, settled>>

-----------------------------------------------------------------------------

\* Mutant of narrow: the issue in the middle is in neither half.
narrowPastMiddle(batch) ==
    LET middle == Len(batch) \div 2
    IN  IF Len(batch) = 1 THEN <<>>
        ELSE <<SubSeq(batch, 1, middle), SubSeq(batch, middle + 2, Len(batch))>>

\* Mutant of narrow: a failed batch waits for the next round.
narrowLater(batch) == <<>>

\* The halves a failed batch is tried again in; a single issue is left unjudged.
narrow(batch) ==
    LET middle == (Len(batch) + 1) \div 2
    IN  IF Len(batch) = 1 THEN <<>>
        ELSE <<SubSeq(batch, 1, middle), SubSeq(batch, middle + 1, Len(batch))>>

\* A run without an answer; the limit's last one ends the round.
Failed ==
    LET batch == Head(todo)
    IN  /\ UNCHANGED <<settled, answered, refusedInARow>>
        /\ failedInARow' = failedInARow + 1
        /\ IF failedInARow' >= INTAKE_FAILED_RUNS_LIMIT
           THEN stopped' = "failed" /\ todo' = <<>>
           ELSE todo' = narrow(batch) \o Tail(todo) /\ UNCHANGED stopped

\* A batch in which GitHub took no verdict and refused more than one counts.
Refusals(applied, failed) == IF ~ applied /\ failed > 1 THEN refusedInARow + 1 ELSE 0

\* A run's verdicts applied: GitHub takes some, refuses some, some issues were
\* judged by another run meanwhile, and some have no verdict that counts.
Answered(judged, refused, applied) ==
    /\ settled' = settled \cup judged
    /\ answered' = answered \cup ToSet(Head(todo))
    /\ failedInARow' = 0
    /\ refusedInARow' = Refusals(applied, Cardinality(refused))
    /\ IF refusedInARow' >= INTAKE_REFUSED_BATCHES_LIMIT
       THEN stopped' = "refused" /\ todo' = <<>>
       ELSE todo' = Tail(todo) /\ UNCHANGED stopped

Run == todo # <<>> /\ UNCHANGED breaking

Breaks == Run /\ ToSet(Head(todo)) \cap breaking # {} /\ Failed /\ UNCHANGED flakes

Flakes == Run /\ flakes < MaxFlakes /\ flakes' = flakes + 1 /\ Failed

Answers ==
    /\ Run /\ ToSet(Head(todo)) \cap breaking = {}
    /\ \E judged \in SUBSET ToSet(Head(todo)) :
        \E refused \in SUBSET (ToSet(Head(todo)) \ judged), applied \in BOOLEAN :
            /\ applied => judged # {}
            /\ Answered(judged, refused, applied)
    /\ UNCHANGED flakes

\* A usage limit or the time budget ends the run, and with it the round.
Uncounted ==
    /\ todo # <<>> /\ todo' = <<>> /\ UNCHANGED settled
    /\ flakes < MaxFlakes /\ flakes' = flakes + 1
    /\ stopped' = "uncounted"
    /\ UNCHANGED <<breaking, answered, failedInARow, refusedInARow>>

IntakeNext == intakeRound \/ Breaks \/ Flakes \/ Answers \/ Uncounted

IntakeSpec == IntakeInit /\ [][IntakeNext]_intakeVars

-----------------------------------------------------------------------------

\* Every issue is in one batch, and "an issue that always breaks intake's answer
\* is left unjudged on its own rather than with its batch-mates" (intake.mts:598):
\* as long as the round goes on, what got no answer and is not coming up are the
\* breaking issues and at most one more for each run that failed by itself.
Isolates ==
    LET coming == UNION {ToSet(todo[k]) : k \in DOMAIN todo}
        mates == ((Issues \ settled) \ (answered \cup coming)) \ breaking
    IN  stopped = None => Cardinality(mates) <= flakes

\* Runs go on, and each issue's verdict is taken when intake gets to it often
\* enough.  A round ended by a usage limit or a flake is followed by another.
IntakeLiveSpec ==
    /\ IntakeSpec
    /\ WF_intakeVars(intakeRound) /\ WF_intakeVars(Breaks)
    /\ \A i \in Issues : SF_intakeVars(Answers /\ i \in settled' \ settled)

\* "Whatever is left unjudged is logged and judged again in a later round"
\* (intake.mts:600): breaking issues too few to stop a round hold nobody up.
GoodIssuesAreJudged ==
    \A i \in Issues : i \notin breaking ~> i \in settled
===============================================================================
