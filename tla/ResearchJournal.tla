--------------------------- MODULE ResearchJournal ---------------------------
(***************************************************************************)
(* The journal of one public research run: the monitor_research_runs row   *)
(* and its monitor_research_steps rows, and every transaction              *)
(* MonitorResearchJournal offers on them                                   *)
(* (backend/src/btx_omni/monitor/research_state.py).                       *)
(*                                                                         *)
(* The provider and network calls of an investigation happen between these *)
(* transactions, so a worker may be silent for any time, die, or come back *)
(* after another worker took its run over.  The callers of this module are *)
(* therefore the most general ones: a transaction may be attempted at any  *)
(* moment with any lease token that was ever issued, with any step number, *)
(* and with a clock reading that is up to Skew off in either direction:    *)
(* `now` is read before the row lock is awaited, from the clock of the     *)
(* caller's own host, which may be behind or ahead of the others.          *)
(*                                                                         *)
(* Minute is the number of time units a minute has.  Tokens (uuid4 in the  *)
(* code) are the number of the attempt that drew them: all that matters is *)
(* that no two are equal.                                                  *)
(***************************************************************************)
EXTENDS Naturals, Sequences, FiniteSets

CONSTANTS
  Results,       \* results a step or a run can record (data abstracted)
  Outcomes,      \* downstream publication outcomes
  Tools,         \* names of the steps a coordinator admits
  Leases,        \* lengths of the leases that callers ask for
  MaxAttempts,   \* acquire's max_attempts
  MaxSteps,      \* start_step's max_steps
  Skew,          \* how far a clock reading may be off
  Minute,        \* time units per minute
  MaxClock,      \* bound: the model's clock stops here
  None           \* SQL NULL

ASSUME JournalAssumption ==
  /\ MaxAttempts \in 1..3
  /\ MaxSteps \in 1..12
  /\ Minute \in Nat \ {0}
  /\ Leases \subseteq 1..(5 * Minute)
  /\ Skew \in Nat
  /\ MaxClock \in Nat \ {0}
  /\ None \notin Results \cup Outcomes

VARIABLES
  clock,         \* the real time
  run,           \* the row of monitor_research_runs
  steps          \* the rows of monitor_research_steps, by number

vars == <<clock, run, steps>>

-----------------------------------------------------------------------------
Times == 1..MaxClock

\* A NULL lease_token and a NULL lease_until are 0, below every real value.
NoToken == 0
NoLease == 0
Tokens == 1..MaxAttempts

RunStatus == {"ABSENT", "RUNNING", "PAUSED", "COMPLETED"}
StepStatus == {"STARTED", "COMPLETED", "FAILED", "INTERRUPTED_UNKNOWN"}

\* PENDING is never committed: acquire inserts the row and turns it RUNNING in
\* the same transaction, and none of acquire's refusals applies to a new row.
Run ==
  [status : RunStatus, token : {NoToken} \cup Tokens, lease_until : Nat,
   updated_at : Nat, attempts : 0..MaxAttempts, completed : Nat,
   result : Results \cup {None}, publication : Outcomes \cup {None}]

\* `by` and `closed_by` are history: the tokens that started and closed a step.
Step ==
  [tool : Tools, status : StepStatus, started_at : Nat,
   result : Results \cup {None}, by : Tokens, closed_by : {NoToken} \cup Tokens]

TypeOK ==
  /\ clock \in Times
  /\ run \in Run
  /\ steps \in Seq(Step)

\* The clock readings a transaction admitted now may carry.
Readings == {t \in 1..(MaxClock + Skew) : t <= clock + Skew /\ clock <= t + Skew}

\* min(300, 60 * 2 ** (attempt_count - 1)) seconds.
Cooldown(attempt) == Minute * (IF attempt > 3 THEN 5 ELSE 2 ^ (attempt - 1))

Open == {i \in DOMAIN steps : steps[i].status = "STARTED"}
Answered == {i \in DOMAIN steps : steps[i].status = "COMPLETED"}

\* Mutant: the lease is checked but not whose it is.
OwnedByAnyone(token, t) ==
  /\ run.status = "RUNNING"
  /\ token # NoToken
  /\ token <= run.attempts
  /\ run.lease_until > t

\* _owned: the fence every write of an investigation passes.
Owned(token, t) ==
  /\ run.status = "RUNNING"
  /\ token # NoToken
  /\ run.token = token
  /\ run.lease_until > t

-----------------------------------------------------------------------------
Init ==
  /\ clock = 1
  /\ run = [status |-> "ABSENT", token |-> NoToken, lease_until |-> NoLease,
            updated_at |-> 0, attempts |-> 0, completed |-> 0,
            result |-> None, publication |-> None]
  /\ steps = <<>>

\* acquire grants the run: it is not COMPLETED, no lease is live, attempts
\* remain and a PAUSED run has cooled down.
Acquirable(t) ==
  /\ run.status # "COMPLETED"
  /\ run.lease_until <= t
  /\ run.attempts < MaxAttempts
  /\ run.status = "PAUSED" => t >= run.updated_at + Cooldown(run.attempts)

\* Mutant: the crashed worker's call stays admitted.
LeftStarted(step) == step

\* acquire closes the call of a crashed or silent predecessor; its outcome is
\* unknown and the resumed read uses a new step.
Interrupted(step) ==
  IF step.status = "STARTED"
    THEN [step EXCEPT !.status = "INTERRUPTED_UNKNOWN"]
    ELSE step

Acquire(t, lease) ==
  /\ Acquirable(t)
  /\ steps' = [i \in DOMAIN steps |-> Interrupted(steps[i])]
  /\ run' = [run EXCEPT !.status = "RUNNING", !.token = run.attempts + 1,
                        !.lease_until = t + lease, !.updated_at = t,
                        !.attempts = run.attempts + 1]
  /\ UNCHANGED clock

StartStep(token, tool, t) ==
  /\ Owned(token, t)
  /\ Open = {}
  /\ Len(steps) < MaxSteps
  /\ steps' = Append(steps, [tool |-> tool, status |-> "STARTED",
                             started_at |-> t, result |-> None,
                             by |-> token, closed_by |-> NoToken])
  /\ UNCHANGED <<clock, run>>

\* Mutant: any step on record may be completed again.
AdmittedOrClosed(number, t) == t >= steps[number].started_at

\* The step is STARTED and its completion is not dated before its start.
Admitted(number, t) ==
  /\ number \in Open
  /\ t >= steps[number].started_at

Progress(failed) == IF failed THEN 0 ELSE 1

\* The repeat of an identical acknowledgement is accepted without a write and
\* any other write to a closed step is refused, so neither is a step here.
CompleteStep(token, number, result, failed, t) ==
  /\ Owned(token, t)
  /\ Admitted(number, t)
  /\ steps' = [steps EXCEPT ![number].status = IF failed THEN "FAILED" ELSE "COMPLETED",
                            ![number].result = result,
                            ![number].closed_by = token]
  /\ run' = [run EXCEPT !.updated_at = t,
                        !.completed = @ + Progress(failed)]
  /\ UNCHANGED clock

Finish(token, result, complete, t) ==
  /\ Owned(token, t)
  /\ Open = {}
  /\ run' = [run EXCEPT !.status = IF complete THEN "COMPLETED" ELSE "PAUSED",
                        !.result = result, !.publication = None,
                        !.updated_at = t,
                        !.token = NoToken, !.lease_until = NoLease]
  /\ UNCHANGED <<clock, steps>>

\* record_publication carries no token: any worker may attach the outcome.
RecordPublication(outcome, t) ==
  /\ run.status = "COMPLETED"
  /\ run.result # None
  /\ run.publication # outcome
  /\ run' = [run EXCEPT !.publication = outcome, !.updated_at = t]
  /\ UNCHANGED <<clock, steps>>

Tick ==
  /\ clock < MaxClock
  /\ clock' = clock + 1
  /\ UNCHANGED <<run, steps>>

Write(t) ==
  \/ \E lease \in Leases : Acquire(t, lease)
  \/ \E outcome \in Outcomes : RecordPublication(outcome, t)
  \/ \E token \in Tokens :
       \/ \E tool \in Tools : StartStep(token, tool, t)
       \/ \E number \in DOMAIN steps, result \in Results, failed \in BOOLEAN :
            CompleteStep(token, number, result, failed, t)
       \/ \E result \in Results, complete \in BOOLEAN :
            Finish(token, result, complete, t)

Next == Tick \/ \E t \in Readings : Write(t)

Spec == Init /\ [][Next]_vars

-----------------------------------------------------------------------------
(***************************************************************************)
(* Safety.                                                                 *)
(***************************************************************************)

\* A step is open only while its run is being worked on, only one step is, it
\* is the last one, and it belongs to the attempt that owns the run now: a
\* crashed worker's call never stays admitted under its successor.
OneAdmittedCall ==
  \A i \in Open :
    /\ i = Len(steps)
    /\ run.status = "RUNNING"
    /\ steps[i].by = run.token

\* Fencing: only the worker that admitted a call closes it.  A response that
\* arrives after another worker resumed the run completes nothing.
ClosedByItsWorker ==
  \A i \in DOMAIN steps :
    steps[i].status \in {"COMPLETED", "FAILED"} => steps[i].closed_by = steps[i].by

\* completed_steps is the number of steps that hold an answer, whatever
\* attempts failed, crashed or were superseded.
CountsAnswers == run.completed = Cardinality(Answered)

\* Steps are admitted in the order of the attempts: no step of an earlier
\* attempt follows one of a later attempt.
AttemptsInOrder ==
  \A i, j \in DOMAIN steps : i < j => steps[i].by <= steps[j].by

\* Rows are only appended, and a row that is not STARTED never changes.
ClosedStepsAreImmutable ==
  [][\A i \in DOMAIN steps :
       /\ i \in DOMAIN steps'
       /\ i \notin Open => steps'[i] = steps[i]]_vars

-----------------------------------------------------------------------------
(***************************************************************************)
(* The journal implements the abstract research run.                       *)
(***************************************************************************)
Phase ==
  IF run.status = "RUNNING" THEN "active"
  ELSE IF run.status = "COMPLETED" THEN "sealed" ELSE "idle"

Evidence == {<<i, steps[i].result>> : i \in Answered}

Outcome == IF run.status = "COMPLETED" THEN {run.result} ELSE {}

Promise == INSTANCE ResearchRun WITH
  Reads <- 1..MaxSteps, phase <- Phase, attempt <- run.attempts,
  evidence <- Evidence, outcome <- Outcome

ImplementsPromise == Promise!Spec
=============================================================================
