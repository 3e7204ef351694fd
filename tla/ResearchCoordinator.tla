------------------------- MODULE ResearchCoordinator -------------------------
(***************************************************************************)
(* MonitorResearchCoordinator.investigate                                  *)
(* (backend/src/btx_omni/monitor/research.py) run by several workers over  *)
(* one journal.  A worker asks the model provider which public read to     *)
(* make next, makes it, and repeats until the provider is done, a call     *)
(* fails, the time is up or the tool budget is spent; after the last       *)
(* permitted read it asks once more whether the evidence suffices.         *)
(*                                                                         *)
(* Each journal call is one step of the worker.  Between two of them the   *)
(* worker waits for the provider or the network: it may lose its lease, be *)
(* killed (the hard deadline of the process, a deployment), or find the    *)
(* run taken over.  Which sources and foci a choice may name is abstracted *)
(* to whether the choice is accepted.                                      *)
(*                                                                         *)
(* Each worker's host has its own clock, some Offset ahead of the slowest; *)
(* deadlines are measured on the monotonic clock, which has none.  The     *)
(* workers of Prompt are those whose calls and own steps take no longer    *)
(* than Timeout and Delay: the clock does not pass the latest moment they  *)
(* may be where they are.  The others may be silent for any time.          *)
(***************************************************************************)
EXTENDS ResearchJournal

CONSTANTS
  Workers,       \* processes that may investigate this run
  MaxTools,      \* investigate's max_tools
  Windows,       \* the time an investigation may be given
  Margin,        \* what its lease adds to that (30 seconds)
  Timeout,       \* the provider's timeout
  Delay,         \* what a prompt worker needs between two calls
  Offset,        \* how far each worker's clock is ahead
  Prompt         \* the workers that keep to Timeout and Delay

ASSUME CoordinatorAssumption ==
  /\ MaxTools \in 1..4
  /\ Tools = {"select_public_read", "fetch_document", "search_public",
              "decide_evidence_sufficiency"}
  /\ Results = {"done", "fetch_document", "search_public", "passages",
                "bare", "sources", "failure", "recorded", "stopped"}
  /\ 2 * MaxTools + MaxAttempts <= MaxSteps
  /\ Windows \subseteq Nat \ {0}
  /\ Margin \in Nat /\ Timeout \in Nat \ {0} /\ Delay \in Nat
  /\ Leases = {window + Margin : window \in Windows}
  /\ Offset \in [Workers -> 0..Skew]
  /\ Prompt \subseteq Workers

\* What the deadline leaves undone fits into the margin, whatever the clocks
\* show: a search chosen at the deadline, the steps around it and finish.  With
\* the default timeout of 20 seconds it does; the configuration admits more.
MarginSuffices == Timeout + 5 * Delay + Skew < Margin

VARIABLE
  worker         \* the local state of each worker's investigate call

cvars == <<vars, worker>>

-----------------------------------------------------------------------------
PublicTools == {"fetch_document", "search_public"}

\* Where a worker is: `loading` reads the journal back after acquire, `looping`
\* is the head of the loop, `choosing` and `deciding` wait for the provider,
\* `chosen` is about to admit the chosen read, `reading` waits for it.
Places == {"idle", "loading", "looping", "choosing", "chosen", "reading",
           "deciding", "finishing", "aborted"}

\* used = tools_used; documents, passages: whether any document, any passage
\* is retained; finished: whether the outcome counts as complete; deadline =
\* deadline_monotonic.  since is history: when a prompt worker came where it is.
Worker ==
  [pc : Places, token : {NoToken} \cup Tokens, number : 0..MaxSteps,
   choice : Results, used : 0..MaxTools, documents : BOOLEAN,
   passages : BOOLEAN, finished : BOOLEAN, deadline : Nat, since : Nat]

Idle == [pc |-> "idle", token |-> NoToken, number |-> 0, choice |-> "done",
         used |-> 0, documents |-> FALSE, passages |-> FALSE, finished |-> FALSE,
         deadline |-> 0, since |-> 0]

CoordinatorTypeOK ==
  /\ TypeOK
  /\ worker \in [Workers -> Worker]

\* The journal's record of the public reads, and of those that brought text.
ToolSteps == {i \in DOMAIN steps : steps[i].tool \in PublicTools}
Documents == {i \in Answered : steps[i].tool = "fetch_document"}
Passages  == {i \in Documents : steps[i].result = "passages"}

At(w, pc) == worker[w].pc = pc

Becomes(w, local) == worker' = [worker EXCEPT ![w] = local]

\* A worker goes on to its next place.
Arrival(w) == IF w \in Prompt THEN clock ELSE 0
Goes(w, local) == Becomes(w, [local EXCEPT !.since = Arrival(w)])

\* self.clock() and deadline_monotonic - monotonic().
Reading(w) == clock + Offset[w]
TimeFor(w, duration) == clock + duration <= worker[w].deadline

-----------------------------------------------------------------------------
CInit == Init /\ worker = [w \in Workers |-> Idle]

\* Mutant: the lease ends with the time the investigation is given.
WindowOnly(window) == window

\* lease_seconds; with windows of at most 90 seconds min(300, ...) never bites.
LeaseFor(window) == window + Margin

Begin(w, window) ==
  /\ At(w, "idle")
  /\ Acquire(Reading(w), LeaseFor(window))
  /\ Goes(w, [Idle EXCEPT !.pc = "loading", !.token = run.attempts + 1,
                          !.deadline = clock + window])

\* tools_used counts every read an earlier attempt admitted, whatever became
\* of it.
UsedTools == ToolSteps

\* journal.get, a transaction of its own: work of earlier attempts is reused.
Load(w) ==
  /\ At(w, "loading")
  /\ Goes(w, [worker[w] EXCEPT !.pc = "looping",
                               !.used = Cardinality(UsedTools),
                               !.documents = Documents # {},
                               !.passages = Passages # {}])
  /\ UNCHANGED vars

ToolsLeft(w) == worker[w].used < MaxTools

\* The tools are spent and some time is left: is the retrieved evidence enough?
AsksSufficiency(w) == ~ToolsLeft(w) /\ worker[w].documents /\ TimeFor(w, 1)

\* The provider is asked for the next read.
Select(w) ==
  /\ At(w, "looping")
  /\ ToolsLeft(w)
  /\ TimeFor(w, Timeout)
  /\ StartStep(worker[w].token, "select_public_read", Reading(w))
  /\ Goes(w, [worker[w] EXCEPT !.pc = "choosing", !.number = Len(steps')])

\* Too little time is left for another provider call, for the last decision,
\* or nothing was retrieved that could be decided on.
Stop(w) ==
  /\ At(w, "looping")
  /\ IF ToolsLeft(w) THEN ~TimeFor(w, Timeout)
                     ELSE ~AsksSufficiency(w)
  /\ Goes(w, [worker[w] EXCEPT !.pc = "finishing"])
  /\ UNCHANGED vars

Choose(w, choice) ==
  /\ At(w, "choosing")
  /\ CompleteStep(worker[w].token, worker[w].number, choice, FALSE, Reading(w))
  /\ Goes(w, [worker[w] EXCEPT
                !.pc = IF choice = "done" THEN "finishing" ELSE "chosen",
                !.choice = choice,
                !.finished = choice = "done" /\ worker[w].passages])

\* The chosen read is admitted, in a transaction after the choice's.
Admit(w) ==
  /\ At(w, "chosen")
  /\ StartStep(worker[w].token, worker[w].choice, Reading(w))
  /\ Goes(w, [worker[w] EXCEPT !.pc = "reading", !.number = Len(steps'),
                               !.used = @ + 1])

Read(w, result) ==
  /\ At(w, "reading")
  /\ result \in (IF worker[w].choice = "fetch_document"
                   THEN {"passages", "bare"} ELSE {"sources"})
  /\ CompleteStep(worker[w].token, worker[w].number, result, FALSE, Reading(w))
  /\ Goes(w, [worker[w] EXCEPT
                !.pc = "looping",
                !.documents = @ \/ worker[w].choice = "fetch_document",
                !.passages = @ \/ result = "passages"])

AskSufficiency(w) ==
  /\ At(w, "looping")
  /\ AsksSufficiency(w)
  /\ StartStep(worker[w].token, "decide_evidence_sufficiency", Reading(w))
  /\ Goes(w, [worker[w] EXCEPT !.pc = "deciding", !.number = Len(steps')])

\* Mutant: the provider's word is enough.
TakesItsWord(w) == TRUE

\* "Done" counts as complete only when some document has a passage.
Sufficient(w) == worker[w].passages

Decide(w) ==
  /\ At(w, "deciding")
  /\ CompleteStep(worker[w].token, worker[w].number, "done", FALSE, Reading(w))
  /\ Goes(w, [worker[w] EXCEPT !.pc = "finishing", !.finished = Sufficient(w)])

\* The provider or the network fails, or the answer is not acceptable.
Fail(w) ==
  /\ worker[w].pc \in {"choosing", "reading", "deciding"}
  /\ CompleteStep(worker[w].token, worker[w].number, "failure", TRUE, Reading(w))
  /\ Goes(w, [worker[w] EXCEPT !.pc = "finishing"])

Close(w) ==
  /\ At(w, "finishing")
  /\ Finish(worker[w].token, IF worker[w].finished THEN "recorded" ELSE "stopped",
            worker[w].finished, Reading(w))
  /\ Becomes(w, Idle)

\* The next journal call raises ResearchLeaseUnavailable.
LeaseLost(w) ==
  /\ worker[w].pc \in {"looping", "choosing", "chosen", "reading", "deciding", "finishing"}
  /\ ~Owned(worker[w].token, Reading(w))

\* The last decision lies outside the try block of the loop.
AtLastDecision(w) ==
  \/ At(w, "deciding")
  \/ At(w, "looping") /\ AsksSufficiency(w)

\* Mutant: the worker waits for its lease to come back.
AwaitLease(w) == LeaseLost(w) /\ UNCHANGED cvars

\* The loop and finish turn the loss into LEASE_EXPIRED; at the last decision
\* it leaves investigate and with it the whole worker.
LoseLease(w) ==
  /\ LeaseLost(w)
  /\ Becomes(w, IF AtLastDecision(w) THEN [Idle EXCEPT !.pc = "aborted"] ELSE Idle)
  /\ UNCHANGED vars

\* The process is killed, or has aborted, and is scheduled again later.
Crash(w) ==
  /\ ~At(w, "idle")
  /\ Becomes(w, Idle)
  /\ UNCHANGED vars

\* A prompt worker is nowhere longer than its call and its next step take; the
\* read of a document is cut at the deadline.
Overdue(w) ==
  LET since == worker[w].since
      fetching == At(w, "reading") /\ worker[w].choice = "fetch_document" IN
  \/ /\ worker[w].pc \in {"loading", "looping", "chosen", "finishing"}
     /\ clock >= since + Delay
  \/ /\ worker[w].pc \in {"choosing", "reading", "deciding"} /\ ~fetching
     /\ clock >= since + Timeout + Delay
  \/ /\ fetching
     /\ clock >= since + Delay
     /\ clock >= worker[w].deadline + Delay

CTick ==
  /\ \A w \in Prompt : ~Overdue(w)
  /\ Tick
  /\ UNCHANGED worker

Progresses(w) ==
  \/ Load(w) \/ Select(w) \/ Stop(w) \/ Admit(w) \/ AskSufficiency(w)
  \/ Decide(w) \/ Fail(w) \/ Close(w) \/ LoseLease(w)
  \/ \E choice \in {"done"} \cup PublicTools : Choose(w, choice)
  \/ \E result \in Results : Read(w, result)

CNext ==
  \/ CTick
  \/ \E w \in Workers :
       \/ \E window \in Windows : Begin(w, window)
       \/ Progresses(w)
       \/ Crash(w)

\* Every call a worker waits for is bounded by a timeout, so a worker that is
\* not killed goes on.
CFairness == \A w \in Workers : WF_cvars(Progresses(w))

CSpec == CInit /\ [][CNext]_cvars /\ CFairness

-----------------------------------------------------------------------------
\* The tool budget is one budget for all attempts: crashes, failures and
\* takeovers never buy a run more public reads.
ToolBudgetSurvivesRestarts == Cardinality(ToolSteps) <= MaxTools

\* A worker that holds the lease is where the journal thinks it is: the step it
\* waits for is the admitted one, and where it is about to admit one none is.
\* So none of its journal calls is refused.
WorkerAgreesWithJournal ==
  \A w \in Workers :
    worker[w].pc \notin {"idle", "aborted"} /\ run.token = worker[w].token =>
      Open = IF worker[w].pc \in {"choosing", "reading", "deciding"}
               THEN {worker[w].number} ELSE {}

\* Each attempt adds to its reads one choice each, and at most one more step
\* that ends it.  With four tools and three attempts that is eleven steps: the
\* journal's budget of twelve is never met (ResearchBudgetExhausted would leave
\* investigate at the last decision).
StepsWithinBudget == Len(steps) <= 2 * MaxTools + MaxAttempts

\* Worker and journal stay together through every crash and takeover: the budget
\* of reads is shared by all attempts, the budget of steps is never met, and the
\* journal refuses no call of a worker that holds the lease.
AttemptsShareTheJournal == ToolBudgetSurvivesRestarts /\ WorkerAgreesWithJournal /\ StepsWithinBudget

\* A run is complete only on evidence: the journal itself, not a worker's
\* memory, holds a retrieved passage, and the last step is a provider's "done".
CompleteOnEvidence ==
  run.status = "COMPLETED" =>
    /\ Passages # {}
    /\ steps[Len(steps)].status = "COMPLETED"
    /\ steps[Len(steps)].result = "done"

\* A worker that keeps to its timeouts and is not killed owns its run until it
\* has finished: none of its answers comes too late, whatever the other workers
\* do and their clocks show.
OnTimeWorkIsKept ==
  \A w \in Prompt :
    worker[w].pc \notin {"idle", "aborted"} => Owned(worker[w].token, Reading(w))

\* An investigation always returns.
InvestigationReturns ==
  \A w \in Workers : At(w, "loading") ~> worker[w].pc \in {"idle", "aborted"}

=============================================================================
