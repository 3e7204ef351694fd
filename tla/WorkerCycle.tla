----------------------------- MODULE WorkerCycle -----------------------------
(***************************************************************************)
(* One cycle of the scheduled worker inside its operational lock: the      *)
(* sources it collects in turn, the budget of time it shares among them,   *)
(* the optional stages it starts only with a whole provider timeout left,  *)
(* and the report and exit code the scheduler sees.                        *)
(*   run_worker, main                               monitor/worker.py      *)
(*                                                                         *)
(* Of the workers that compete for the lock, Observed is modelled step by  *)
(* step; of the others OperationalLock says enough.  Time is counted down  *)
(* to the deadline.  What is bounded is the reading of a source, which     *)
(* ends at the deadline it is given (bounded_public_read).  What comes     *)
(* around it, and the items of the optional stages, may take all the time  *)
(* there is; what does not return at all is the watchdog's.                *)
(***************************************************************************)
EXTENDS OperationalLock, Integers, Sequences

CONSTANTS
  Observed,     \* the worker modelled step by step
  MaxSources,   \* bound: sources a cycle is asked for
  Budget,       \* monitor_worker_max_seconds
  MinStart,     \* monitor_source_min_start_seconds
  AiTimeout,    \* ai_timeout_seconds
  MaxItems      \* bound: items of an optional stage

\* core/config.py: a minimum start is more than nothing.
ASSUME CycleAssumption ==
  /\ Observed \in Workers
  /\ MaxSources \in Nat /\ Budget \in Nat /\ AiTimeout \in Nat /\ MaxItems \in Nat
  /\ MinStart \in Nat \ {0}

VARIABLES
  stage,      \* where the cycle is
  left,       \* time to the deadline, 0 when it is past
  sources,    \* configured sources of this cycle
  runs,       \* of each source collected, whether its run failed
  market,     \* the market refresh failed
  exhausted,  \* deadline_exhausted
  items,      \* items the current optional stage has done
  enough,     \* history: the collection began with a minimum start for every source
  storing     \* history: while one waits, the time the others took beside being read

cycleVars == <<stage, left, sources, runs, market, exhausted, items, enough, storing>>
allVars == <<vars, cycleVars>>

\* The stages after the collection, each a loop over items that asks
\* can_start_optional before it starts one.
OptionalStages == <<"projection", "research", "technical", "synthesis", "explanations">>

OptionalStage == {OptionalStages[i] : i \in 1..5}

StageAfter(s) ==
  IF s = "explanations" THEN "report"
  ELSE OptionalStages[1 + CHOOSE i \in 1..4 : OptionalStages[i] = s]

CycleTypeOK ==
  /\ stage \in {"none", "startup", "market", "collect", "report", "refused", "raised"} \cup OptionalStage
  /\ left \in 0..Budget
  /\ sources \in 0..MaxSources
  /\ runs \in Seq(BOOLEAN) /\ Len(runs) <= sources
  /\ market \in BOOLEAN /\ exhausted \in BOOLEAN /\ enough \in BOOLEAN
  /\ items \in 0..MaxItems
  /\ storing \in Nat

InCycle(s) == worker[Observed] = "collecting" /\ stage = s

\* Of what is left, some time goes by, at most t of it.
Takes(t) == \E spent \in 0..t : left' = left - spent

Waiting == sources - Len(runs)

-----------------------------------------------------------------------------
\* The lock is taken and the deadline set.
Begin ==
  /\ Acquire(Observed)
  /\ stage' = "startup"
  /\ left' = Budget
  /\ sources' = 0 /\ runs' = <<>> /\ items' = 0
  /\ market' = FALSE /\ exhausted' = FALSE /\ enough' = FALSE /\ storing' = 0

\* An unknown source ends the cycle at once; of the requested sources some are configured.
Request ==
  /\ InCycle("startup")
  /\ \/ stage' = "refused" /\ UNCHANGED sources
     \/ stage' = "market" /\ \E n \in 0..MaxSources : sources' = n
  /\ UNCHANGED <<vars, left, runs, market, exhausted, items, enough, storing>>

\* worker_refresh: disabled, not due, skipped for want of time, stored or failed.
MarketRefresh ==
  /\ InCycle("market")
  /\ Takes(left)
  /\ market' \in BOOLEAN
  /\ stage' = "collect"
  /\ enough' = (left' >= sources * MinStart)
  /\ UNCHANGED <<vars, sources, runs, exhausted, items, storing>>

\* Mutant: a source gets all the time there is.
AllTheTime == left

\* The share of the remaining time a source gets.
SourceTime ==
  LET share == left \div Waiting
      window == IF share > MinStart THEN share ELSE MinStart
  IN  IF window < left THEN window ELSE left

\* collect, or the failed run a database error makes: the source is read within
\* its share; retained versions are looked up, what was read is normalised, and two
\* transactions keep it, which nothing bounds.  Then the deadline is looked at again.
Collect ==
  /\ InCycle("collect")
  /\ Waiting > 0 /\ left >= MinStart /\ ~exhausted
  /\ \E reading \in 0..SourceTime : \E rest \in 0..(left - reading) :
       /\ left' = left - reading - rest
       /\ storing' = IF enough THEN storing + rest ELSE 0
  /\ \E failed \in BOOLEAN : runs' = Append(runs, failed)
  /\ exhausted' = (left' = 0)
  /\ UNCHANGED <<vars, stage, sources, market, items, enough>>

\* Too little is left to start another source.
StopCollecting ==
  /\ InCycle("collect")
  /\ Waiting > 0 /\ left < MinStart /\ ~exhausted
  /\ exhausted' = TRUE
  /\ UNCHANGED <<vars, stage, left, sources, runs, market, items, enough, storing>>

\* Optional work follows a collection that ran to its end, of one source at least.
EndCollection ==
  /\ InCycle("collect")
  /\ Waiting = 0 \/ exhausted
  /\ stage' = IF runs # <<>> /\ ~exhausted THEN "projection" ELSE "report"
  /\ storing' = IF Waiting = 0 THEN 0 ELSE storing
  /\ UNCHANGED <<vars, left, sources, runs, market, exhausted, items, enough>>

CanStartOptional == left >= AiTimeout

\* One more investigation, decomposition, synthesis or explanation, with its
\* provider calls and its transactions.
OptionalItem ==
  /\ worker[Observed] = "collecting" /\ stage \in OptionalStage \ {"projection"}
  /\ items < MaxItems
  /\ CanStartOptional
  /\ Takes(left)
  /\ items' = items + 1
  /\ UNCHANGED <<vars, stage, sources, runs, market, exhausted, enough, storing>>

\* An item is not started for want of time.  The synthesis says so in its own
\* result (capped), the others in the status; and without time for the briefing
\* projection nothing optional happens.
StopOptional ==
  /\ worker[Observed] = "collecting" /\ stage \in OptionalStage
  /\ items < MaxItems
  /\ ~CanStartOptional
  /\ exhausted' = (exhausted \/ stage # "synthesis")
  /\ stage' = IF stage = "projection" THEN "report" ELSE StageAfter(stage)
  /\ items' = 0
  /\ UNCHANGED <<vars, left, sources, runs, market, enough, storing>>

\* A stage has no more items.
EndOptional ==
  /\ worker[Observed] = "collecting" /\ stage \in OptionalStage
  /\ stage = "projection" => CanStartOptional
  /\ stage' = StageAfter(stage)
  /\ items' = 0
  /\ UNCHANGED <<vars, left, sources, runs, market, exhausted, enough, storing>>

\* Anything outside the boundaries of a source raises.
CycleRaises ==
  /\ worker[Observed] = "collecting"
  /\ stage \in {"startup", "market", "collect"} \cup OptionalStage
  /\ stage' = "raised"
  /\ UNCHANGED <<vars, left, sources, runs, market, exhausted, items, enough, storing>>

-----------------------------------------------------------------------------
Failed == \E i \in DOMAIN runs : runs[i]

\* The status of the report.
Status ==
  CASE stage = "refused" -> "INVALID_SOURCE"
    [] stage = "raised" -> "WORKER_ERROR"
    [] stage = "report" /\ exhausted -> "DEADLINE_EXHAUSTED"
    [] stage = "report" /\ ~exhausted /\ (Failed \/ market) -> "FAILED"
    [] OTHER -> "SUCCESS"

\* Mutant: the exit code forgets that time ran out.
ExitCodeForgetsTime ==
  CASE report[Observed] = "OVERLAP_SKIPPED" -> 3
    [] report[Observed] = "INVALID_SOURCE" -> 2
    [] report[Observed] = "WORKER_ERROR" -> 1
    [] OTHER -> IF Failed \/ runs = <<>> \/ market THEN 1 ELSE 0

\* What the process exits with.
ExitCode ==
  CASE report[Observed] = "OVERLAP_SKIPPED" -> 3
    [] report[Observed] = "INVALID_SOURCE" -> 2
    [] report[Observed] = "WORKER_ERROR" -> 1
    [] OTHER -> IF Failed \/ runs = <<>> \/ exhausted \/ market THEN 1 ELSE 0

\* The cycle has returned or raised: the lock is released, and with the unlock the
\* report is printed.
EndOfCycle ==
  /\ stage \in {"report", "refused", "raised"}
  /\ EndCycle(Observed)
  /\ UNCHANGED cycleVars

UnlockAndReport ==
  /\ Unlock(Observed)
  /\ report'[Observed] = Status
  /\ UNCHANGED cycleVars

\* The other steps of the lock leave the cycle alone; a process that ends forgets it.
LockStep(w) ==
  /\ \/ w # Observed /\ (Acquire(w) \/ EndCycle(w) \/ Unlock(w) \/ Exit(w) \/ HardDeadline(w))
     \/ AcquireFails(w) \/ Skip(w) \/ LoseSession(w) \/ Beat(w) \/ Hang(w) \/ Return(w)
     \/ JoinTimeout(w) \/ Join(w) \/ UnlockFails(w)
  /\ UNCHANGED cycleVars

Forget ==
  /\ stage' = "none"
  /\ left' = 0 /\ sources' = 0 /\ runs' = <<>> /\ items' = 0
  /\ market' = FALSE /\ exhausted' = FALSE /\ enough' = FALSE /\ storing' = 0

Leave ==
  /\ Exit(Observed) \/ HardDeadline(Observed)
  /\ Forget

CycleInit ==
  /\ Init
  /\ stage = "none" /\ left = 0 /\ sources = 0 /\ runs = <<>> /\ items = 0
  /\ market = FALSE /\ exhausted = FALSE /\ enough = FALSE /\ storing = 0

CycleNext ==
  \/ Begin \/ Request \/ MarketRefresh \/ Collect \/ StopCollecting \/ EndCollection
  \/ OptionalItem \/ StopOptional \/ EndOptional \/ CycleRaises
  \/ EndOfCycle \/ UnlockAndReport \/ Leave
  \/ \E w \in Workers : LockStep(w)

CycleFairness ==
  /\ WF_allVars(Leave)
  /\ \A w \in Workers \ {Observed} : WF_allVars((Exit(w) \/ HardDeadline(w)) /\ UNCHANGED cycleVars)

CycleSpec == CycleInit /\ [][CycleNext]_allVars /\ CycleFairness

-----------------------------------------------------------------------------
\* "A slow upstream must be observable, but cannot starve every subsequent source
\* by consuming the entire global deadline" (worker.py:219): where the collection
\* began with a minimum start for each of its sources, those that wait lack no
\* more of it than what was read took to keep, however slowly sources answer; and
\* a source is left unstarted only if keeping the others took what was reserved for it.
NoSourceIsStarved ==
  /\ enough /\ stage = "collect" => left + storing >= Waiting * MinStart
  /\ enough /\ stage \in OptionalStage \cup {"report"} /\ Waiting > 0 =>
       storing + MinStart > Waiting * MinStart

\* "Optional AI stages require a full provider timeout before starting", and they
\* follow no collection that left a source out.
StartsInTime ==
  items' > items => /\ left >= AiTimeout
                    /\ Waiting = 0 /\ sources > 0

\* Slow sources take no time from those that wait, and optional work begins when
\* all of them are collected and a whole provider timeout is left.
TimeIsShared == [][NoSourceIsStarved' /\ StartsInTime]_allVars

\* A scheduler that sees 0 knows that every configured source was collected
\* without a failure, at least one, under the lock, and that the deadline stopped
\* nothing but a synthesis or the refresh of the public market series (which says
\* SKIPPED_DEADLINE in its own result).
ZeroIsHonest ==
  worker[Observed] = "exiting" /\ report[Observed] # None /\ ExitCode = 0 =>
    /\ Waiting = 0 /\ sources > 0
    /\ \A i \in DOMAIN runs : ~runs[i]
    /\ ~market /\ ~exhausted
    /\ exclusive[Observed]

\* The lock's own specification, about which its theorems are, is implemented by a worker
\* whose cycle has stages, calls and a deadline; and the lock is freed after it.
LockAlone == INSTANCE OperationalLock
LockIsKept == LockAlone!Spec /\ LockIsFreed
=============================================================================
