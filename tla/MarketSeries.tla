----------------------------- MODULE MarketSeries -----------------------------
(***************************************************************************)
(* The public market series: a refresh fetches one publication, parses all *)
(* the reviewed series out of it, keeps the immutable vintages and moves    *)
(* the pointers to the current ones.                                       *)
(*   MarketService            modules/markets/service.py                   *)
(*   MarketSeriesRepository   persistence/market_series.py                 *)
(*                                                                         *)
(* A refresh fetches outside any transaction.  Those of two workers overlap *)
(* when the first has lost the connection that held its operational lock:  *)
(* store then runs in any order, under an advisory lock of its own.        *)
(***************************************************************************)
EXTENDS Naturals, FiniteSets

CONSTANTS
  Refreshes,      \* each is one refresh, of one worker's cycle
  Series,
  Contents,       \* what a series may hold; the publisher may revise it back
  SuccessWait,    \* 24 hours
  FailureWait,    \* 1 hour
  MaxMarketHour   \* bound on time

VARIABLES
  marketHour,
  published,      \* what the publisher serves now, for every series
  vintages,       \* market_series_vintages: series and content
  pointers,       \* market_series_current
  refreshRuns,    \* market_refresh_runs
  refresh         \* what each refresh has in memory

marketVars == <<marketHour, published, vintages, pointers, refreshRuns, refresh>>

NotStarted == [at |-> "idle"]
NoPointer == [verified |-> 0, content |-> {}]  \* no row yet

\* health: the run that completed last.  At one instant the identifiers decide.
LastRuns ==
  {run \in refreshRuns : \A other \in refreshRuns : other.completed <= run.completed}

Due(run) ==
  marketHour - run.completed >= IF run.status = "FAILED" THEN FailureWait ELSE SuccessWait

-----------------------------------------------------------------------------
RefreshBecomes(r, state) == refresh' = [refresh EXCEPT ![r] = state]

\* worker_refresh: nothing is due for a while after a run, longer after a success.
StartRefresh(r) ==
  /\ refresh[r] = NotStarted
  /\ refreshRuns = {} \/ \E run \in LastRuns : Due(run)
  /\ RefreshBecomes(r, [at |-> "fetching"])
  /\ UNCHANGED <<marketHour, published, vintages, pointers, refreshRuns>>

\* The response is read; the clock is read after it.
Fetch(r) ==
  /\ refresh[r].at = "fetching"
  /\ RefreshBecomes(r, [at |-> "fetched", body |-> published, retrieved |-> marketHour])
  /\ UNCHANGED <<marketHour, published, vintages, pointers, refreshRuns>>

\* failed: the deadline, the source, or a publication that the parser refuses.
FailRefresh(r) ==
  /\ refresh[r].at \in {"fetching", "fetched"}
  /\ refreshRuns' = refreshRuns \cup
       {[completed |-> marketHour, status |-> "FAILED", brought |-> NotStarted]}
  /\ RefreshBecomes(r, [at |-> "ended"])
  /\ UNCHANGED <<marketHour, published, vintages, pointers>>

\* Mutant: what was retrieved before the current vintage is not refused.
NeverStale(r) == TRUE

\* "Stale market refresh cannot replace a newer verified snapshot."
NotStale(r) == \A s \in Series : pointers[s].verified <= refresh[r].retrieved

PointersMoved(r) ==
  [s \in Series |-> [verified |-> refresh[r].retrieved, content |-> {refresh[r].body[s]}]]

\* store: every series or, when one of them is stale, none and no run.
Store(r) ==
  /\ refresh[r].at = "fetched"
  /\ IF NotStale(r)
       THEN /\ vintages' = vintages \cup {<<s, refresh[r].body[s]>> : s \in Series}
            /\ pointers' = PointersMoved(r)
            /\ refreshRuns' = refreshRuns \cup
                 {[completed |-> refresh[r].retrieved, status |-> "SUCCEEDED",
                   brought |-> refresh[r].body]}
       ELSE UNCHANGED <<vintages, pointers, refreshRuns>>
  /\ RefreshBecomes(r, [at |-> "ended"])
  /\ UNCHANGED <<marketHour, published>>

\* The process ends, or the worker's deadline has passed after the parse.
AbandonRefresh(r) ==
  /\ refresh[r].at \in {"fetching", "fetched"}
  /\ RefreshBecomes(r, NotStarted)
  /\ UNCHANGED <<marketHour, published, vintages, pointers, refreshRuns>>

Publish(body) ==
  /\ published' = body
  /\ UNCHANGED <<marketHour, vintages, pointers, refreshRuns, refresh>>

MarketHourPasses ==
  /\ marketHour < MaxMarketHour
  /\ marketHour' = marketHour + 1
  /\ UNCHANGED <<published, vintages, pointers, refreshRuns, refresh>>
MarketInit ==
  /\ marketHour = 1
  /\ published \in [Series -> Contents]
  /\ vintages = {}
  /\ pointers = [s \in Series |-> NoPointer]
  /\ refreshRuns = {}
  /\ refresh = [r \in Refreshes |-> NotStarted]

MarketNext ==
  \/ \E r \in Refreshes :
       StartRefresh(r) \/ Fetch(r) \/ FailRefresh(r) \/ Store(r) \/ AbandonRefresh(r)
  \/ \E body \in [Series -> Contents] : Publish(body)
  \/ MarketHourPasses

MarketSpec == MarketInit /\ [][MarketNext]_marketVars

-----------------------------------------------------------------------------
Succeeded == {run \in refreshRuns : run.status = "SUCCEEDED"}

\* What readers are shown, of every series, is what the refresh that was retrieved last
\* brought, whatever the order in which refreshes ended and whether or not the publisher
\* went back to earlier values.
CurrentIsNewest ==
  IF Succeeded = {} THEN \A s \in Series : pointers[s] = NoPointer
  ELSE \E run \in Succeeded :
         /\ \A other \in Succeeded : other.completed <= run.completed
         /\ \A s \in Series : pointers[s] = [verified |-> run.completed,
                                             content |-> {run.brought[s]}]
=============================================================================
