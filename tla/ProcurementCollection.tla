------------------------- MODULE ProcurementCollection -------------------------
(***************************************************************************)
(* Resumable collection of a federal procurement source: pages of a        *)
(* changing listing are read under a request budget, several queries side  *)
(* by side, and continued by later runs from durable checkpoints.          *)
(*   SamAdapter.collect_resumable      monitor/sources.py                  *)
(*   initial_checkpoint, next_incremental_window  monitor/procurement.py   *)
(*   MonitorService.collect            monitor/service.py                  *)
(*   persist_snapshot, persist_procurement_checkpoints                     *)
(*                                     monitor/repository.py               *)
(*                                                                         *)
(* The scheduled worker and the collect endpoints of api/monitor.py run    *)
(* the same code, and only the worker takes the operational lock: any      *)
(* number of collectors may overlap here, and each may die, or run out of  *)
(* its deadline, at any step.                                              *)
(***************************************************************************)
EXTENDS Naturals, Sequences, FiniteSets, SequencesExt

CONSTANTS
  Collectors,
  NQueries,      \* governed queries, in the order of their keys
  Records,       \* notices the source may ever post
  Matches,       \* Matches[r]: the queries that find notice r
  PageSize,
  Budget,        \* requests of one run
  Lookback,      \* days the first window reaches back
  Overlap,       \* days a window reaches back into the one before it
  None,          \* there is no checkpoint
  Refused,       \* queries that are only ever answered with an error
  Silent,        \* queries whose request never comes back with an answer
  MaxDay         \* bound on time

Queries == 1..NQueries

ASSUME CollectionAssumption ==
  /\ {NQueries, PageSize, Budget} \subseteq Nat \ {0}
  /\ {Lookback, Overlap, MaxDay} \subseteq Nat
  /\ Matches \in [Records -> SUBSET Queries]
  /\ Refused \subseteq Queries /\ Silent \subseteq Queries

VARIABLES
  now,           \* the day
  posted,        \* external: the notices posted so far, the newest last
  day,           \* external: the day each was posted
  stored,        \* monitor_source_versions: first_seen_at of each notice
  checkpoint,    \* federal_collection_checkpoints
  collector      \* what each run has in memory

vars == <<now, posted, day, stored, checkpoint, collector>>

-----------------------------------------------------------------------------
\* FAILED stands for RATE_LIMITED too; next_retry_at is set in these two states
\* and in no other.
CoverageState == {"COMPLETE", "FAILED", "AWAITING_CONTINUATION"}

\* attempt: last_attempt_at, as the place of the
\* query among the others, the least recently attempted at 0.  since is history:
\* the start of the first window.
Checkpoint == [since : 0..MaxDay, start : 0..MaxDay, end : 0..MaxDay, offset : Nat,
               state : CoverageState, attempt : 0..NQueries]
Never == MaxDay + 1   \* the notice has no source version

Idle == [pc |-> "idle", read |-> [q \in Queries |-> None], work |-> {},
         budget |-> 0, found |-> {}, at |-> 0]

Collector ==
  [pc : {"idle", "collecting", "checkpoint"},
   read : [Queries -> Checkpoint \cup {None}],  \* the checkpoints as it updates them
   work : SUBSET Queries,                       \* the queries still to be asked
   budget : 0..Budget,
   found : SUBSET Records,
   at : 0..MaxDay]                              \* collected_at

TypeOK ==
  /\ now \in 0..MaxDay
  /\ posted \in Seq(Records)
  /\ day \in [Records -> 0..MaxDay]
  /\ stored \in [Records -> (0..MaxDay) \cup {Never}]
  /\ checkpoint \in [Queries -> Checkpoint \cup {None}]
  /\ collector \in [Collectors -> Collector]

-----------------------------------------------------------------------------
(***************************************************************************)
(* External: SAM.gov.  Posted-date windows are by date, both ends          *)
(* included, and a listing shows the newest notice first, so that pages    *)
(* shift while they are read.  A listing and a page of it are sets of      *)
(* positions in posted; the place of a notice in a listing is the number   *)
(* of newer ones.                                                          *)
(***************************************************************************)
Listing(q, cp) ==
  {i \in DOMAIN posted : q \in Matches[posted[i]] /\ day[posted[i]] \in cp.start..cp.end}

Place(i, listing) == Cardinality({j \in listing : j > i})

Page(q, cp) ==
  LET listing == Listing(q, cp)
  IN  {i \in listing : Place(i, listing) \in cp.offset..(cp.offset + PageSize - 1)}

Post(r) ==
  /\ r \notin ToSet(posted)
  /\ posted' = Append(posted, r)
  /\ day' = [day EXCEPT ![r] = now]
  /\ UNCHANGED <<now, stored, checkpoint, collector>>

NextDay ==
  /\ now < MaxDay
  /\ now' = now + 1
  /\ UNCHANGED <<posted, day, stored, checkpoint, collector>>

-----------------------------------------------------------------------------
Minus(a, b) == IF a > b THEN a - b ELSE 0

InitialCheckpoint(today) ==
  [since |-> Minus(today, Lookback), start |-> Minus(today, Lookback), end |-> today, offset |-> 0,
   state |-> "AWAITING_CONTINUATION", attempt |-> 0]

\* (a start in the future would fall back to now - Overlap; the end of a window
\* is never in the future)
NextStart(cp, today) == Minus(cp.end, Overlap)

NextWindow(cp, today) ==
  [cp EXCEPT !.start = NextStart(cp, today), !.end = today, !.offset = 0,
             !.state = "AWAITING_CONTINUATION"]

Complete(cp) == cp # None /\ cp.state = "COMPLETE"
Failed(cp) == cp # None /\ cp.state = "FAILED"

\* Completed queries wait for their siblings before their windows roll.
RollsOver(read, q) == \A s \in Queries : Complete(read[s])

\* Mutant: work is taken in the order of the keys.
ByKey(read, p, q) ==
  LET Rank(s) == <<IF Complete(read[s]) THEN 1 ELSE 0, s>>
  IN  \E i \in 1..2 : /\ Rank(p)[i] < Rank(q)[i]
                      /\ \A j \in 1..(i - 1) : Rank(p)[j] = Rank(q)[j]

\* work.sort: unfinished first, then the least recently attempted, then by key.
Sooner(read, p, q) ==
  LET Rank(s) == <<IF Complete(read[s]) THEN 1 ELSE 0, read[s].attempt, s>>
  IN  \E i \in 1..3 : /\ Rank(p)[i] < Rank(q)[i]
                      /\ \A j \in 1..(i - 1) : Rank(p)[j] = Rank(q)[j]

\* The checkpoints are read, and rolled when all are complete.
CheckpointsNow ==
  [q \in Queries |->
     IF checkpoint[q] = None THEN InitialCheckpoint(now)
     ELSE IF RollsOver(checkpoint, q) THEN NextWindow(checkpoint[q], now)
     ELSE checkpoint[q]]

\* A run that asks the queries in work; it leaves the others out because their
\* retry time has not come.
BeginWith(c, work) ==
  /\ collector[c].pc = "idle"
  /\ \A q \in Queries \ work : Failed(checkpoint[q])
  /\ collector' = [collector EXCEPT ![c] =
       [pc |-> "collecting", read |-> CheckpointsNow, work |-> work,
        budget |-> Budget, found |-> {}, at |-> now]]
  /\ UNCHANGED <<now, posted, day, stored, checkpoint>>

Begin(c) == \E work \in SUBSET Queries : BeginWith(c, work)

\* The query this run asks next.  The order was fixed when the run began: what it
\* learns of one query does not move another.  A complete query is asked again
\* when there is budget left.
IsNext(me, q) ==
  /\ me.pc = "collecting" /\ me.budget > 0
  /\ q \in me.work
  /\ \A p \in me.work \ {q} : Sooner(me.read, q, p)

\* One request was spent on q; last_attempt_at is the time of this run.
Answer(c, q, cp, found, goOn) ==
  LET me == collector[c]
  IN  collector' = [collector EXCEPT ![c] =
        [me EXCEPT !.budget = @ - 1, !.found = @ \cup found,
                   !.work = IF goOn THEN @ \ {q} ELSE {},
                   !.read = [@ EXCEPT ![q] = [cp EXCEPT !.attempt = NQueries]]]]

GetPage(c, q) ==
  LET cp == collector[c].read[q]
      page == Page(q, cp)
      offset == cp.offset + Cardinality(page)
      complete == page = {} \/ offset >= Cardinality(Listing(q, cp))
  IN  /\ IsNext(collector[c], q)
      /\ q \notin Refused \cup Silent
      /\ Answer(c, q,
                [cp EXCEPT !.offset = offset,
                           !.state = IF complete THEN "COMPLETE"
                                     ELSE "AWAITING_CONTINUATION"],
                {posted[i] : i \in page}, TRUE)
      /\ UNCHANGED <<now, posted, day, stored, checkpoint>>

\* Too many requests: the run asks nothing more.
RateLimited(c, q) ==
  /\ IsNext(collector[c], q)
  /\ Answer(c, q, [collector[c].read[q] EXCEPT !.state = "FAILED"],
            {}, FALSE)
  /\ UNCHANGED <<now, posted, day, stored, checkpoint>>

\* Mutant: the page that was asked for counts as read.
FailAndMoveOn(c, q) ==
  LET cp == collector[c].read[q]
  IN  /\ IsNext(collector[c], q)
      /\ Answer(c, q, [cp EXCEPT !.state = "FAILED",
                                 !.offset = IF @ < Cardinality(Records) THEN @ + 1 ELSE @],
                {}, TRUE)
      /\ UNCHANGED <<now, posted, day, stored, checkpoint>>

\* An error status or an answer that does not parse: the page is asked again.
Fail(c, q) ==
  /\ IsNext(collector[c], q)
  /\ Answer(c, q, [collector[c].read[q] EXCEPT !.state = "FAILED"],
            {}, TRUE)
  /\ UNCHANGED <<now, posted, day, stored, checkpoint>>

\* persist_snapshot: one transaction.  The version of a notice is replaced by
\* the observation of this run.
SaveSnapshot(c) ==
  LET me == collector[c]
  IN  /\ me.pc = "collecting"
      /\ me.budget = 0 \/ me.work = {}
      /\ stored' = [r \in Records |-> IF r \in me.found
                                        THEN me.at ELSE stored[r]]
      /\ collector' = [collector EXCEPT ![c] = [Idle EXCEPT !.pc = "checkpoint",
                                                         !.read = me.read]]
      /\ UNCHANGED <<now, posted, day, checkpoint>>

\* Places instead of times: the least recent attempt becomes 0.
Places(read) ==
  [q \in Queries |-> [read[q] EXCEPT !.attempt =
     Cardinality({read[s].attempt : s \in {t \in Queries :
                    read[t].attempt < read[q].attempt}})]]

\* persist_procurement_checkpoints: one transaction replaces them all.
SaveCheckpoints(c) ==
  /\ collector[c].pc = "checkpoint"
  /\ checkpoint' = Places(collector[c].read)
  /\ collector' = [collector EXCEPT ![c] = Idle]
  /\ UNCHANGED <<now, posted, day, stored>>

\* The deadline of the source passes while it is read, a transaction fails, or
\* the process dies.
Abandon(c) ==
  /\ collector[c].pc # "idle"
  /\ collector' = [collector EXCEPT ![c] = Idle]
  /\ UNCHANGED <<now, posted, day, stored, checkpoint>>

\* The request has no answer at all: it is cut off by its deadline, by the limit
\* on its size or in transport.  PublicFetchError and TimeoutError leave the loop
\* over the queries, so that nothing this run has read or attempted is kept.
Unanswered(c, q) == IsNext(collector[c], q) /\ Abandon(c)

Init ==
  /\ now = 0
  /\ posted = <<>>
  /\ day = [r \in Records |-> 0]
  /\ stored = [r \in Records |-> Never]
  /\ checkpoint = [q \in Queries |-> None]
  /\ collector = [c \in Collectors |-> Idle]

Run(c) ==
  \/ Begin(c) \/ SaveSnapshot(c) \/ SaveCheckpoints(c)
  \/ \E q \in Queries : GetPage(c, q) \/ RateLimited(c, q) \/ Fail(c, q)

Next ==
  \/ \E c \in Collectors : Run(c) \/ Abandon(c)
  \/ \E r \in Records : Post(r)
  \/ NextDay

Spec == Init /\ [][Next]_vars

-----------------------------------------------------------------------------
\* Resuming loses nothing: whatever was posted since the first window began, up
\* to the current window, and through it once it is complete, is stored, however
\* runs overlapped, died between their two transactions, were refused or read
\* pages that shifted.  (What is posted on the last day of a window may come
\* after its last page: it belongs to the next window.)
NothingSkipped ==
  \A q \in Queries : checkpoint[q] # None =>
    LET cp == checkpoint[q]
    IN  \A r \in ToSet(posted) :
          /\ q \in Matches[r]
          /\ day[r] >= cp.since
          /\ day[r] < cp.start \/ (Complete(cp) /\ day[r] < cp.end)
          => stored[r] # Never

\* "Monitor source versions durably preserve each canonical source record's
\* `first_seen_at`" (docs/product/PHASE_15_FEDERAL_PROCUREMENT.md:13)
FirstSeenIsPreserved ==
  [][\A r \in Records : stored[r] # Never => stored'[r] = stored[r]]_vars
=============================================================================
