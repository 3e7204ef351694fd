------------------------------- MODULE AiBudget -------------------------------
(***************************************************************************)
(* The durable budget of calls to the language provider: each call         *)
(* reserves a receipt in one transaction, is made outside any transaction, *)
(* and closes its receipt in another.                                      *)
(*   AiUsageRepository          persistence/ai_usage.py                    *)
(*   GeminiProvider._generate_response  ai/gemini.py                       *)
(*                                                                         *)
(* reserve is serialized by an advisory lock; its clock was read before    *)
(* it waited for that lock.  complete locks its row only.                  *)
(***************************************************************************)
EXTENDS Integers, FiniteSets

CONSTANTS
  Calls,          \* the calls that are ever made, one receipt each
  Actors,
  NoCall,           \* no receipt
  DailyCalls,     \* limit of a day, in the workspace
  DailyActorCalls,
  Leases,         \* limit of active calls, in the workspace
  ActorLeases,
  DayLength,
  Timeout,        \* a provider call returns within it, counted from its reservation
  Margin,         \* what a lease lasts longer than that
  Skew,           \* how long a clock reading may have waited for the lock
  MaxBudgetClock        \* bound on time

\* The limits of reserve, and a lease that outlives what it waits for.
ASSUME BudgetAssumption ==
  /\ {DailyCalls, DailyActorCalls, Leases, ActorLeases, DayLength} \subseteq Nat \ {0}
  /\ {Timeout, Margin, Skew, MaxBudgetClock} \subseteq Nat
  /\ Skew < Margin

VARIABLES
  budgetClock,
  receipt,        \* ai_call_receipts
  calling         \* when the calls that wait for the provider were reserved

budgetVars == <<budgetClock, receipt, calling>>

Status == {"RESERVED", "EXPIRED_OUTCOME_UNKNOWN", "RESPONSE_RECEIVED", "FAILED"}

Receipt == [actor : Actors, started : Nat, lease : Nat, status : Status]

ASSUME NoneAssumption == NoCall \notin Receipt /\ NoCall \notin Nat

BudgetTypeOK ==
  /\ budgetClock \in Nat
  /\ receipt \in [Calls -> Receipt \cup {NoCall}]
  /\ calling \in [Calls -> Nat \cup {NoCall}]
  /\ \A c \in Calls : calling[c] # NoCall => receipt[c] # NoCall

-----------------------------------------------------------------------------
Day(t) == t \div DayLength

Counted(t) == {c \in Calls : receipt[c] # NoCall /\ Day(receipt[c].started) = Day(t)}
Active(t) == {c \in Calls : /\ receipt[c] # NoCall
                            /\ receipt[c].status = "RESERVED"
                            /\ receipt[c].lease > t}
Of(a, S) == {c \in S : receipt[c].actor = a}

\* Mutant: a lease of the timeout itself.
NoMargin == Timeout

LeaseSeconds == Timeout + Margin

\* now was read before the lock was granted.
Readings == {t \in 0..budgetClock : budgetClock - Skew <= t}

\* A reserved receipt whose lease has run out at t.
Lapsed(c, t) ==
  /\ receipt[c] # NoCall
  /\ receipt[c].status = "RESERVED"
  /\ receipt[c].lease <= t

\* Mutant: only calls that may still be running are counted.
RefundsFailures(a, t) ==
  LET paid == {c \in Counted(t) : receipt[c].status # "FAILED"}
  IN  Cardinality(paid) < DailyCalls /\ Cardinality(Of(a, paid)) < DailyActorCalls

WithinDay(a, t) ==
  /\ Cardinality(Counted(t)) < DailyCalls
  /\ Cardinality(Of(a, Counted(t))) < DailyActorCalls

WithinLeases(a, t) ==
  /\ Cardinality(Active(t)) < Leases
  /\ Cardinality(Of(a, Active(t))) < ActorLeases

\* reserve, in one transaction, and the call begins.  A refusal raises, and what
\* the transaction had expired is rolled back with it.
Reserve(c, a, t) ==
  /\ receipt[c] = NoCall
  /\ WithinDay(a, t)
  /\ WithinLeases(a, t)
  /\ receipt' = [d \in Calls |->
       IF d = c THEN [actor |-> a, started |-> t, lease |-> t + LeaseSeconds,
                      status |-> "RESERVED"]
       ELSE IF Lapsed(d, t) THEN [receipt[d] EXCEPT !.status = "EXPIRED_OUTCOME_UNKNOWN"]
       ELSE receipt[d]]
  /\ calling' = [calling EXCEPT ![c] = budgetClock]
  /\ UNCHANGED budgetClock

\* The provider answers, or not in time, and complete closes the receipt, one
\* that expired meanwhile too.
Complete(c, status) ==
  /\ calling[c] # NoCall
  /\ receipt[c].status \in {"RESERVED", "EXPIRED_OUTCOME_UNKNOWN"}
  /\ receipt' = [receipt EXCEPT ![c].status = status]
  /\ calling' = [calling EXCEPT ![c] = NoCall]
  /\ UNCHANGED budgetClock

\* The process dies, or the transaction of complete fails: the receipt remains.
Lose(c) ==
  /\ calling[c] # NoCall
  /\ calling' = [calling EXCEPT ![c] = NoCall]
  /\ UNCHANGED <<budgetClock, receipt>>

\* A provider call does not outlast its timeout.
BudgetTick ==
  /\ budgetClock < MaxBudgetClock
  /\ \A c \in Calls : calling[c] # NoCall => budgetClock < calling[c] + Timeout
  /\ budgetClock' = budgetClock + 1
  /\ UNCHANGED <<receipt, calling>>

BudgetInit ==
  /\ budgetClock = 0
  /\ receipt = [c \in Calls |-> NoCall]
  /\ calling = [c \in Calls |-> NoCall]

BudgetNext ==
  \/ \E c \in Calls, a \in Actors, t \in Readings : Reserve(c, a, t)
  \/ \E c \in Calls, s \in {"RESPONSE_RECEIVED", "FAILED"} : Complete(c, s)
  \/ \E c \in Calls : Lose(c)
  \/ BudgetTick

BudgetSpec == BudgetInit /\ [][BudgetNext]_budgetVars

-----------------------------------------------------------------------------
\* No day, and no user on a day, has more reservations than its limit, whatever
\* became of them: a failed, lost or expired call is not refunded.
DailyBudget ==
  \A t \in 0..budgetClock :
    /\ Cardinality(Counted(t)) <= DailyCalls
    /\ \A a \in Actors : Cardinality(Of(a, Counted(t))) <= DailyActorCalls

\* The calls that wait for the provider.
InFlight == {c \in Calls : calling[c] # NoCall}

\* No more calls wait for the provider at a time than the workspace, and each
\* user, may have, although leases expire on their own, clocks were read early
\* and no lock is held during a call.
InFlightBudget ==
  /\ Cardinality(InFlight) <= Leases
  /\ \A a \in Actors : Cardinality(Of(a, InFlight)) <= ActorLeases

Closed(c) == receipt[c] # NoCall /\ receipt[c].status \in {"RESPONSE_RECEIVED", "FAILED"}

\* A closed receipt is not changed again, by an expiry either.
KeepsClosed == \A c \in Calls : Closed(c) => receipt'[c] = receipt[c]
ClosedReceiptsStay == [][KeepsClosed]_budgetVars
=============================================================================
