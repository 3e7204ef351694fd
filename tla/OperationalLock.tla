--------------------------- MODULE OperationalLock ---------------------------
(***************************************************************************)
(* The lock that keeps scheduled workers apart: a PostgreSQL advisory lock *)
(* of a session that a heartbeat thread keeps alive, and the watchdog that *)
(* ends a worker that does not end.                                        *)
(*   MonitorRepository.operational_lock        monitor/repository.py       *)
(*   run_worker, main, _hard_process_deadline  monitor/worker.py           *)
(*                                                                         *)
(* The database may end a session at any moment, the process may be killed *)
(* and a statement may hang.                                               *)
(***************************************************************************)
EXTENDS Naturals

CONSTANTS
  Workers,    \* processes, each started again and again by the scheduler
  None        \* no worker, no report

ASSUME NoneAssumption == None \notin Workers

VARIABLES
  owner,      \* the worker whose session has the advisory lock
  worker,     \* where each worker is
  session,    \* its database session
  heartbeat,  \* its heartbeat thread
  report,     \* the status of its last cycle
  exclusive   \* history: its session has had the lock since its cycle began

vars == <<owner, worker, session, heartbeat, report, exclusive>>

\* What a cycle that ran to its end reports.
Reported == {"SUCCESS", "FAILED", "DEADLINE_EXHAUSTED", "INVALID_SOURCE"}

\* Types; and what has the lock is a session, never a process without one.
TypeOK ==
  /\ owner \in Workers \cup {None}
  /\ worker \in [Workers -> {"idle", "collecting", "releasing", "unlocking", "exiting"}]
  /\ session \in [Workers -> {"none", "open", "lost"}]
  /\ heartbeat \in [Workers -> {"none", "beating", "hung", "failed"}]
  /\ report \in [Workers -> {None, "WORKER_ERROR", "OVERLAP_SKIPPED"} \cup Reported]
  /\ exclusive \in [Workers -> BOOLEAN]
  /\ \A w \in Workers : owner = w => session[w] = "open"

Goes(w, where) == worker' = [worker EXCEPT ![w] = where]

\* The session of w ends, and its lock with it.
EndSession(w, as) ==
  /\ session' = [session EXCEPT ![w] = as]
  /\ owner' = IF owner = w THEN None ELSE owner

Reports(w, status) == report' = [report EXCEPT ![w] = status]

\* pg_try_advisory_lock
Acquire(w) ==
  /\ worker[w] = "idle"
  /\ owner = None
  /\ owner' = w
  /\ Goes(w, "collecting")
  /\ session' = [session EXCEPT ![w] = "open"]
  /\ heartbeat' = [heartbeat EXCEPT ![w] = "beating"]
  /\ exclusive' = [exclusive EXCEPT ![w] = TRUE]
  /\ Reports(w, None)

\* No connection, or the SELECT 1 that validates the session finds it lost.
AcquireFails(w) ==
  /\ worker[w] = "idle"
  /\ Goes(w, "exiting")
  /\ Reports(w, "WORKER_ERROR")
  /\ UNCHANGED <<owner, session, heartbeat, exclusive>>

\* Another worker has the lock.
Skip(w) ==
  /\ worker[w] = "idle"
  /\ owner \notin {None, w}
  /\ Reports(w, "OVERLAP_SKIPPED")
  /\ UNCHANGED <<owner, worker, session, heartbeat, exclusive>>

\* External: the database ends the session; who used it finds out when it does.
LoseSession(w) ==
  /\ session[w] = "open"
  /\ EndSession(w, "lost")
  /\ exclusive' = [exclusive EXCEPT ![w] = FALSE]
  /\ UNCHANGED <<worker, heartbeat, report>>

\* A beat on a lost session ends the thread; nobody looks before the release.
Beat(w) ==
  /\ heartbeat[w] = "beating" /\ session[w] = "lost"
  /\ heartbeat' = [heartbeat EXCEPT ![w] = "failed"]
  /\ UNCHANGED <<owner, worker, session, report, exclusive>>

\* A beat does not return, or returns late.
Hang(w) ==
  /\ heartbeat[w] = "beating"
  /\ heartbeat' = [heartbeat EXCEPT ![w] = "hung"]
  /\ UNCHANGED <<owner, worker, session, report, exclusive>>

Return(w) ==
  /\ heartbeat[w] = "hung"
  /\ heartbeat' = [heartbeat EXCEPT ![w] = IF session[w] = "lost" THEN "failed" ELSE "beating"]
  /\ UNCHANGED <<owner, worker, session, report, exclusive>>

\* The cycle returns, at its deadline if not before, or raises.
EndCycle(w) ==
  /\ worker[w] = "collecting"
  /\ Goes(w, "releasing")
  /\ UNCHANGED <<owner, session, heartbeat, report, exclusive>>

\* The release ends in an error; close returns the session to the pool or finds it
\* lost.  A session in the pool keeps its lock as long as the process lives.
Raise(w) ==
  /\ Goes(w, "exiting")
  /\ Reports(w, "WORKER_ERROR")

\* The heartbeat does not stop in time: it still uses the connection, which is
\* left to it.
JoinTimeout(w) ==
  /\ worker[w] = "releasing"
  /\ heartbeat[w] = "hung"
  /\ Raise(w)
  /\ UNCHANGED <<owner, session, heartbeat, exclusive>>

Join(w) ==
  /\ worker[w] = "releasing"
  /\ \/ /\ heartbeat[w] = "beating"
        /\ Goes(w, "unlocking")
        /\ UNCHANGED report
     \/ heartbeat[w] = "failed" /\ Raise(w)
  /\ heartbeat' = [heartbeat EXCEPT ![w] = "none"]
  /\ UNCHANGED <<owner, session, exclusive>>

\* Mutant: an error of the unlock is only logged.
UnlockLogged(w) ==
  /\ worker[w] = "unlocking"
  /\ \/ session[w] = "open" /\ EndSession(w, "none")
     \/ session[w] = "lost" /\ UNCHANGED <<owner, session>>
  /\ \E status \in Reported \cup {"WORKER_ERROR"} : Reports(w, status)
  /\ Goes(w, "exiting")
  /\ UNCHANGED <<heartbeat, exclusive>>

\* pg_advisory_unlock, and the report of the cycle, WORKER_ERROR when it raised.  (The session stays in the
\* pool without its lock; nothing uses it again.)
Unlock(w) ==
  /\ worker[w] = "unlocking"
  /\ session[w] = "open"
  /\ EndSession(w, "none")
  /\ \E status \in Reported \cup {"WORKER_ERROR"} : Reports(w, status)
  /\ Goes(w, "exiting")
  /\ UNCHANGED <<heartbeat, exclusive>>

\* It times out, or the session is lost.
UnlockFails(w) ==
  /\ worker[w] = "unlocking"
  /\ Raise(w)
  /\ UNCHANGED <<owner, session, heartbeat, exclusive>>

\* The process ends, and with it the heartbeat, a daemon thread, and the session.
End(w) ==
  /\ EndSession(w, "none")
  /\ heartbeat' = [heartbeat EXCEPT ![w] = "none"]
  /\ Goes(w, "idle")
  /\ UNCHANGED exclusive

Exit(w) == worker[w] = "exiting" /\ End(w) /\ UNCHANGED report

\* Mutant: the deadline is looked at between two calls only.
DeadlineBetweenCalls(w) ==
  /\ worker[w] = "releasing"
  /\ End(w)
  /\ Reports(w, None)

\* The watchdog of the process, while main has not left its deadline block; or
\* the process is killed.
HardDeadline(w) ==
  /\ worker[w] \in {"collecting", "releasing", "unlocking"}
  /\ End(w)
  /\ Reports(w, None)

Init ==
  /\ owner = None
  /\ worker = [w \in Workers |-> "idle"]
  /\ session = [w \in Workers |-> "none"]
  /\ heartbeat = [w \in Workers |-> "none"]
  /\ report = [w \in Workers |-> None]
  /\ exclusive = [w \in Workers |-> FALSE]

Next ==
  \E w \in Workers :
    \/ Acquire(w) \/ AcquireFails(w) \/ Skip(w) \/ LoseSession(w)
    \/ Beat(w) \/ Hang(w) \/ Return(w)
    \/ EndCycle(w) \/ JoinTimeout(w) \/ Join(w) \/ Unlock(w) \/ UnlockFails(w)
    \/ Exit(w) \/ HardDeadline(w)

\* Only the watchdog and the end of a process are certain: a cycle, a beat and a
\* statement may hang.
Fairness == \A w \in Workers : WF_vars(Exit(w)) /\ WF_vars(HardDeadline(w))

Spec == Init /\ [][Next]_vars /\ Fairness

-----------------------------------------------------------------------------
\* A cycle that reports its work, and not an error, had the lock from its first
\* to its last step: cycles that did never overlapped.
ReportWasExclusive ==
  \A w \in Workers :
    report[w] \in Reported /\ worker[w] = "exiting" => exclusive[w]

\* "The heartbeat still owns this connection": the worker uses the connection
\* only when its heartbeat does not.
ConnectionHasOneUser ==
  \A w \in Workers : worker[w] = "unlocking" => heartbeat[w] = "none"

\* A lock is not kept for ever, whatever hangs in the worker that has it.
LockIsFreed == \A w \in Workers : owner = w ~> owner # w
=============================================================================
