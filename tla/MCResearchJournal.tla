-------------------------- MODULE MCResearchJournal --------------------------
(***************************************************************************)
(* The research journal, for TLC: a behaviour is either of one run and of   *)
(* callers that make any call of the journal in any order, on any clock    *)
(* ("callers"), or of another run and of two workers that investigate it,   *)
(* the second of them late and its clock ahead ("workers").                 *)
(***************************************************************************)
EXTENDS ResearchJournal, TLC

CONSTANTS prompt, late    \* the workers

VARIABLES side, time, row, rows, worker

Investigation == INSTANCE ResearchCoordinator WITH
  clock <- time, run <- row, steps <- rows,
  Tools <- {"select_public_read", "fetch_document", "search_public",
            "decide_evidence_sufficiency"},
  Results <- {"done", "fetch_document", "search_public", "passages",
              "bare", "sources", "failure", "recorded", "stopped"},
  Outcomes <- {}, MaxTools <- 1, MaxSteps <- 5, MaxClock <- 12, Minute <- 2,
  Windows <- {1}, Margin <- 8, Leases <- {9}, Timeout <- 1, Delay <- 1,
  Workers <- {prompt, late}, Prompt <- {prompt}, Offset <- (prompt :> 0) @@ (late :> Skew)

\* Results are only compared for equality.
Symmetry == Permutations(Results)

investigationVars == <<time, row, rows, worker>>

JournalInit == Init /\ Investigation!CInit /\ side \in {"callers", "workers"}

JournalNext ==
  /\ \/ side = "callers" /\ Next /\ UNCHANGED investigationVars
     \/ side = "workers" /\ Investigation!CNext /\ UNCHANGED vars
  /\ UNCHANGED side

JournalSpec == JournalInit /\ [][JournalNext]_<<vars, investigationVars, side>>

\* A worker that keeps to its timeouts owns its run until it has finished.
OnTimeWorkIsKept == Investigation!OnTimeWorkIsKept
=============================================================================
