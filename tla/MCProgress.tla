------------------------------ MODULE MCProgress ------------------------------
(***************************************************************************)
(* What the monitor gets done in the end, for TLC: a behaviour is either   *)
(* of two workers that investigate one run ("research"), or of collection  *)
(* from a source that at some moment has recovered ("collection").         *)
(***************************************************************************)
EXTENDS ResearchCoordinator, TLC

CONSTANTS w1, w2, Collectors, Records

MCTools == {"select_public_read", "fetch_document", "search_public",
            "decide_evidence_sufficiency"}
MCResults == {"done", "fetch_document", "search_public", "passages",
              "bare", "sources", "failure", "recorded", "stopped"}

\* The second worker's clock is ahead of the first one's.
MCOffset == (w1 :> 0) @@ (w2 :> Skew)

VARIABLES side, now, posted, day, stored, checkpoint, collector, calm

collectionVars == <<now, posted, day, stored, checkpoint, collector, calm>>

\* One request a run, two queries that find every notice, the first of which is
\* only ever answered with an error.
Source == INSTANCE MCProcurementLive WITH
  NQueries <- 2, Matches <- [r \in Records |-> 1..2], Shared <- Records, PageSize <- 1,
  Budget <- 1, Lookback <- 1, Overlap <- 1, Refused <- {1}, Silent <- {}, MaxDay <- 1

ProgressInit ==
  /\ CInit /\ Source!Init /\ calm = FALSE
  /\ side \in {"research", "collection"}

ProgressNext ==
  /\ \/ side = "research" /\ CNext /\ UNCHANGED collectionVars
     \/ side = "collection" /\ Source!LiveNext /\ UNCHANGED cvars
  /\ UNCHANGED side

ProgressSpec ==
  /\ ProgressInit
  /\ [][ProgressNext]_<<cvars, collectionVars, side>>
  /\ CFairness /\ Source!Fairness

\* A query that is answered with nothing but errors does not keep the others from
\* reaching the end of their windows.
RefusedQueryStarvesNobody == Source!RefusedQueryStarvesNobody
=============================================================================
