-------------------------- MODULE MCProcurementLive --------------------------
(***************************************************************************)
(* Collection once the source has recovered: from some moment on no        *)
(* collector dies, and only the queries in Refused and in Silent fail.     *)
(***************************************************************************)
EXTENDS MCProcurement

VARIABLE calm    \* the source has recovered, and the workers do not die

liveVars == <<vars, calm>>

CalmRun(c) ==
  \/ Begin(c) \/ SaveSnapshot(c) \/ SaveCheckpoints(c)
  \/ \E q \in Queries : GetPage(c, q)
  \/ \E q \in Refused : RateLimited(c, q) \/ Fail(c, q)

LiveNext ==
  \/ ~calm /\ Next /\ calm' \in BOOLEAN
  \/ /\ calm /\ UNCHANGED calm
     /\ \/ \E c \in Collectors : CalmRun(c)
        \/ \E r \in Records : Post(r)
        \/ NextDay

\* The worker starts a run of every source in each of its cycles, and a retry
\* time is at most an hour away: a query is not left out of all runs from some
\* moment on.  How often one that is refused takes part is left open.
EveryQueryTakesPart ==
  \A c \in Collectors, q \in Queries \ Refused :
    SF_liveVars(\E work \in {w \in SUBSET Queries : q \in w} :
                  calm /\ BeginWith(c, work) /\ UNCHANGED calm)

\* Runs end within their deadline.
Fairness ==
  /\ \A c \in Collectors : WF_liveVars(calm /\ CalmRun(c) /\ UNCHANGED calm)
  /\ EveryQueryTakesPart

LiveSpec == Init /\ calm = FALSE /\ [][LiveNext]_liveVars /\ Fairness

-----------------------------------------------------------------------------
\* The same with queries that get no answer at all.
SilentRun(c) == CalmRun(c) \/ \E q \in Silent : Unanswered(c, q)

SilentNext ==
  \/ LiveNext
  \/ calm /\ UNCHANGED calm /\ \E c \in Collectors : SilentRun(c)

SilentSpec ==
  /\ Init /\ calm = FALSE
  /\ [][SilentNext]_liveVars
  /\ \A c \in Collectors : WF_liveVars(calm /\ SilentRun(c) /\ UNCHANGED calm)
  /\ EveryQueryTakesPart

-----------------------------------------------------------------------------
OthersComplete(failing) ==
  calm ~> \A q \in Queries \ failing : Complete(checkpoint[q])

\* A query that is answered with nothing but errors, under a budget of one
\* request a run, does not keep the others from reaching the end of their
\* windows: the order of work is fair.
RefusedQueryStarvesNobody == OthersComplete(Refused)

\* "Collect a fair, bounded set of SAM pages without losing continuation"
\* (monitor/sources.py:539), and "Unfinished and least-recently-attempted queries
\* go first" (587): that holds as well when a query gets no answer at all.
UnansweredQueryStarvesNobody == OthersComplete(Silent)
=============================================================================
