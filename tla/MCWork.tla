-------------------------------- MODULE MCWork --------------------------------
(***************************************************************************)
(* One Action, for TLC: a behaviour is either of two overlapping requests  *)
(* that change it and its subtask ("requests"), or of two calls of the CRM *)
(* workflow on it while one request of a manager at a time changes the     *)
(* Action itself and commercial data changes ("proposals").                *)
(***************************************************************************)
EXTENDS CrmProposal, TLC

CONSTANT ProposalVersions  \* bound: the versions of an Action with proposals

VARIABLE side

workVars == <<allVars, side>>

Symmetry == Permutations(Requests) \cup Permutations(Calls) \cup Permutations(RetryKeys)

Busy == {q \in Requests : request[q].pc # "idle"}

\* What the calls of the workflow meet of the requests.
OneRequest ==
  /\ row'.version <= ProposalVersions
  /\ Cardinality(Busy') <= 1
  /\ \A q \in Requests : request'[q].pc # "checked" /\ request'[q].actor \in Managers \cup {NoOne}

WorkInit ==
  /\ CrmInit
  /\ side \in {"requests", "proposals"}
  /\ side = "requests" => context = CHOOSE c \in Contexts : TRUE

WorkNext ==
  /\ \/ side = "requests" /\ Next /\ UNCHANGED crmVars
     \/ side = "proposals" /\ CrmNext /\ OneRequest
  /\ UNCHANGED side

WorkSpec == WorkInit /\ [][WorkNext]_workVars
=============================================================================
