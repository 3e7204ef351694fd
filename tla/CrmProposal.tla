----------------------------- MODULE CrmProposal -----------------------------
(***************************************************************************)
(* The sample CRM workflow on an Action: a proposal is prepared from the   *)
(* Action, decided by a manager and executed, while the Action itself is   *)
(* worked on by the requests of WorkItem.  CrmProposalWorkflow in          *)
(* backend/src/btx_omni/modules/work/crm_proposals.py, called by           *)
(* api/actions.py.                                                         *)
(*                                                                         *)
(* A call first looks at the commercial data (_crm_workflow), and then     *)
(* runs in one transaction that holds the lock of the Action's row         *)
(* (transact_audit).  The commercial data may change in between.  All that *)
(* the workflow remembers are events in the Action's audit; its hashes are *)
(* modelled by what they are the hash of, and the hash that identifies a   *)
(* decision by the place of the decision in the audit.                     *)
(***************************************************************************)
EXTENDS WorkItem, FiniteSetsExt

CONSTANTS
  Calls,         \* concurrent calls of the workflow
  Contexts,      \* commercial revisions, with the CRM mapping of the account
  Mapped,        \* those that map the account to a CRM company with an owner
  RetryKeys,     \* idempotency keys of executions
  Nothing,       \* no context, no key
  MaxProposals,  \* proposals an Action may have (50 in the code)
  MaxRuns,       \* sample attempts an Action may have (50 in the code)
  MaxDecisions   \* bound on decisions, for model checking

ASSUME CrmAssumption ==
  /\ Mapped \subseteq Contexts
  /\ Nothing \notin Contexts \cup RetryKeys
  /\ {MaxProposals, MaxRuns, MaxDecisions} \subseteq Nat

VARIABLES
  context,       \* the commercial data as it is
  seen,          \* the commercial data each call looked at
  crm            \* the workflow's events in the Action's audit

crmVars == <<context, seen, crm>>
allVars == <<vars, crmVars>>

-----------------------------------------------------------------------------
\* The version stands for every field of the Action.
Proposal == [version : 1..MaxVersion, status : ActionStatus,
             approval : ApprovalStatus, owner : Users \cup {NoOne},
             context : Contexts]

CrmEvent == [event : {"CRM_PROPOSED", "CRM_DECIDED", "CRM_SAMPLE_ATTEMPT"},
             proposal : Proposal, actor : Users,
             decision : {"APPROVED", "REJECTED", "NONE"},
             expected : Nat,                \* the decision it relies on, or 0
             key : RetryKeys \cup {Nothing}]

CrmTypeOK ==
  /\ context \in Contexts
  /\ seen \in [Calls -> Contexts \cup {Nothing}]
  /\ crm \in Seq(CrmEvent)

Snapshot(ctx) == [version |-> row.version, status |-> row.status,
                  approval |-> row.approval, owner |-> row.owner, context |-> ctx]

Blocked(p) ==
  \/ p.status \in Closed
  \/ p.owner = NoOne
  \/ p.approval \in {"PENDING", "REJECTED"}
  \/ p.context \notin Mapped

EventsOf(name) == {i \in DOMAIN crm : crm[i].event = name}
Proposed(p) == \E i \in EventsOf("CRM_PROPOSED") : crm[i].proposal = p
Decisions(p) == {i \in EventsOf("CRM_DECIDED") : crm[i].proposal = p}
Runs(p) == {i \in EventsOf("CRM_SAMPLE_ATTEMPT") : crm[i].proposal = p}

Last(places) == IF places = {} THEN 0 ELSE Max(places)

\* Mutant: a decision still stands when the Action has changed since.
Inspected(p, ctx) == Proposed(p) /\ ~Blocked(p)

\* _current
Current(p, ctx) == p = Snapshot(ctx) /\ Proposed(p) /\ ~Blocked(p)

-----------------------------------------------------------------------------
\* _crm_workflow: the call looks at the commercial data.
Look(c) ==
  /\ seen[c] = Nothing
  /\ seen' = [seen EXCEPT ![c] = context]
  /\ UNCHANGED <<context, crm>>

\* The call is refused, replays what it did before, or dies.
Leave(c) ==
  /\ seen[c] # Nothing
  /\ seen' = [seen EXCEPT ![c] = Nothing]
  /\ UNCHANGED <<context, crm>>

\* transact_audit: the call appends one event and returns.
Record(c, event) ==
  /\ seen[c] # Nothing
  /\ crm' = Append(crm, event)
  /\ seen' = [seen EXCEPT ![c] = Nothing]
  /\ UNCHANGED context

\* The client's expected_version only refuses more calls.
Preview(c, user) ==
  LET p == Snapshot(seen[c])
  IN  /\ row.version > 0
      /\ MayManage(user, row)
      /\ ~Proposed(p)
      /\ Cardinality(EventsOf("CRM_PROPOSED")) < MaxProposals
      /\ Record(c, [event |-> "CRM_PROPOSED", proposal |-> p, actor |-> user,
                    decision |-> "NONE", expected |-> 0, key |-> Nothing])

SawLatest(expected, p) == expected = Last(Decisions(p))

Decide(c, user, p, decision, expected) ==
  /\ user \in Managers
  /\ Current(p, seen[c])
  /\ SawLatest(expected, p)
  /\ ~ \E i \in Decisions(p) :          \* a replay
         /\ crm[i].actor = user /\ crm[i].decision = decision
         /\ crm[i].expected = expected
  /\ Cardinality(EventsOf("CRM_DECIDED")) < MaxDecisions
  /\ Record(c, [event |-> "CRM_DECIDED", proposal |-> p, actor |-> user,
                decision |-> decision, expected |-> expected, key |-> Nothing])

Approved(p, expected) ==
  /\ Decisions(p) # {}
  /\ Last(Decisions(p)) = expected
  /\ crm[expected].decision = "APPROVED"

\* Neither this request nor this proposal has run.
NeverRan(p, user, key) ==
  /\ ~ \E i \in EventsOf("CRM_SAMPLE_ATTEMPT") :
         crm[i].actor = user /\ crm[i].key = key
  /\ Runs(p) = {}

\* execute_sample.  The adapter it insists on cannot fail a proposal that is not
\* blocked, so that every attempt is SAMPLE_COMPLETED.
Execute(c, user, p, expected, key) ==
  /\ user \in Managers
  /\ Current(p, seen[c])
  /\ Approved(p, expected)
  /\ NeverRan(p, user, key)
  /\ Cardinality(EventsOf("CRM_SAMPLE_ATTEMPT")) < MaxRuns
  /\ Record(c, [event |-> "CRM_SAMPLE_ATTEMPT", proposal |-> p, actor |-> user,
                decision |-> "NONE", expected |-> expected, key |-> key])

\* A commercial import commits.
Import(ctx) ==
  /\ context' = ctx
  /\ UNCHANGED <<seen, crm>>

CrmInit ==
  /\ Init
  /\ context \in Contexts
  /\ seen = [c \in Calls |-> Nothing]
  /\ crm = <<>>

CrmStep ==
  \/ \E c \in Calls :
       \/ Look(c) \/ Leave(c)
       \/ \E user \in Users : Preview(c, user)
       \/ \E i \in EventsOf("CRM_PROPOSED"), user \in Users,
             expected \in 0..Len(crm) :
            \/ \E decision \in {"APPROVED", "REJECTED"} :
                 Decide(c, user, crm[i].proposal, decision, expected)
            \/ \E key \in RetryKeys :
                 Execute(c, user, crm[i].proposal, expected, key)
  \/ \E ctx \in Contexts : Import(ctx)

CrmNext ==
  \/ Next /\ UNCHANGED crmVars
  \/ CrmStep /\ UNCHANGED vars

CrmSpec == CrmInit /\ [][CrmNext]_allVars

-----------------------------------------------------------------------------
\* What runs is what a manager approved last: the latest decision on exactly
\* that proposal, when it ran, was an approval, and the one the caller named.
RunsOnTheLastWord(i) ==
  LET before == {j \in Decisions(crm[i].proposal) : j < i}
  IN  /\ Last(before) = crm[i].expected
      /\ crm[i].expected # 0 => crm[crm[i].expected].decision = "APPROVED"
      /\ before # {}

\* What runs is the Action as it is then, not as it was when it was approved.
RunsWhatIsThere(p) == p = Snapshot(p.context) /\ p.version = Len(history)

\* It ran on the commercial data that its call had looked at, whatever was imported since
\* the approval.
RunsOnWhatWasSeen(p) == \E c \in Calls : seen[c] = p.context /\ seen'[c] = Nothing

\* No earlier attempt was of the same proposal, or for the same retry key of that user.
RunsOnce(i) ==
  \A j \in EventsOf("CRM_SAMPLE_ATTEMPT") : j < i =>
    /\ crm[j].proposal # crm[i].proposal
    /\ <<crm[j].actor, crm[j].key>> # <<crm[i].actor, crm[i].key>>

\* An attempt is recorded once for a proposal, and only while its last decision is an
\* approval and it describes the Action as it is, with the commercial data and the mapping
\* that the call has looked at.
RunsAsApproved ==
  [][Len(crm') > Len(crm) /\ crm'[Len(crm')].event = "CRM_SAMPLE_ATTEMPT" =>
       /\ RunsOnTheLastWord(Len(crm))' /\ RunsOnce(Len(crm))'
       /\ RunsWhatIsThere(crm'[Len(crm')].proposal)
       /\ RunsOnWhatWasSeen(crm'[Len(crm')].proposal)]_allVars
=============================================================================
