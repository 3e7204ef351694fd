------------------------------- MODULE WorkItem -------------------------------
(***************************************************************************)
(* One Action (a work item with its subtasks and its audit history) and    *)
(* the requests that work on it: WorkService                               *)
(* (backend/src/btx_omni/modules/work/service.py) over SqlActionRepository *)
(* (backend/src/btx_omni/persistence/actions.py).                          *)
(*                                                                         *)
(* A request reads the row, then the subtasks on another connection, and   *)
(* for a subtask the history on a third; it decides on what it read, and   *)
(* saves in one transaction whose UPDATE asks for the version it read.     *)
(* Any number of commits by other requests may fall between these steps.   *)
(* A client's own expected_version only refuses more requests, so it is    *)
(* left out.                                                               *)
(***************************************************************************)
EXTENDS Naturals, Sequences, FiniteSets

CONSTANTS
  Users,         \* principals
  Managers,      \* those with the MANAGER role
  Requests,      \* concurrent calls of the service
  Children,      \* identities of subtasks
  Keys,          \* idempotency keys of subtask changes
  NoOne,         \* a NULL user
  NoKey,         \* an event that carries no idempotency key
  MaxVersion     \* bound: the Action is not changed beyond this version

ASSUME WorkAssumption ==
  /\ Managers \subseteq Users
  /\ NoOne \notin Users
  /\ NoKey \notin Keys
  /\ MaxVersion \in Nat \ {0}

VARIABLES
  row,           \* the row of work_items
  children,      \* the rows of action_subtasks
  history,       \* the rows of work_audit_events, in order
  request        \* where each request is, and what it read

vars == <<row, children, history, request>>

-----------------------------------------------------------------------------
ActionStatus == {"OPEN", "IN_PROGRESS", "COMPLETED", "CANCELED"}
ApprovalStatus == {"NOT_REQUIRED", "PENDING", "APPROVED", "REJECTED",
                   "REQUESTED", "CHANGES_REQUESTED"}
Closed == {"COMPLETED", "CANCELED"}

\* version 0 is an Action that does not exist yet.  decided_by is history: who
\* took the last approval decision.
Row == [version : 0..MaxVersion, status : ActionStatus,
        previous : ActionStatus \cup {"NONE"}, approval : ApprovalStatus,
        requested_by : Users \cup {NoOne}, owner : Users \cup {NoOne},
        created_by : Users \cup {NoOne}, decided_by : Users \cup {NoOne}]

\* A subtask that is removed keeps its row.
Child == {"absent", "open", "done", "removed"}

\* An audit event: what the change was from and to and, of a subtask change, who
\* made it under which idempotency key.
Work == [status : ActionStatus, approval : ApprovalStatus]
Event == [event : {"CREATED", "EDITED", "STATUS_CHANGED", "APPROVAL_DECIDED",
                   "APPROVAL_REQUESTED", "SUBTASK_CHANGED"},
          before : Work, after : Work, key : (Users \X Keys) \cup {NoKey}]

NoRow == [version |-> 0, status |-> "OPEN", previous |-> "NONE",
          approval |-> "NOT_REQUIRED", requested_by |-> NoOne, owner |-> NoOne,
          created_by |-> NoOne, decided_by |-> NoOne]
NoChildren == [c \in Children |-> "absent"]

Request == [pc : {"idle", "row", "ready", "checked"}, actor : Users \cup {NoOne},
            row : Row, children : [Children -> Child],
            keys : SUBSET (Users \X Keys)]
IdleRequest == [pc |-> "idle", actor |-> NoOne, row |-> NoRow,
                children |-> NoChildren, keys |-> {}]

TypeOK ==
  /\ row \in Row
  /\ children \in [Children -> Child]
  /\ history \in Seq(Event)
  /\ request \in [Requests -> Request]

WorkOf(r) == [status |-> r.status, approval |-> r.approval]

\* The subtask changes on record: who made them, under which key.
KeysUsed == {history[i].key : i \in DOMAIN history} \ {NoKey}

-----------------------------------------------------------------------------
(***************************************************************************)
(* What the domain and the policy allow.                                   *)
(***************************************************************************)

\* Mutant: completed work can be canceled.
AlsoCancelsCompleted(r) ==
  CASE r.status = "OPEN" -> {"IN_PROGRESS", "COMPLETED", "CANCELED"}
    [] r.status = "IN_PROGRESS" -> {"COMPLETED", "CANCELED"}
    [] r.status = "COMPLETED" -> {"IN_PROGRESS", "CANCELED"}
    [] r.status = "CANCELED" -> {r.previous} \ {"NONE"}

\* allowed_transitions: the only state machine of work.
Transitions(r) ==
  CASE r.status = "OPEN" -> {"IN_PROGRESS", "COMPLETED", "CANCELED"}
    [] r.status = "IN_PROGRESS" -> {"COMPLETED", "CANCELED"}
    [] r.status = "COMPLETED" -> {"IN_PROGRESS"}
    [] r.status = "CANCELED" -> {r.previous} \ {"NONE"}

MayManage(user, r) ==
  \/ user \in Managers
  \/ r.owner \in {NoOne, user}
  \/ r.created_by = user

\* approval_requested_by or created_by
Requester(r) == IF r.requested_by # NoOne THEN r.requested_by ELSE r.created_by

\* Mutant: who asked last is forgotten; only the creator may not decide.
NotTheCreator(actor, r) == actor # r.created_by

Independent(actor, r) == actor # Requester(r)

OpenChildren(kids) == {c \in Children : kids[c] = "open"}

-----------------------------------------------------------------------------
Init ==
  /\ row = NoRow
  /\ children = NoChildren
  /\ history = <<>>
  /\ request = [q \in Requests |-> IdleRequest]

\* create: insert on conflict do nothing, with the CREATED event.  A repeat, or
\* a concurrent creator, finds the row and changes nothing.
Create(q, actor, owner, approval_required) ==
  /\ request[q].pc = "idle"
  /\ row.version = 0
  /\ owner # actor => actor \in Managers
  /\ row' = [NoRow EXCEPT !.version = 1, !.owner = owner, !.created_by = actor,
               !.approval = IF approval_required THEN "PENDING" ELSE "NOT_REQUIRED"]
  /\ history' = <<[event |-> "CREATED", before |-> WorkOf(row'),
                   after |-> WorkOf(row'), key |-> NoKey]>>
  /\ UNCHANGED <<children, request>>

\* get: the row ...
ReadRow(q, actor) ==
  /\ request[q].pc = "idle"
  /\ row.version > 0
  /\ request' = [request EXCEPT ![q] = [IdleRequest EXCEPT
                   !.pc = "row", !.actor = actor, !.row = row]]
  /\ UNCHANGED <<row, children, history>>

\* ... and on another connection its subtasks.
ReadChildren(q) ==
  /\ request[q].pc = "row"
  /\ request' = [request EXCEPT ![q].pc = "ready", ![q].children = children]
  /\ UNCHANGED <<row, children, history>>

\* change_subtask looks for its key in the history.
ReadHistory(q) ==
  /\ request[q].pc = "ready"
  /\ request' = [request EXCEPT ![q].pc = "checked", ![q].keys = KeysUsed]
  /\ UNCHANGED <<row, children, history>>

\* Mutant: the UPDATE does not ask for the version that was read.
AnyVersion(read) == TRUE

\* WHERE version = expected_version
SameVersion(read) == row.version = read.version

\* One transaction: the row, every subtask the request read or changed, and the
\* audit event.  The request then returns.
Save(q, event, key, new, kids) ==
  LET read == request[q].row
  IN  /\ SameVersion(read)
      /\ read.version < MaxVersion
      /\ row' = [new EXCEPT !.version = read.version + 1]
      /\ children' = [c \in Children |->
                        IF kids[c] = "absent" THEN children[c] ELSE kids[c]]
      /\ history' = Append(history, [event |-> event, before |-> WorkOf(read),
                                      after |-> WorkOf(new), key |-> key])
      /\ request' = [request EXCEPT ![q] = IdleRequest]

\* The request is refused, conflicts, replays an earlier answer, finds nothing
\* to change, or its process dies: it leaves no trace.
Return(q) ==
  /\ request[q].pc # "idle"
  /\ request' = [request EXCEPT ![q] = IdleRequest]
  /\ UNCHANGED <<row, children, history>>

Ready(q) == request[q].pc = "ready"

\* edit: title, description, due date, priority, account; a manager may also
\* assign it.
Edit(q, owner) ==
  LET read == request[q].row  actor == request[q].actor
  IN  /\ Ready(q)
      /\ MayManage(actor, read)
      /\ owner # read.owner => actor \in Managers
      /\ Save(q, "EDITED", NoKey, [read EXCEPT !.owner = owner], request[q].children)

\* Completion needs an approval, unless none is required.
ApprovedForCompletion(r) == r.approval \in {"NOT_REQUIRED", "APPROVED"}

Transition(q, status, complete_open_subtasks) ==
  LET read == request[q].row  kids == request[q].children
  IN  /\ Ready(q)
      /\ MayManage(request[q].actor, read)
      /\ status \in Transitions(read)
      /\ status = "COMPLETED" =>
           /\ ApprovedForCompletion(read)
           /\ OpenChildren(kids) = {} \/ complete_open_subtasks
      /\ Save(q, "STATUS_CHANGED", NoKey,
              [read EXCEPT !.status = status,
                           !.previous = IF status = "CANCELED" THEN read.status ELSE @],
              IF status = "COMPLETED" /\ complete_open_subtasks
                THEN [c \in Children |-> IF kids[c] = "open" THEN "done" ELSE kids[c]]
                ELSE kids)

DecideApproval(q, decision) ==
  LET read == request[q].row  actor == request[q].actor
  IN  /\ Ready(q)
      /\ actor \in Managers
      /\ read.status \notin Closed
      /\ Independent(actor, read)
      /\ read.approval \in {"PENDING", "REQUESTED"}
      /\ Save(q, "APPROVAL_DECIDED", NoKey,
              [read EXCEPT !.approval = decision, !.decided_by = actor,
                           !.status = IF decision = "CHANGES_REQUESTED"
                                        THEN "IN_PROGRESS" ELSE @],
              request[q].children)

RequestApproval(q) ==
  LET read == request[q].row  actor == request[q].actor
  IN  /\ Ready(q)
      /\ read.owner = actor
      /\ read.status \notin Closed
      /\ read.approval # "REQUESTED"
      /\ Save(q, "APPROVAL_REQUESTED", NoKey,
              [read EXCEPT !.approval = "REQUESTED", !.requested_by = actor],
              request[q].children)

\* Mutant: subtasks of closed work can be edited.
AnyStatus(r) == TRUE

SubtasksEditable(r) == r.status \notin Closed

\* Creates (from absent), completes, reopens, removes or restores one subtask.
ChangeSubtask(q, child, state, key) ==
  LET read == request[q].row  actor == request[q].actor
  IN  /\ request[q].pc = "checked"
      /\ MayManage(actor, read)
      /\ <<actor, key>> \notin request[q].keys
      /\ SubtasksEditable(read)
      /\ state # "absent"
      /\ Save(q, "SUBTASK_CHANGED", <<actor, key>>, read,
              [request[q].children EXCEPT ![child] = state])

Next ==
  \/ \E q \in Requests, actor \in Users :
       \/ ReadRow(q, actor)
       \/ \E owner \in Users, needed \in BOOLEAN : Create(q, actor, owner, needed)
  \/ \E q \in Requests :
       \/ ReadChildren(q) \/ ReadHistory(q) \/ Return(q) \/ RequestApproval(q)
       \/ \E owner \in Users \cup {NoOne} : Edit(q, owner)
       \/ \E status \in ActionStatus, all \in BOOLEAN : Transition(q, status, all)
       \/ \E decision \in {"APPROVED", "REJECTED", "CHANGES_REQUESTED"} :
            DecideApproval(q, decision)
       \/ \E child \in Children, state \in Child, key \in Keys :
            ChangeSubtask(q, child, state, key)

Spec == Init /\ [][Next]_vars

-----------------------------------------------------------------------------
\* Work is complete only with its approval, or without need of one, and with
\* no open subtask, whoever reopened, canceled, asked or edited meanwhile.
CompletedWorkIsSettled ==
  row.status = "COMPLETED" =>
    /\ row.approval \in {"NOT_REQUIRED", "APPROVED"}
    /\ OpenChildren(children) = {}

\* Nobody decides on their own request.
SeparationOfDuties ==
  row.approval \in {"APPROVED", "REJECTED", "CHANGES_REQUESTED"} =>
    /\ row.decided_by \in Managers
    /\ row.decided_by # Requester(row)

\* However often a subtask change is retried, and however the retries overlap,
\* it is applied once.
SubtaskChangesApplyOnce ==
  \A i, j \in DOMAIN history :
    history[i].key # NoKey /\ history[i].key = history[j].key => i = j

\* Canceled work comes back to exactly the status it was canceled in, which the
\* audit shows, and is never complete.
CancelRestores ==
  [][row.status = "CANCELED" /\ row'.status # "CANCELED" =>
       \E i \in DOMAIN history :
         /\ history[i].event = "STATUS_CHANGED"
         /\ history[i].after.status = "CANCELED"
         /\ history[i].before.status = row'.status
         /\ row'.status # "COMPLETED"
         /\ \A j \in DOMAIN history :
              j > i => history[j].after.status = "CANCELED"]_vars
=============================================================================
