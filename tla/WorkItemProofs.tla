---------------------------- MODULE WorkItemProofs ----------------------------
(***************************************************************************)
(* What requests with mixed reads cannot do to an Action, and when a       *)
(* proposal of the CRM workflow runs: for any number of users, requests,   *)
(* calls, subtasks, keys and versions, and for any commercial data.        *)
(***************************************************************************)
EXTENDS WorkItem, CrmProposal, TLAPS

EventNames == {"CREATED", "EDITED", "STATUS_CHANGED", "APPROVAL_DECIDED",
               "APPROVAL_REQUESTED", "SUBTASK_CHANGED"}

EventKeys == (Users \X Keys) \cup {NoKey}

Deciding(q) == request[q].pc \in {"ready", "checked"}

\* A request that holds the current version holds the current row, subtasks and keys,
\* although it read them one after the other.
ReadsAreCurrent ==
  \A q \in Requests : request[q].pc # "idle" =>
    /\ request[q].actor \in Users
    /\ 1 <= request[q].row.version /\ request[q].row.version <= row.version
    /\ request[q].row.version = row.version =>
         /\ request[q].row = row
         /\ Deciding(q) => request[q].children = children
         /\ request[q].pc = "checked" => request[q].keys = KeysUsed

Inv == TypeOK /\ ReadsAreCurrent

IInv == Inv /\ CompletedWorkIsSettled /\ SeparationOfDuties /\ SubtaskChangesApplyOnce

\* The audit shows the status that work was canceled in, and nothing else since.
CanceledFrom(status, trail) ==
  \E i \in DOMAIN trail :
    /\ trail[i].event = "STATUS_CHANGED"
    /\ trail[i].after.status = "CANCELED" /\ trail[i].before.status = status
    /\ \A j \in DOMAIN trail : j > i => trail[j].after.status = "CANCELED"

\* Every version has its event, and canceled work the status it comes back to.
TrailInv ==
  /\ Len(history) = row.version
  /\ row.version = 0 => row.status # "CANCELED"
  /\ row.status = "CANCELED" =>
       row.previous \in {"OPEN", "IN_PROGRESS"} /\ CanceledFrom(row.previous, history)

-----------------------------------------------------------------------------
LEMMA RowTypes ==
  ASSUME NEW r \in Row
  PROVE  /\ r.version \in Nat /\ r.version <= MaxVersion
         /\ r.status \in ActionStatus /\ r.approval \in ApprovalStatus
         /\ r.previous \in ActionStatus \cup {"NONE"}
         /\ r.requested_by \in Users \cup {NoOne} /\ r.owner \in Users \cup {NoOne}
         /\ r.created_by \in Users \cup {NoOne} /\ r.decided_by \in Users \cup {NoOne}
<1>1. r.version \in 0..MaxVersion
  BY DEF Row
<1>2. MaxVersion \in Nat
  BY WorkAssumption
<1>3. r.version \in Nat /\ r.version <= MaxVersion
  BY <1>1, <1>2
<1>. QED
  BY <1>3 DEF Row

LEMMA NextVersion ==
  ASSUME NEW r \in Row, NEW v \in Nat, v < MaxVersion
  PROVE  /\ [r EXCEPT !.version = v + 1] \in Row
         /\ [r EXCEPT !.version = v + 1].version = v + 1
<1>1. v + 1 \in 0..MaxVersion
  BY WorkAssumption
<1>. QED
  BY <1>1 DEF Row

LEMMA RequestTypes ==
  ASSUME TypeOK, NEW q \in Requests
  PROVE  /\ request[q].row \in Row /\ request[q].children \in [Children -> Child]
         /\ request[q].actor \in Users \cup {NoOne}
         /\ request[q].keys \in SUBSET (Users \X Keys)
BY DEF TypeOK, Request

LEMMA IdleRequestType == IdleRequest \in Request
<1>1. NoRow \in Row
  BY WorkAssumption DEF NoRow, Row, ActionStatus, ApprovalStatus
<1>2. NoChildren \in [Children -> Child]
  BY DEF NoChildren, Child
<1>. QED
  BY <1>1, <1>2 DEF IdleRequest, Request

LEMMA EventType ==
  ASSUME NEW event \in EventNames, NEW key \in EventKeys, NEW before \in Row, NEW after \in Row
  PROVE  [event |-> event, before |-> WorkOf(before), after |-> WorkOf(after),
          key |-> key] \in Event
<1>1. WorkOf(before) \in Work /\ WorkOf(after) \in Work
  BY RowTypes DEF WorkOf, Work
<1>. QED
  BY <1>1 DEF Event, EventNames, EventKeys

\* What fencing by version is for: a save that is let through decided on what is there.
LEMMA SavedOnTheRow ==
  ASSUME Inv, NEW q \in Requests, Deciding(q), SameVersion(request[q].row)
  PROVE  /\ request[q].row = row /\ request[q].children = children
         /\ request[q].pc = "checked" => request[q].keys = KeysUsed
         /\ row.version \in Nat /\ row.version > 0
<1>1. row.version \in Nat
  BY RowTypes DEF Inv, TypeOK
<1>. QED
  BY <1>1 DEF Inv, ReadsAreCurrent, Deciding, SameVersion

\* And nobody else who has read before it can save after it.
LEMMA SaveKeepsInv ==
  ASSUME Inv, NEW q \in Requests, Deciding(q),
         NEW event \in EventNames, NEW key \in EventKeys,
         NEW new \in Row, NEW kids \in [Children -> Child],
         Save(q, event, key, new, kids)
  PROVE  Inv'
<1>. DEFINE read == request[q].row
            entry == [event |-> event, before |-> WorkOf(read), after |-> WorkOf(new),
                      key |-> key]
<1>1. /\ read.version < MaxVersion
      /\ row' = [new EXCEPT !.version = read.version + 1]
      /\ children' = [c \in Children |-> IF kids[c] = "absent" THEN children[c] ELSE kids[c]]
      /\ history' = Append(history, entry)
      /\ request' = [request EXCEPT ![q] = IdleRequest]
  BY DEF Save
<1>2. read \in Row /\ read = row /\ row.version \in Nat
  BY RequestTypes, SavedOnTheRow DEF Inv, Save
<1>3. entry \in Event
  BY <1>2, EventType
<1>. HIDE DEF read, entry
<1>4. row' \in Row /\ row'.version = row.version + 1
  BY <1>1, <1>2, NextVersion
<1>5. TypeOK'
  <2>1. children' \in [Children -> Child]
    BY <1>1 DEF Inv, TypeOK
  <2>2. history' \in Seq(Event)
    BY <1>1, <1>3 DEF Inv, TypeOK
  <2>3. request' \in [Requests -> Request]
    BY <1>1, IdleRequestType DEF Inv, TypeOK
  <2>. QED
    BY <1>4, <2>1, <2>2, <2>3 DEF TypeOK
<1>6. ReadsAreCurrent'
  <2>1. ASSUME NEW p \in Requests, request'[p].pc # "idle"
        PROVE  /\ request'[p].actor \in Users
               /\ 1 <= request'[p].row.version
               /\ request'[p].row.version <= row'.version
               /\ request'[p].row.version # row'.version
    <3>1. p # q /\ request'[p] = request[p]
      BY <1>1, <2>1 DEF Inv, TypeOK, IdleRequest
    <3>2. /\ 1 <= request[p].row.version /\ request[p].row.version <= row.version
          /\ request[p].row.version \in Nat /\ request[p].actor \in Users
      BY <2>1, <3>1, RequestTypes, RowTypes DEF Inv, ReadsAreCurrent
    <3>. QED
      BY <1>2, <1>4, <3>1, <3>2
  <2>. QED
    BY <2>1 DEF ReadsAreCurrent
<1>. QED
  BY <1>5, <1>6 DEF Inv

\* What is there after a save: what the request made of what is there.
LEMMA SaveFacts ==
  ASSUME Inv, NEW q \in Requests, Deciding(q), NEW event, NEW key,
         NEW new \in Row, NEW kids \in [Children -> Child],
         Save(q, event, key, new, kids)
  PROVE  /\ request[q].row = row /\ request[q].children = children
         /\ request[q].pc = "checked" => request[q].keys = KeysUsed
         /\ row'.status = new.status /\ row'.approval = new.approval
         /\ row'.requested_by = new.requested_by /\ row'.created_by = new.created_by
         /\ row'.decided_by = new.decided_by /\ row'.previous = new.previous
         /\ row'.version = row.version + 1
         /\ \A c \in Children : children'[c] = IF kids[c] = "absent" THEN children[c] ELSE kids[c]
         /\ history' = Append(history, [event |-> event, before |-> WorkOf(row),
                                         after |-> WorkOf(new), key |-> key])
<1>1. /\ request[q].row = row /\ request[q].children = children
      /\ request[q].pc = "checked" => request[q].keys = KeysUsed
  BY SavedOnTheRow DEF Save
<1>2. /\ row' = [new EXCEPT !.version = request[q].row.version + 1]
      /\ children' = [c \in Children |-> IF kids[c] = "absent" THEN children[c] ELSE kids[c]]
      /\ history' = Append(history, [event |-> event, before |-> WorkOf(request[q].row),
                                      after |-> WorkOf(new), key |-> key])
  BY DEF Save
<1>3. /\ row'.status = new.status /\ row'.approval = new.approval
      /\ row'.requested_by = new.requested_by /\ row'.created_by = new.created_by
      /\ row'.decided_by = new.decided_by /\ row'.previous = new.previous
      /\ row'.version = request[q].row.version + 1
  BY <1>2 DEF Row
<1>. QED
  BY <1>1, <1>2, <1>3

\* A key that is not on record, or none, can be appended.
LEMMA KeysStayUnique ==
  ASSUME history \in Seq(Event), SubtaskChangesApplyOnce, NEW entry,
         history' = Append(history, entry),
         entry.key = NoKey \/ entry.key \notin KeysUsed
  PROVE  SubtaskChangesApplyOnce'
<1>1. /\ Len(history) \in Nat /\ DOMAIN history = 1..Len(history)
      /\ DOMAIN history' = 1..(Len(history) + 1)
      /\ \A i \in 1..Len(history) : history'[i] = history[i]
      /\ history'[Len(history) + 1] = entry
  OBVIOUS
<1>2. entry.key # NoKey => \A i \in DOMAIN history : history[i].key # entry.key
  BY DEF KeysUsed
<1>. SUFFICES ASSUME NEW i \in DOMAIN history', NEW j \in DOMAIN history',
                     history'[i].key # NoKey, history'[i].key = history'[j].key
              PROVE  i = j
  BY DEF SubtaskChangesApplyOnce
<1>3. CASE i \in DOMAIN history /\ j \in DOMAIN history
  BY <1>1, <1>3 DEF SubtaskChangesApplyOnce
<1>4. CASE i \notin DOMAIN history \/ j \notin DOMAIN history
  BY <1>1, <1>2, <1>4
<1>. QED
  BY <1>3, <1>4

\* Closed work keeps its subtasks unless the request changes them.
LEMMA ChildrenStay ==
  ASSUME NEW kids, kids = children,
         \A c \in Children : children'[c] = IF kids[c] = "absent" THEN children[c] ELSE kids[c]
  PROVE  OpenChildren(children)' = OpenChildren(children)
BY DEF OpenChildren

-----------------------------------------------------------------------------
\* The steps of a request that change nothing but what it has read.
LEMMA ReadingKeepsIInv ==
  ASSUME IInv, UNCHANGED <<row, children, history>>, ReadsAreCurrent',
         request' \in [Requests -> Request]
  PROVE  IInv'
BY DEF IInv, Inv, TypeOK, CompletedWorkIsSettled, SeparationOfDuties, SubtaskChangesApplyOnce,
       Requester, OpenChildren

LEMMA ReadRowKeepsIInv ==
  ASSUME IInv, NEW q \in Requests, NEW actor \in Users, ReadRow(q, actor) PROVE IInv'
<1>. DEFINE new == [IdleRequest EXCEPT !.pc = "row", !.actor = actor, !.row = row]
<1>1. /\ row.version > 0 /\ UNCHANGED <<row, children, history>>
      /\ request' = [request EXCEPT ![q] = new]
  BY DEF ReadRow
<1>2. new \in Request /\ new.pc = "row" /\ new.row = row /\ new.actor = actor
  BY IdleRequestType DEF IInv, Inv, TypeOK, Request
<1>3. row.version \in Nat
  BY RowTypes DEF IInv, Inv, TypeOK
<1>. HIDE DEF new
<1>4. request' \in [Requests -> Request]
  BY <1>1, <1>2 DEF IInv, Inv, TypeOK
<1>5. \A p \in Requests : request'[p] = IF p = q THEN new ELSE request[p]
  BY <1>1 DEF IInv, Inv, TypeOK
<1>6. ReadsAreCurrent'
  BY <1>1, <1>2, <1>3, <1>5 DEF IInv, Inv, ReadsAreCurrent, Deciding, KeysUsed
<1>. QED
  BY <1>1, <1>4, <1>6, ReadingKeepsIInv

LEMMA ReadChildrenKeepsIInv ==
  ASSUME IInv, NEW q \in Requests, ReadChildren(q) PROVE IInv'
<1>. DEFINE new == [request[q] EXCEPT !.pc = "ready", !.children = children]
<1>1. /\ request[q].pc = "row" /\ UNCHANGED <<row, children, history>>
      /\ request' = [request EXCEPT ![q] = new]
  BY DEF ReadChildren, IInv, Inv, TypeOK
<1>2. /\ new \in Request /\ new.pc = "ready" /\ new.row = request[q].row
      /\ new.children = children /\ new.actor = request[q].actor
  BY DEF IInv, Inv, TypeOK, Request
<1>. HIDE DEF new
<1>4. request' \in [Requests -> Request]
  BY <1>1, <1>2 DEF IInv, Inv, TypeOK
<1>5. \A p \in Requests : request'[p] = IF p = q THEN new ELSE request[p]
  BY <1>1 DEF IInv, Inv, TypeOK
<1>6. ReadsAreCurrent'
  BY <1>1, <1>2, <1>5 DEF IInv, Inv, ReadsAreCurrent, Deciding, KeysUsed
<1>. QED
  BY <1>1, <1>4, <1>6, ReadingKeepsIInv

LEMMA ReadHistoryKeepsIInv ==
  ASSUME IInv, NEW q \in Requests, ReadHistory(q) PROVE IInv'
<1>. DEFINE new == [request[q] EXCEPT !.pc = "checked", !.keys = KeysUsed]
<1>1. /\ request[q].pc = "ready" /\ UNCHANGED <<row, children, history>>
      /\ request' = [request EXCEPT ![q] = new]
  BY DEF ReadHistory, IInv, Inv, TypeOK
<1>2. KeysUsed \in SUBSET (Users \X Keys)
  <2>1. \A i \in DOMAIN history : history[i] \in Event
    BY DEF IInv, Inv, TypeOK
  <2>2. \A e \in Event : e.key \in (Users \X Keys) \cup {NoKey}
    BY DEF Event
  <2>. QED
    BY <2>1, <2>2 DEF KeysUsed
<1>3. /\ new \in Request /\ new.pc = "checked" /\ new.row = request[q].row
      /\ new.children = request[q].children /\ new.keys = KeysUsed
      /\ new.actor = request[q].actor
  BY <1>2 DEF IInv, Inv, TypeOK, Request
<1>. HIDE DEF new
<1>4. request' \in [Requests -> Request]
  BY <1>1, <1>3 DEF IInv, Inv, TypeOK
<1>5. \A p \in Requests : request'[p] = IF p = q THEN new ELSE request[p]
  BY <1>1 DEF IInv, Inv, TypeOK
<1>6. ReadsAreCurrent'
  BY <1>1, <1>3, <1>5 DEF IInv, Inv, ReadsAreCurrent, Deciding, KeysUsed
<1>. QED
  BY <1>1, <1>4, <1>6, ReadingKeepsIInv

LEMMA ReturnKeepsIInv == ASSUME IInv, NEW q \in Requests, Return(q) PROVE IInv'
<1>1. /\ UNCHANGED <<row, children, history>>
      /\ request' = [request EXCEPT ![q] = IdleRequest]
  BY DEF Return
<1>2. request' \in [Requests -> Request]
  BY <1>1, IdleRequestType DEF IInv, Inv, TypeOK
<1>3. \A p \in Requests : request'[p] = IF p = q THEN IdleRequest ELSE request[p]
  BY <1>1 DEF IInv, Inv, TypeOK
<1>4. ReadsAreCurrent'
  BY <1>1, <1>3 DEF IInv, Inv, ReadsAreCurrent, Deciding, KeysUsed, IdleRequest
<1>. QED
  BY <1>1, <1>2, <1>4, ReadingKeepsIInv

\* An Action is created before any request can have read it.
LEMMA CreateKeepsIInv ==
  ASSUME IInv, NEW q \in Requests, NEW actor \in Users, NEW owner \in Users,
         NEW needed \in BOOLEAN, Create(q, actor, owner, needed)
  PROVE  IInv'
<1>. DEFINE entry == [event |-> "CREATED", before |-> WorkOf(row'), after |-> WorkOf(row'),
                      key |-> NoKey]
<1>1. /\ row.version = 0
      /\ row' = [NoRow EXCEPT !.version = 1, !.owner = owner, !.created_by = actor,
                   !.approval = IF needed THEN "PENDING" ELSE "NOT_REQUIRED"]
      /\ history' = <<entry>>
      /\ UNCHANGED <<children, request>>
  BY DEF Create
<1>2. /\ row' \in Row /\ row'.status = "OPEN"
      /\ row'.approval \in {"PENDING", "NOT_REQUIRED"}
  <2>1. 1 \in 0..MaxVersion
    BY WorkAssumption
  <2>. QED
    BY <1>1, <2>1 DEF NoRow, Row, ActionStatus, ApprovalStatus
<1>3. entry \in Event
  BY <1>2, EventType DEF EventNames, EventKeys
<1>4. entry.key = NoKey
  OBVIOUS
<1>. HIDE DEF entry
<1>5. \A p \in Requests : request[p].pc = "idle"
  <2>. SUFFICES ASSUME NEW p \in Requests, request[p].pc # "idle" PROVE FALSE
    OBVIOUS
  <2>1. request[p].row.version \in Nat
    BY RequestTypes, RowTypes DEF IInv, Inv
  <2>. QED
    BY <1>1, <2>1 DEF IInv, Inv, ReadsAreCurrent
<1>6. TypeOK' /\ ReadsAreCurrent'
  BY <1>1, <1>2, <1>3, <1>5 DEF IInv, Inv, TypeOK, ReadsAreCurrent
<1>7. CompletedWorkIsSettled' /\ SeparationOfDuties'
  BY <1>2 DEF CompletedWorkIsSettled, SeparationOfDuties
<1>8. SubtaskChangesApplyOnce'
  BY <1>1, <1>4 DEF SubtaskChangesApplyOnce
<1>. QED
  BY <1>6, <1>7, <1>8 DEF IInv, Inv

-----------------------------------------------------------------------------
\* A save that records no key leaves the keys on record unique.
LEMMA SaveWithoutKey ==
  ASSUME IInv, NEW q \in Requests, Deciding(q), NEW event \in EventNames,
         NEW new \in Row, NEW kids \in [Children -> Child], Save(q, event, NoKey, new, kids)
  PROVE  Inv' /\ SubtaskChangesApplyOnce'
<1>1. Inv'
  BY SaveKeepsInv DEF IInv, EventKeys
<1>. DEFINE entry == [event |-> event, before |-> WorkOf(row), after |-> WorkOf(new),
                      key |-> NoKey]
<1>2. history' = Append(history, entry)
  BY SaveFacts DEF IInv
<1>3. entry.key = NoKey
  OBVIOUS
<1>4. history \in Seq(Event) /\ SubtaskChangesApplyOnce
  BY DEF IInv, Inv, TypeOK
<1>. HIDE DEF entry
<1>. QED
  BY <1>1, <1>2, <1>3, <1>4, KeysStayUnique

LEMMA EditKeepsIInv ==
  ASSUME IInv, NEW q \in Requests, NEW owner \in Users \cup {NoOne}, Edit(q, owner)
  PROVE  IInv'
<1>. DEFINE read == request[q].row
            new == [read EXCEPT !.owner = owner]
<1>1. Deciding(q) /\ Save(q, "EDITED", NoKey, new, request[q].children)
  BY DEF Edit, Ready, Deciding
<1>2. read \in Row /\ request[q].children \in [Children -> Child]
  BY RequestTypes DEF IInv, Inv
<1>3. /\ new \in Row /\ new.status = read.status /\ new.approval = read.approval
      /\ new.requested_by = read.requested_by /\ new.created_by = read.created_by
      /\ new.decided_by = read.decided_by
  BY <1>2 DEF Row
<1>. HIDE DEF new
<1>4. /\ read = row /\ request[q].children = children
      /\ row'.status = row.status /\ row'.approval = row.approval
      /\ row'.requested_by = row.requested_by /\ row'.created_by = row.created_by
      /\ row'.decided_by = row.decided_by
      /\ \A c \in Children : children'[c] =
           IF request[q].children[c] = "absent" THEN children[c] ELSE request[q].children[c]
  BY <1>1, <1>2, <1>3, SaveFacts DEF IInv
<1>5. Inv' /\ SubtaskChangesApplyOnce'
  BY <1>1, <1>2, <1>3, SaveWithoutKey DEF EventNames
<1>6. OpenChildren(children)' = OpenChildren(children)
  BY <1>4, ChildrenStay
<1>7. CompletedWorkIsSettled' /\ SeparationOfDuties'
  BY <1>4, <1>6 DEF IInv, CompletedWorkIsSettled, SeparationOfDuties, Requester
<1>. QED
  BY <1>5, <1>7 DEF IInv, Inv

\* Completion settles what is there: the approval that was read and the subtasks that
\* were read are the current ones.
LEMMA TransitionKeepsIInv ==
  ASSUME IInv, NEW q \in Requests, NEW status \in ActionStatus, NEW all \in BOOLEAN,
         Transition(q, status, all)
  PROVE  IInv'
<1>. DEFINE read == request[q].row
            kids == request[q].children
            new == [read EXCEPT !.status = status,
                                !.previous = IF status = "CANCELED" THEN read.status ELSE @]
            closed == IF status = "COMPLETED" /\ all
                        THEN [c \in Children |-> IF kids[c] = "open" THEN "done" ELSE kids[c]]
                        ELSE kids
<1>1. /\ Deciding(q) /\ Save(q, "STATUS_CHANGED", NoKey, new, closed)
      /\ status = "COMPLETED" => /\ read.approval \in {"NOT_REQUIRED", "APPROVED"}
                                 /\ OpenChildren(kids) = {} \/ all
  BY DEF Transition, Ready, Deciding, ApprovedForCompletion
<1>2. read \in Row /\ kids \in [Children -> Child]
  BY RequestTypes DEF IInv, Inv
<1>3. /\ new \in Row /\ new.status = status /\ new.approval = read.approval
      /\ new.requested_by = read.requested_by /\ new.created_by = read.created_by
      /\ new.decided_by = read.decided_by
  BY <1>2 DEF Row
<1>4. closed \in [Children -> Child]
  BY <1>2 DEF Child
<1>5. status = "COMPLETED" => \A c \in Children : closed[c] # "open"
  BY <1>1, <1>2 DEF OpenChildren
<1>. HIDE DEF new, closed
<1>6. /\ read = row /\ kids = children
      /\ row'.status = status /\ row'.approval = row.approval
      /\ row'.requested_by = row.requested_by /\ row'.created_by = row.created_by
      /\ row'.decided_by = row.decided_by
      /\ \A c \in Children : children'[c] = IF closed[c] = "absent" THEN children[c] ELSE closed[c]
  BY <1>1, <1>2, <1>3, <1>4, SaveFacts DEF IInv
<1>7. Inv' /\ SubtaskChangesApplyOnce'
  BY <1>1, <1>2, <1>3, <1>4, SaveWithoutKey DEF EventNames
<1>8. status = "COMPLETED" => OpenChildren(children)' = {}
  <2>. SUFFICES ASSUME status = "COMPLETED", NEW c \in Children PROVE children'[c] # "open"
    BY DEF OpenChildren
  <2>1. closed[c] = "absent" => children[c] # "open"
    <3>. SUFFICES ASSUME closed[c] = "absent" PROVE children[c] # "open"
      OBVIOUS
    <3>1. kids[c] = "absent"
      BY <1>2 DEF closed
    <3>. QED
      BY <1>6, <3>1
  <2>. QED
    BY <1>5, <1>6, <2>1
<1>9. CompletedWorkIsSettled' /\ SeparationOfDuties'
  BY <1>1, <1>6, <1>8 DEF IInv, CompletedWorkIsSettled, SeparationOfDuties, Requester
<1>. QED
  BY <1>7, <1>9 DEF IInv, Inv

LEMMA DecideKeepsIInv ==
  ASSUME IInv, NEW q \in Requests,
         NEW decision \in {"APPROVED", "REJECTED", "CHANGES_REQUESTED"},
         DecideApproval(q, decision)
  PROVE  IInv'
<1>. DEFINE read == request[q].row
            actor == request[q].actor
            status == IF decision = "CHANGES_REQUESTED" THEN "IN_PROGRESS" ELSE read.status
            new == [read EXCEPT !.approval = decision, !.decided_by = actor,
                                !.status = status]
<1>1. /\ Deciding(q) /\ Save(q, "APPROVAL_DECIDED", NoKey, new, request[q].children)
      /\ actor \in Managers /\ read.status \notin Closed /\ Independent(actor, read)
  BY DEF DecideApproval, Ready, Deciding
<1>2. /\ read \in Row /\ request[q].children \in [Children -> Child]
      /\ actor \in Users
  BY <1>1, RequestTypes, WorkAssumption DEF IInv, Inv
<1>3. /\ new \in Row /\ new.status # "COMPLETED"
      /\ new.requested_by = read.requested_by /\ new.created_by = read.created_by
      /\ new.decided_by = actor
  <2>1. status \in ActionStatus /\ status # "COMPLETED"
    BY <1>1, <1>2, RowTypes DEF ActionStatus, Closed
  <2>2. decision \in ApprovalStatus
    BY DEF ApprovalStatus
  <2>. HIDE DEF status
  <2>3. new \in Row
    BY <1>2, <2>1, <2>2 DEF Row
  <2>4. /\ new.status = status /\ new.requested_by = read.requested_by
        /\ new.created_by = read.created_by /\ new.decided_by = actor
    BY <1>2 DEF Row
  <2>. QED
    BY <2>1, <2>3, <2>4
<1>. HIDE DEF new
<1>4. /\ read = row /\ row'.status # "COMPLETED"
      /\ row'.requested_by = row.requested_by /\ row'.created_by = row.created_by
      /\ row'.decided_by = actor
  BY <1>1, <1>2, <1>3, SaveFacts DEF IInv
<1>5. Inv' /\ SubtaskChangesApplyOnce'
  BY <1>1, <1>2, <1>3, SaveWithoutKey DEF EventNames
<1>6. CompletedWorkIsSettled'
  BY <1>4 DEF CompletedWorkIsSettled
<1>7. SeparationOfDuties'
  BY <1>1, <1>4 DEF SeparationOfDuties, Independent, Requester
<1>. QED
  BY <1>5, <1>6, <1>7 DEF IInv, Inv

LEMMA RequestKeepsIInv ==
  ASSUME IInv, NEW q \in Requests, RequestApproval(q) PROVE IInv'
<1>. DEFINE read == request[q].row
            new == [read EXCEPT !.approval = "REQUESTED", !.requested_by = request[q].actor]
<1>1. /\ Deciding(q) /\ Save(q, "APPROVAL_REQUESTED", NoKey, new, request[q].children)
      /\ read.status \notin Closed
  BY DEF RequestApproval, Ready, Deciding
<1>2. /\ read \in Row /\ request[q].children \in [Children -> Child]
      /\ request[q].actor \in Users \cup {NoOne}
  BY RequestTypes DEF IInv, Inv
<1>3. new \in Row /\ new.status # "COMPLETED" /\ new.approval = "REQUESTED"
  BY <1>1, <1>2 DEF Row, ApprovalStatus, Closed
<1>. HIDE DEF new
<1>4. row'.status # "COMPLETED" /\ row'.approval = "REQUESTED"
  BY <1>1, <1>2, <1>3, SaveFacts DEF IInv
<1>5. Inv' /\ SubtaskChangesApplyOnce'
  BY <1>1, <1>2, <1>3, SaveWithoutKey DEF EventNames
<1>6. CompletedWorkIsSettled' /\ SeparationOfDuties'
  BY <1>4 DEF CompletedWorkIsSettled, SeparationOfDuties
<1>. QED
  BY <1>5, <1>6 DEF IInv, Inv

\* The key was looked for in a history that the version shows to be the current one.
LEMMA ChangeKeepsIInv ==
  ASSUME IInv, NEW q \in Requests, NEW child \in Children, NEW state \in Child,
         NEW key \in Keys, ChangeSubtask(q, child, state, key)
  PROVE  IInv'
<1>. DEFINE read == request[q].row
            used == <<request[q].actor, key>>
            kids == [request[q].children EXCEPT ![child] = state]
            entry == [event |-> "SUBTASK_CHANGED", before |-> WorkOf(row),
                      after |-> WorkOf(read), key |-> used]
<1>1. /\ Deciding(q) /\ request[q].pc = "checked"
      /\ Save(q, "SUBTASK_CHANGED", used, read, kids)
      /\ used \notin request[q].keys /\ read.status \notin Closed
      /\ MayManage(request[q].actor, read)
  BY DEF ChangeSubtask, Deciding, SubtasksEditable
<1>2. read \in Row /\ kids \in [Children -> Child]
  BY RequestTypes DEF IInv, Inv
<1>3. used \in EventKeys
  BY <1>1 DEF IInv, Inv, ReadsAreCurrent, EventKeys
<1>4. entry.key = used
  OBVIOUS
<1>. HIDE DEF kids, used
<1>5. /\ read = row /\ request[q].keys = KeysUsed
      /\ row'.status = row.status /\ row'.approval = row.approval
      /\ row'.requested_by = row.requested_by /\ row'.created_by = row.created_by
      /\ row'.decided_by = row.decided_by
      /\ history' = Append(history, entry)
  BY <1>1, <1>2, SaveFacts DEF IInv
<1>6. Inv'
  BY <1>1, <1>2, <1>3, SaveKeepsInv DEF IInv, EventNames
<1>7. CompletedWorkIsSettled' /\ SeparationOfDuties'
  BY <1>1, <1>5 DEF IInv, CompletedWorkIsSettled, SeparationOfDuties, Requester, Closed
<1>8. history \in Seq(Event) /\ SubtaskChangesApplyOnce
  BY DEF IInv, Inv, TypeOK
<1>. HIDE DEF entry
<1>9. SubtaskChangesApplyOnce'
  BY <1>1, <1>4, <1>5, <1>8, KeysStayUnique
<1>. QED
  BY <1>6, <1>7, <1>9 DEF IInv

-----------------------------------------------------------------------------
LEMMA InitSatisfiesIInv == Init => IInv
<1>. SUFFICES ASSUME Init PROVE IInv
  OBVIOUS
<1>1. NoRow \in Row /\ NoRow.status = "OPEN" /\ NoRow.approval = "NOT_REQUIRED"
  BY WorkAssumption DEF NoRow, Row, ActionStatus, ApprovalStatus
<1>2. NoChildren \in [Children -> Child]
  BY DEF NoChildren, Child
<1>3. history \in Seq(Event) /\ DOMAIN history = {}
  BY DEF Init
<1>4. TypeOK
  BY <1>1, <1>2, <1>3, IdleRequestType DEF Init, TypeOK
<1>5. ReadsAreCurrent
  BY DEF Init, ReadsAreCurrent, IdleRequest
<1>6. CompletedWorkIsSettled /\ SeparationOfDuties /\ SubtaskChangesApplyOnce
  BY <1>1, <1>3 DEF Init, CompletedWorkIsSettled, SeparationOfDuties, SubtaskChangesApplyOnce
<1>. QED
  BY <1>4, <1>5, <1>6 DEF IInv, Inv

LEMMA NextKeepsIInv == IInv /\ [Next]_vars => IInv'
<1>. SUFFICES ASSUME IInv, [Next]_vars PROVE IInv'
  OBVIOUS
<1>1. CASE UNCHANGED vars
  <2>1. ReadsAreCurrent'
    BY <1>1 DEF vars, IInv, Inv, ReadsAreCurrent, Deciding, KeysUsed
  <2>. QED
    BY <1>1, <2>1, ReadingKeepsIInv DEF vars, IInv, Inv, TypeOK
<1>2. ASSUME NEW q \in Requests, NEW actor \in Users, ReadRow(q, actor) PROVE IInv'
  BY <1>2, ReadRowKeepsIInv
<1>3. ASSUME NEW q \in Requests, NEW actor \in Users, NEW owner \in Users,
             NEW needed \in BOOLEAN, Create(q, actor, owner, needed)
      PROVE  IInv'
  BY <1>3, CreateKeepsIInv
<1>4. ASSUME NEW q \in Requests, ReadChildren(q) \/ ReadHistory(q) \/ Return(q) PROVE IInv'
  BY <1>4, ReadChildrenKeepsIInv, ReadHistoryKeepsIInv, ReturnKeepsIInv
<1>5. ASSUME NEW q \in Requests, RequestApproval(q) PROVE IInv'
  BY <1>5, RequestKeepsIInv
<1>6. ASSUME NEW q \in Requests, NEW owner \in Users \cup {NoOne}, Edit(q, owner) PROVE IInv'
  BY <1>6, EditKeepsIInv
<1>7. ASSUME NEW q \in Requests, NEW status \in ActionStatus, NEW all \in BOOLEAN,
             Transition(q, status, all)
      PROVE  IInv'
  BY <1>7, TransitionKeepsIInv
<1>8. ASSUME NEW q \in Requests,
             NEW decision \in {"APPROVED", "REJECTED", "CHANGES_REQUESTED"},
             DecideApproval(q, decision)
      PROVE  IInv'
  BY <1>8, DecideKeepsIInv
<1>9. ASSUME NEW q \in Requests, NEW child \in Children, NEW state \in Child,
             NEW key \in Keys, ChangeSubtask(q, child, state, key)
      PROVE  IInv'
  BY <1>9, ChangeKeepsIInv
<1>. QED
  BY <1>1, <1>2, <1>3, <1>4, <1>5, <1>6, <1>7, <1>8, <1>9 DEF Next

LEMMA IInvHolds == Spec => []IInv
<1>1. Init => IInv
  BY InitSatisfiesIInv
<1>2. IInv /\ [Next]_vars => IInv'
  BY NextKeepsIInv
<1>. QED
  BY <1>1, <1>2, PTL DEF Spec

\* An Action is always one that the service can have made, and a request that holds its
\* current version read nothing older of it.
THEOREM TypeCorrect == Spec => [](TypeOK /\ ReadsAreCurrent)
<1>1. IInv => TypeOK /\ ReadsAreCurrent
  BY DEF IInv, Inv
<1>. QED
  BY <1>1, IInvHolds, PTL

\* Whatever requests read on their several connections and in whatever order they save,
\* completed work has its approval and no open subtask.
THEOREM CompletionIsSettled == Spec => []CompletedWorkIsSettled
<1>1. IInv => CompletedWorkIsSettled
  BY DEF IInv
<1>. QED
  BY <1>1, IInvHolds, PTL

\* An approval that stands was decided by a manager who did not ask for it, through
\* edits, returns and repeated requests.
THEOREM DutiesAreSeparate == Spec => []SeparationOfDuties
<1>1. IInv => SeparationOfDuties
  BY DEF IInv
<1>. QED
  BY <1>1, IInvHolds, PTL

\* A subtask change that is sent any number of times is on record once.
THEOREM SubtasksChangeOnce == Spec => []SubtaskChangesApplyOnce
<1>1. IInv => SubtaskChangesApplyOnce
  BY DEF IInv
<1>. QED
  BY <1>1, IInvHolds, PTL

-----------------------------------------------------------------------------
(***************************************************************************)
(* Canceled work.                                                          *)
(***************************************************************************)
\* Canceled work stays canceled with what the audit says of it; and work is canceled only
\* where it is open or in progress.
LEMMA SaveKeepsTrail ==
  ASSUME IInv, TrailInv, NEW q \in Requests, Deciding(q), NEW event, NEW key,
         NEW new \in Row, NEW kids \in [Children -> Child], Save(q, event, key, new, kids),
         \/ new.status # "CANCELED"
         \/ row.status = "CANCELED" /\ new.previous = row.previous
         \/ /\ event = "STATUS_CHANGED" /\ row.status \in {"OPEN", "IN_PROGRESS"}
            /\ new.previous = row.status
  PROVE  TrailInv'
<1>. DEFINE entry == [event |-> event, before |-> WorkOf(row), after |-> WorkOf(new), key |-> key]
<1>1. /\ row'.status = new.status /\ row'.previous = new.previous
      /\ row'.version = row.version + 1 /\ history' = Append(history, entry)
  BY SaveFacts DEF IInv
<1>2. /\ entry.event = event /\ entry.after.status = new.status /\ entry.before.status = row.status
  BY DEF WorkOf
<1>3. row.version \in Nat /\ history \in Seq(Event)
  BY RowTypes DEF IInv, Inv, TypeOK
<1>. HIDE DEF entry
<1>4. /\ Len(history) \in Nat /\ Len(history') = Len(history) + 1
      /\ DOMAIN history = 1..Len(history) /\ DOMAIN history' = 1..(Len(history) + 1)
      /\ history'[Len(history) + 1] = entry
      /\ \A i \in 1..Len(history) : history'[i] = history[i]
  BY <1>1, <1>3
<1>5. Len(history') = row'.version /\ row'.version # 0
  BY <1>1, <1>3, <1>4 DEF TrailInv
<1>6. ASSUME row'.status = "CANCELED"
      PROVE  row'.previous \in {"OPEN", "IN_PROGRESS"} /\ CanceledFrom(row'.previous, history')
  <2>1. CASE row.status = "CANCELED" /\ new.previous = row.previous
    <3>1. row.previous \in {"OPEN", "IN_PROGRESS"} /\ CanceledFrom(row.previous, history)
      BY <2>1 DEF TrailInv
    <3>2. PICK i \in DOMAIN history :
            /\ history[i].event = "STATUS_CHANGED"
            /\ history[i].after.status = "CANCELED" /\ history[i].before.status = row.previous
            /\ \A j \in DOMAIN history : j > i => history[j].after.status = "CANCELED"
      BY <3>1 DEF CanceledFrom
    <3>3. i \in DOMAIN history' /\ history'[i] = history[i]
      BY <1>4
    <3>4. \A j \in DOMAIN history' : j > i => history'[j].after.status = "CANCELED"
      BY <1>1, <1>2, <1>4, <1>6, <3>2
    <3>. QED
      BY <1>1, <2>1, <3>1, <3>2, <3>3, <3>4 DEF CanceledFrom
  <2>2. CASE /\ event = "STATUS_CHANGED" /\ row.status \in {"OPEN", "IN_PROGRESS"}
             /\ new.previous = row.status
    <3>1. /\ Len(history) + 1 \in DOMAIN history'
          /\ \A j \in DOMAIN history' : ~(j > Len(history) + 1)
      BY <1>4
    <3>. QED
      BY <1>1, <1>2, <1>4, <1>6, <2>2, <3>1 DEF CanceledFrom
  <2>. QED
    BY <1>1, <1>6, <2>1, <2>2
<1>. QED
  BY <1>5, <1>6 DEF TrailInv

\* What a change of status makes of canceled work.
LEMMA TransitionFacts ==
  ASSUME IInv, TrailInv, NEW q \in Requests, NEW status \in ActionStatus, NEW all \in BOOLEAN,
         Transition(q, status, all)
  PROVE  /\ TrailInv'
         /\ row.status = "CANCELED" => row'.status = row.previous
<1>. DEFINE read == request[q].row
            kids == request[q].children
            new == [read EXCEPT !.status = status,
                                !.previous = IF status = "CANCELED" THEN read.status ELSE @]
            closed == IF status = "COMPLETED" /\ all
                        THEN [c \in Children |-> IF kids[c] = "open" THEN "done" ELSE kids[c]]
                        ELSE kids
<1>1. /\ Deciding(q) /\ Save(q, "STATUS_CHANGED", NoKey, new, closed)
      /\ status \in Transitions(read)
  BY DEF Transition, Ready, Deciding
<1>2. read \in Row /\ kids \in [Children -> Child]
  BY RequestTypes DEF IInv, Inv
<1>3. /\ new \in Row /\ new.status = status
      /\ new.previous = IF status = "CANCELED" THEN read.status ELSE read.previous
  BY <1>2 DEF Row
<1>4. closed \in [Children -> Child]
  BY <1>2 DEF Child
<1>. HIDE DEF new, closed
<1>5. read = row /\ row'.status = status
  BY <1>1, <1>2, <1>3, <1>4, SaveFacts DEF IInv
<1>6. /\ row.status = "CANCELED" => status = row.previous /\ row.previous \in {"OPEN", "IN_PROGRESS"}
      /\ status = "CANCELED" => row.status \in {"OPEN", "IN_PROGRESS"}
  <2>1. row.status \in ActionStatus
    BY <1>2, <1>5, RowTypes
  <2>2. row.status = "CANCELED" => row.previous \in {"OPEN", "IN_PROGRESS"}
    BY DEF TrailInv
  <2>. QED
    BY <1>1, <1>5, <2>1, <2>2 DEF Transitions, ActionStatus
<1>7. TrailInv'
  BY <1>1, <1>2, <1>3, <1>4, <1>5, <1>6, SaveKeepsTrail
<1>. QED
  BY <1>5, <1>6, <1>7

\* No other change touches canceled work but an edit, and it stays canceled.
LEMMA OtherChangesKeepTrail ==
  ASSUME IInv, TrailInv, NEW q \in Requests,
         \/ \E owner \in Users \cup {NoOne} : Edit(q, owner)
         \/ \E decision \in {"APPROVED", "REJECTED", "CHANGES_REQUESTED"} : DecideApproval(q, decision)
         \/ RequestApproval(q)
         \/ \E child \in Children, state \in Child, key \in Keys : ChangeSubtask(q, child, state, key)
  PROVE  TrailInv' /\ (row.status = "CANCELED" => row'.status = "CANCELED")
<1>. DEFINE read == request[q].row
<1>1. read \in Row /\ request[q].children \in [Children -> Child] /\ request[q].actor \in Users \cup {NoOne}
  BY RequestTypes DEF IInv, Inv
<1>2. ASSUME NEW event, NEW key, NEW new \in Row, NEW kids \in [Children -> Child], Deciding(q),
             Save(q, event, key, new, kids), new.previous = read.previous,
             \/ new.status = read.status
             \/ read.status \notin Closed /\ new.status # "CANCELED"
      PROVE  TrailInv' /\ (row.status = "CANCELED" => row'.status = "CANCELED")
  <2>1. read = row /\ row'.status = new.status
    BY <1>2, SaveFacts DEF IInv
  <2>. QED
    BY <1>2, <2>1, SaveKeepsTrail DEF Closed
<1>3. ASSUME NEW owner \in Users \cup {NoOne}, Edit(q, owner)
      PROVE  TrailInv' /\ (row.status = "CANCELED" => row'.status = "CANCELED")
  <2>. DEFINE new == [read EXCEPT !.owner = owner]
  <2>1. Deciding(q) /\ Save(q, "EDITED", NoKey, new, request[q].children)
    BY <1>3 DEF Edit, Ready, Deciding
  <2>2. new \in Row /\ new.status = read.status /\ new.previous = read.previous
    BY <1>1 DEF Row
  <2>. HIDE DEF new, read
  <2>. QED
    BY <1>1, <1>2, <2>1, <2>2
<1>4. ASSUME NEW decision \in {"APPROVED", "REJECTED", "CHANGES_REQUESTED"}, DecideApproval(q, decision)
      PROVE  TrailInv' /\ (row.status = "CANCELED" => row'.status = "CANCELED")
  <2>. DEFINE status == IF decision = "CHANGES_REQUESTED" THEN "IN_PROGRESS" ELSE read.status
              new == [read EXCEPT !.approval = decision, !.decided_by = request[q].actor, !.status = status]
  <2>1. /\ Deciding(q) /\ Save(q, "APPROVAL_DECIDED", NoKey, new, request[q].children)
        /\ read.status \notin Closed
    BY <1>4 DEF DecideApproval, Ready, Deciding
  <2>2. status \in ActionStatus /\ decision \in ApprovalStatus /\ status # "CANCELED"
    BY <1>1, <2>1, RowTypes DEF ActionStatus, ApprovalStatus, Closed
  <2>. HIDE DEF status
  <2>3. new \in Row /\ new.status = status /\ new.previous = read.previous
    <3>1. request[q].actor \in Users \cup {NoOne}
      BY <1>1
    <3>. QED
      BY <1>1, <2>2, <3>1 DEF Row
  <2>. HIDE DEF new, read
  <2>. QED
    BY <1>1, <1>2, <2>1, <2>2, <2>3
<1>5. ASSUME RequestApproval(q)
      PROVE  TrailInv' /\ (row.status = "CANCELED" => row'.status = "CANCELED")
  <2>. DEFINE new == [read EXCEPT !.approval = "REQUESTED", !.requested_by = request[q].actor]
  <2>1. Deciding(q) /\ Save(q, "APPROVAL_REQUESTED", NoKey, new, request[q].children)
    BY <1>5 DEF RequestApproval, Ready, Deciding
  <2>2. new \in Row /\ new.status = read.status /\ new.previous = read.previous
    BY <1>1 DEF Row, ApprovalStatus
  <2>. HIDE DEF new, read
  <2>. QED
    BY <1>1, <1>2, <2>1, <2>2
<1>6. ASSUME NEW child \in Children, NEW state \in Child, NEW key \in Keys, ChangeSubtask(q, child, state, key)
      PROVE  TrailInv' /\ (row.status = "CANCELED" => row'.status = "CANCELED")
  <2>. DEFINE kids == [request[q].children EXCEPT ![child] = state]
  <2>1. /\ Deciding(q)
        /\ Save(q, "SUBTASK_CHANGED", <<request[q].actor, key>>, read, kids)
    BY <1>6 DEF ChangeSubtask, Deciding
  <2>2. kids \in [Children -> Child]
    BY <1>1
  <2>. HIDE DEF kids, read
  <2>. QED
    BY <1>1, <1>2, <2>1, <2>2
<1>. QED
  BY <1>3, <1>4, <1>5, <1>6

\* A request that only reads, or returns.
LEMMA TrailStays == TrailInv /\ UNCHANGED <<row, history>> => TrailInv'
BY DEF TrailInv

LEMMA CreateKeepsTrail ==
  ASSUME IInv, TrailInv, NEW q \in Requests, NEW actor \in Users, NEW owner \in Users,
         NEW needed \in BOOLEAN, Create(q, actor, owner, needed)
  PROVE  TrailInv' /\ row.status # "CANCELED"
<1>1. /\ row.version = 0
      /\ row' = [NoRow EXCEPT !.version = 1, !.owner = owner, !.created_by = actor,
                   !.approval = IF needed THEN "PENDING" ELSE "NOT_REQUIRED"]
      /\ \E entry : history' = <<entry>>
  BY DEF Create
<1>2. row'.version = 1 /\ row'.status = "OPEN"
  BY <1>1 DEF NoRow
<1>3. Len(history') = 1
  BY <1>1
<1>. QED
  BY <1>1, <1>2, <1>3 DEF TrailInv

\* What a step may do to canceled work: nothing, or bring it back.
LEMMA StepKeepsTrail ==
  ASSUME IInv, TrailInv, [Next]_vars
  PROVE  /\ TrailInv'
         /\ row.status = "CANCELED" => row'.status \in {"CANCELED", row.previous}
<1>1. CASE UNCHANGED <<row, history>>
  BY <1>1, TrailStays
<1>2. ASSUME NEW q \in Requests, NEW actor \in Users, ReadRow(q, actor)
      PROVE  UNCHANGED <<row, history>>
  BY <1>2 DEF ReadRow
<1>3. ASSUME NEW q \in Requests, NEW actor \in Users, NEW owner \in Users, NEW needed \in BOOLEAN,
             Create(q, actor, owner, needed)
      PROVE  TrailInv' /\ row.status # "CANCELED"
  BY <1>3, CreateKeepsTrail
<1>4. ASSUME NEW q \in Requests, ReadChildren(q) \/ ReadHistory(q) \/ Return(q)
      PROVE  UNCHANGED <<row, history>>
  BY <1>4 DEF ReadChildren, ReadHistory, Return
<1>5. ASSUME NEW q \in Requests, NEW status \in ActionStatus, NEW all \in BOOLEAN, Transition(q, status, all)
      PROVE  TrailInv' /\ (row.status = "CANCELED" => row'.status = row.previous)
  BY <1>5, TransitionFacts
<1>6. CASE UNCHANGED vars
  BY <1>1, <1>6 DEF vars
<1>7. CASE Next
  BY <1>1, <1>2, <1>3, <1>4, <1>5, <1>7, OtherChangesKeepTrail DEF Next
<1>. QED
  BY <1>6, <1>7

LEMMA TrailHolds == Spec => [](IInv /\ TrailInv)
<1>1. Init => TrailInv
  BY DEF Init, TrailInv, NoRow
<1>2. IInv /\ TrailInv /\ [Next]_vars => TrailInv'
  BY StepKeepsTrail
<1>. QED
  BY <1>1, <1>2, InitSatisfiesIInv, NextKeepsIInv, PTL DEF Spec

\* However many requests cancel, edit and bring back an Action at the same time, canceled
\* work comes back to the status it was canceled in, which the audit shows.
THEOREM CancelComesBack == Spec => CancelRestores
<1>. DEFINE Restores ==
       row.status = "CANCELED" /\ row'.status # "CANCELED" =>
         \E i \in DOMAIN history :
           /\ history[i].event = "STATUS_CHANGED"
           /\ history[i].after.status = "CANCELED"
           /\ history[i].before.status = row'.status
           /\ row'.status # "COMPLETED"
           /\ \A j \in DOMAIN history :
                j > i => history[j].after.status = "CANCELED"
<1>1. IInv /\ TrailInv /\ [Next]_vars => Restores
  <2>. SUFFICES ASSUME IInv, TrailInv, [Next]_vars, row.status = "CANCELED", row'.status # "CANCELED"
       PROVE  Restores
    OBVIOUS
  <2>1. /\ row'.status = row.previous /\ row.previous \in {"OPEN", "IN_PROGRESS"}
        /\ CanceledFrom(row.previous, history)
    BY StepKeepsTrail DEF TrailInv
  <2>. QED
    BY <2>1 DEF CanceledFrom
<1>. HIDE DEF Restores
<1>2. Spec => [][Restores]_vars
  BY <1>1, TrailHolds, PTL DEF Spec
<1>. QED
  BY <1>2 DEF CancelRestores, Restores

-----------------------------------------------------------------------------
(***************************************************************************)
(* The CRM workflow on the Action.                                         *)
(***************************************************************************)
\* The workflow leaves the Action alone, and its requests leave the workflow alone.
LEMMA CrmKeepsTrail == IInv /\ TrailInv /\ [CrmNext]_allVars => IInv' /\ TrailInv'
<1>1. [CrmNext]_allVars => [Next]_vars
  BY DEF CrmNext, allVars
<1>. QED
  BY <1>1, NextKeepsIInv, StepKeepsTrail

\* What RunsAsApproved says of the step that records an attempt.
AttemptIsApproved ==
  /\ RunsOnTheLastWord(Len(crm))' /\ RunsOnce(Len(crm))'
  /\ RunsWhatIsThere(crm'[Len(crm')].proposal)
  /\ RunsOnWhatWasSeen(crm'[Len(crm')].proposal)

\* An attempt is recorded in one step that knows the last decision.
LEMMA ExecutedAsApproved ==
  ASSUME TrailInv, crm \in Seq(CrmEvent), NEW c \in Calls, NEW user, NEW p,
         NEW expected \in 0..Len(crm), NEW key, Execute(c, user, p, expected, key), UNCHANGED vars,
         seen \in [Calls -> Contexts \cup {Nothing}]
  PROVE  AttemptIsApproved
<1>. DEFINE entry == [event |-> "CRM_SAMPLE_ATTEMPT", proposal |-> p, actor |-> user,
                      decision |-> "NONE", expected |-> expected, key |-> key]
            latest == Len(crm) + 1
<1>1. /\ crm' = Append(crm, entry) /\ p = Snapshot(seen[c])
      /\ Decisions(p) # {} /\ Last(Decisions(p)) = expected /\ crm[expected].decision = "APPROVED"
  BY DEF Execute, Record, Current, Approved
<1>2. entry.event = "CRM_SAMPLE_ATTEMPT" /\ entry.proposal = p /\ entry.expected = expected
  OBVIOUS
<1>. HIDE DEF entry
<1>3. /\ Len(crm) \in Nat /\ Len(crm') = latest /\ crm'[latest] = entry
      /\ DOMAIN crm = 1..Len(crm) /\ DOMAIN crm' = 1..latest
      /\ \A i \in 1..Len(crm) : crm'[i] = crm[i]
  BY <1>1
<1>4. {j \in Decisions(p)' : j < latest} = Decisions(p)
  <2>1. Decisions(p) = {j \in 1..Len(crm) : crm[j].event = "CRM_DECIDED" /\ crm[j].proposal = p}
    BY <1>3 DEF Decisions, EventsOf
  <2>2. Decisions(p)' = {j \in 1..latest : crm'[j].event = "CRM_DECIDED" /\ crm'[j].proposal = p}
    BY <1>3 DEF Decisions, EventsOf
  <2>. QED
    BY <1>3, <2>1, <2>2
<1>5. RunsOnTheLastWord(Len(crm))'
  <2>1. /\ crm'[Len(crm')].proposal = p /\ crm'[Len(crm')].expected = expected
        /\ expected # 0 => crm'[expected] = crm[expected]
    BY <1>2, <1>3
  <2>. QED
    BY <1>1, <1>3, <1>4, <2>1 DEF RunsOnTheLastWord, Last
<1>6. RunsWhatIsThere(p)
  <2>1. p.context = seen[c] /\ p.version = row.version
    BY <1>1 DEF Snapshot
  <2>. QED
    BY <1>1, <2>1 DEF RunsWhatIsThere, TrailInv
<1>7. RunsOnce(Len(crm))'
  <2>1. /\ \A j \in 1..Len(crm) : crm[j].event = "CRM_SAMPLE_ATTEMPT" => crm[j].proposal # p
        /\ \A j \in 1..Len(crm) : crm[j].event = "CRM_SAMPLE_ATTEMPT" =>
             ~(crm[j].actor = user /\ crm[j].key = key)
    BY <1>3 DEF Execute, NeverRan, Runs, EventsOf
  <2>2. /\ entry.actor = user /\ entry.key = key
        /\ \A j \in EventsOf("CRM_SAMPLE_ATTEMPT")' : j < latest =>
             j \in 1..Len(crm) /\ crm[j].event = "CRM_SAMPLE_ATTEMPT" /\ crm'[j] = crm[j]
    BY <1>3 DEF EventsOf, entry
  <2>3. \A j \in EventsOf("CRM_SAMPLE_ATTEMPT")' : j < latest =>
          crm'[j].proposal # p /\ <<crm'[j].actor, crm'[j].key>> # <<user, key>>
    BY <2>1, <2>2
  <2>. QED
    BY <1>2, <1>3, <2>2, <2>3 DEF RunsOnce
<1>8. RunsOnWhatWasSeen(p)
  <2>1. p.context = seen[c]
    BY <1>1 DEF Snapshot
  <2>2. seen'[c] = Nothing
    BY DEF Execute, Record
  <2>. QED
    BY <2>1, <2>2 DEF RunsOnWhatWasSeen
<1>. QED
  BY <1>2, <1>3, <1>5, <1>6, <1>7, <1>8 DEF AttemptIsApproved

\* No other step of the workflow records an attempt.
LEMMA OthersRunNothing ==
  ASSUME crm \in Seq(CrmEvent), NEW c \in Calls,
         \/ Look(c) \/ Leave(c) \/ (\E user \in Users : Preview(c, user))
         \/ \E user, p, decision, expected : Decide(c, user, p, decision, expected)
  PROVE  Len(crm') > Len(crm) => crm'[Len(crm')].event # "CRM_SAMPLE_ATTEMPT"
<1>1. ASSUME NEW entry, crm' = Append(crm, entry), entry.event # "CRM_SAMPLE_ATTEMPT"
      PROVE  crm'[Len(crm')].event # "CRM_SAMPLE_ATTEMPT"
  BY <1>1
<1>2. ASSUME NEW user \in Users, Preview(c, user)
      PROVE  crm'[Len(crm')].event # "CRM_SAMPLE_ATTEMPT"
  <2>. DEFINE entry == [event |-> "CRM_PROPOSED", proposal |-> Snapshot(seen[c]), actor |-> user,
                        decision |-> "NONE", expected |-> 0, key |-> Nothing]
  <2>1. crm' = Append(crm, entry) /\ entry.event = "CRM_PROPOSED"
    BY <1>2 DEF Preview, Record
  <2>. HIDE DEF entry
  <2>. QED
    BY <1>1, <2>1
<1>3. ASSUME NEW user, NEW p, NEW decision, NEW expected, Decide(c, user, p, decision, expected)
      PROVE  crm'[Len(crm')].event # "CRM_SAMPLE_ATTEMPT"
  <2>. DEFINE entry == [event |-> "CRM_DECIDED", proposal |-> p, actor |-> user,
                        decision |-> decision, expected |-> expected, key |-> Nothing]
  <2>1. crm' = Append(crm, entry) /\ entry.event = "CRM_DECIDED"
    BY <1>3 DEF Decide, Record
  <2>. HIDE DEF entry
  <2>. QED
    BY <1>1, <2>1
<1>4. ASSUME Look(c) \/ Leave(c) PROVE crm' = crm
  BY <1>4 DEF Look, Leave
<1>. QED
  BY <1>2, <1>3, <1>4

\* The log keeps its type.
LEMMA CrmTypesKept == TypeOK /\ CrmTypeOK /\ [CrmNext]_allVars => CrmTypeOK'
<1>. SUFFICES ASSUME TypeOK, CrmTypeOK, [CrmNext]_allVars PROVE CrmTypeOK'
  OBVIOUS
<1>1. ASSUME NEW c \in Calls, NEW entry \in CrmEvent, Record(c, entry)
      PROVE  CrmTypeOK'
  <2>1. crm' = Append(crm, entry) /\ crm \in Seq(CrmEvent)
    BY <1>1 DEF Record, CrmTypeOK
  <2>2. crm' \in Seq(CrmEvent)
    BY <2>1
  <2>. QED
    BY <1>1, <2>2 DEF Record, CrmTypeOK
<1>2. ASSUME UNCHANGED crmVars PROVE CrmTypeOK'
  BY <1>2 DEF crmVars, CrmTypeOK
<1>3. ASSUME NEW c \in Calls, Look(c) \/ Leave(c) PROVE CrmTypeOK'
  BY <1>3 DEF Look, Leave, CrmTypeOK
<1>4. ASSUME NEW c \in Calls, NEW user \in Users, Preview(c, user) PROVE CrmTypeOK'
  <2>1. seen[c] \in Contexts /\ row \in Row /\ row.version > 0
    BY <1>4 DEF Preview, Record, CrmTypeOK, TypeOK
  <2>2. Snapshot(seen[c]) \in Proposal
    <3>1. row.version \in 1..MaxVersion
      BY <2>1, RowTypes, WorkAssumption
    <3>. QED
      BY <2>1, <3>1, RowTypes DEF Snapshot, Proposal
  <2>3. [event |-> "CRM_PROPOSED", proposal |-> Snapshot(seen[c]), actor |-> user,
         decision |-> "NONE", expected |-> 0, key |-> Nothing] \in CrmEvent
    BY <2>2 DEF CrmEvent
  <2>. QED
    BY <1>1, <1>4, <2>3 DEF Preview
<1>5. /\ \A i \in EventsOf("CRM_PROPOSED") : crm[i].proposal \in Proposal
      /\ \A n \in 0..Len(crm) : n \in Nat
  <2>1. \A i \in EventsOf("CRM_PROPOSED") : crm[i] \in CrmEvent
    BY DEF EventsOf, CrmTypeOK
  <2>2. \A e \in CrmEvent : e.proposal \in Proposal
    BY DEF CrmEvent
  <2>. QED
    BY <2>1, <2>2
<1>6. ASSUME NEW c \in Calls, NEW i \in EventsOf("CRM_PROPOSED"), NEW user \in Users,
             NEW expected \in 0..Len(crm), NEW decision \in {"APPROVED", "REJECTED"},
             Decide(c, user, crm[i].proposal, decision, expected)
      PROVE  CrmTypeOK'
  <2>1. crm[i].proposal \in Proposal /\ expected \in Nat
    BY <1>5
  <2>2. [event |-> "CRM_DECIDED", proposal |-> crm[i].proposal, actor |-> user,
         decision |-> decision, expected |-> expected, key |-> Nothing] \in CrmEvent
    BY <2>1 DEF CrmEvent
  <2>. QED
    BY <1>1, <1>6, <2>2 DEF Decide
<1>7. ASSUME NEW c \in Calls, NEW i \in EventsOf("CRM_PROPOSED"), NEW user \in Users,
             NEW expected \in 0..Len(crm), NEW key \in RetryKeys,
             Execute(c, user, crm[i].proposal, expected, key)
      PROVE  CrmTypeOK'
  <2>1. crm[i].proposal \in Proposal /\ expected \in Nat
    BY <1>5
  <2>2. [event |-> "CRM_SAMPLE_ATTEMPT", proposal |-> crm[i].proposal, actor |-> user,
         decision |-> "NONE", expected |-> expected, key |-> key] \in CrmEvent
    BY <2>1 DEF CrmEvent
  <2>. QED
    BY <1>1, <1>7, <2>2 DEF Execute
<1>8. ASSUME NEW ctx \in Contexts, Import(ctx) PROVE CrmTypeOK'
  BY <1>8 DEF Import, CrmTypeOK
<1>. QED
  BY <1>2, <1>3, <1>4, <1>6, <1>7, <1>8 DEF CrmNext, CrmStep, allVars

LEMMA CrmHolds == CrmSpec => [](IInv /\ TrailInv /\ CrmTypeOK)
<1>1. CrmInit => IInv /\ TrailInv /\ CrmTypeOK
  <2>1. CrmInit => CrmTypeOK
    BY DEF CrmInit, CrmTypeOK
  <2>2. CrmInit => TrailInv
    BY DEF CrmInit, Init, TrailInv, NoRow
  <2>. QED
    BY <2>1, <2>2, InitSatisfiesIInv DEF CrmInit
<1>2. IInv /\ TrailInv /\ CrmTypeOK /\ [CrmNext]_allVars => (IInv /\ TrailInv /\ CrmTypeOK)'
  BY CrmKeepsTrail, CrmTypesKept DEF IInv, Inv
<1>. QED
  BY <1>1, <1>2, PTL DEF CrmSpec

\* Whoever works on the Action meanwhile, whatever is imported and however calls overlap: a
\* sample attempt is of the Action as it is and of the commercial data that its call looked
\* at, happens once, and the last decision on it is the approval that its caller named.
THEOREM AttemptsAreApproved == CrmSpec => RunsAsApproved
<1>. DEFINE Attempt ==
       Len(crm') > Len(crm) /\ crm'[Len(crm')].event = "CRM_SAMPLE_ATTEMPT" =>
         AttemptIsApproved
<1>1. TrailInv /\ CrmTypeOK /\ [CrmNext]_allVars => Attempt
  <2>. SUFFICES ASSUME TrailInv, CrmTypeOK, [CrmNext]_allVars, Len(crm') > Len(crm),
                       crm'[Len(crm')].event = "CRM_SAMPLE_ATTEMPT"
                PROVE  AttemptIsApproved
    OBVIOUS
  <2>1. crm \in Seq(CrmEvent)
    BY DEF CrmTypeOK
  <2>2. crm' # crm
    BY <2>1
  <2>3. PICK c \in Calls :
          \/ Look(c) \/ Leave(c)
          \/ \E user \in Users : Preview(c, user)
          \/ \E i \in EventsOf("CRM_PROPOSED"), user \in Users, expected \in 0..Len(crm) :
               \/ \E decision \in {"APPROVED", "REJECTED"} :
                    Decide(c, user, crm[i].proposal, decision, expected)
               \/ \E key \in RetryKeys : Execute(c, user, crm[i].proposal, expected, key)
    BY <2>2 DEF CrmNext, CrmStep, allVars, crmVars, Import
  <2>4. UNCHANGED vars
    BY <2>2 DEF CrmNext, allVars, crmVars
  <2>5. PICK i \in EventsOf("CRM_PROPOSED"), user \in Users, expected \in 0..Len(crm), key \in RetryKeys :
          Execute(c, user, crm[i].proposal, expected, key)
    BY <2>1, <2>3, OthersRunNothing
  <2>6. seen \in [Calls -> Contexts \cup {Nothing}]
    BY DEF CrmTypeOK
  <2>. QED
    BY <2>1, <2>4, <2>5, <2>6, ExecutedAsApproved
<1>. HIDE DEF Attempt
<1>2. CrmSpec => [][Attempt]_allVars
  BY <1>1, CrmHolds, PTL DEF CrmSpec
<1>. QED
  BY <1>2 DEF RunsAsApproved, Attempt, AttemptIsApproved
=============================================================================
