---------------------------- MODULE Communications ----------------------------
(***************************************************************************)
(* Drafts of seller communications: written, reviewed, previewed and never  *)
(* delivered, for delivery is not configured.                              *)
(*   CommunicationService          modules/communications/service.py       *)
(*   SqlCommunicationRepository    persistence/communications.py           *)
(*   the endpoints                 api/communications.py                   *)
(*   UnconfiguredDeliveryAdapter   integrations/communications.py          *)
(*                                                                         *)
(* Each request reads a draft in one transaction and writes in another.    *)
(* A client changes a version that it was shown, and may repeat a creation.  *)
(***************************************************************************)
EXTENDS Naturals, Sequences, FiniteSets

CONSTANTS
  Users,
  Managers,       \* those who review
  Calls,          \* requests under way at the same time
  RetryKeys,      \* idempotency keys that clients make up
  LegacyKeys,     \* keys of drafts from before keys belonged to a user
  Drafts,         \* what a draft may say: subject, body, recipients
  Addressed,      \* contents with a recipient, a public professional address of the account
  MaxDraftVersion, \* bound on the versions of a draft
  MaxAudit        \* bound on the audit rows of all drafts

ASSUME CommunicationsAssumption ==
  /\ Managers \subseteq Users /\ Addressed \subseteq Drafts /\ LegacyKeys \subseteq RetryKeys
  /\ "anyone" \notin Users /\ MaxDraftVersion \in Nat

VARIABLES
  draft,     \* communication_drafts, by idempotency_key; NoDraft where there is none
  audit,     \* communication_audit_events of each draft, in the order of their ids
  call,      \* what each request holds between its transactions
  contents,  \* history: what each version of a draft said
  answered   \* history: the creations that were answered with a draft

communicationVars == <<draft, audit, call, contents, answered>>

\* The key of a creation: comm-create-v2 hashes user and key together; before, it was the key.
CreateKeyOf(u, k) == [owner |-> u, key |-> k]
RawKey(k) == [owner |-> "anyone", key |-> k]
DraftKeys == [owner : Users, key : RetryKeys] \cup [owner : {"anyone"}, key : LegacyKeys]

NoDraft == [version |-> 0]
NoRequest == [op |-> "none"]
Unsent == {"DRAFT", "READY"}

Draft == [version : Nat \ {0}, by : Users, content : Drafts,
          approval : {"PENDING", "APPROVED", "REJECTED"}, status : Unsent]
AuditRow == [event : {"BEFORE", "CREATED", "EDITED", "APPROVED", "REJECTED",
                      "DELIVERY_PREVIEWED", "DELIVERY_BLOCKED"}, by : Users, on : Nat, shown : Nat]
Writes == [op : {"save", "append"}, on : DraftKeys, read : Nat, becomes : Draft \cup {NoDraft}, event : AuditRow]

DraftTypeOK ==
  /\ draft \in [DraftKeys -> Draft \cup {NoDraft}]
  /\ audit \in [DraftKeys -> Seq(AuditRow)] /\ contents \in [DraftKeys -> Seq(Drafts)]
  /\ call \in [Calls -> {NoRequest} \cup Writes
                        \cup [op : {"insert"}, user : Users, key : RetryKeys, content : Drafts]]
  /\ answered \subseteq [user : Users, key : RetryKeys, content : Drafts, draft : DraftKeys]

-----------------------------------------------------------------------------
CanManage(u, d) == u \in Managers \/ draft[d].by = u

\* _check_version: what the client was shown is what is there.
CheckVersion(d, expected) == draft[d].version = expected

Ends(c) == call' = [call EXCEPT ![c] = NoRequest]

\* _creation_fingerprint of the CREATED row; legacy rows have none, and the present content counts.
CreationContent(d) ==
  IF audit[d][1].event = "CREATED" THEN contents[d][1] ELSE draft[d].content

\* Mutant: the content of a repeated creation is not compared.
SameUser(u, d, content) == draft[d].by = u

\* _creation_replay: an answer, or a conflict for the user to look at.
SameCreation(u, d, content) == draft[d].by = u /\ CreationContent(d) = content

Answer(u, k, content, d) ==
  answered' = IF SameCreation(u, d, content)
                THEN answered \cup {[user |-> u, key |-> k, content |-> content, draft |-> d]}
              ELSE answered

\* create, as far as its first reads: they answer, or nothing is there and it goes on to write.
Create(c, u, k, content) ==
  LET mine == CreateKeyOf(u, k)
      raw  == RawKey(k)
  IN  /\ call[c] = NoRequest
      /\ \/ /\ draft[mine] # NoDraft
            /\ Answer(u, k, content, mine) /\ UNCHANGED call
         \/ /\ draft[mine] = NoDraft
            /\ k \in LegacyKeys /\ draft[raw] # NoDraft /\ draft[raw].by = u
            /\ Answer(u, k, content, raw) /\ UNCHANGED call
         \/ /\ draft[mine] = NoDraft
            /\ ~(k \in LegacyKeys /\ draft[raw] # NoDraft /\ draft[raw].by = u)
            /\ call' = [call EXCEPT ![c] = [op |-> "insert", user |-> u, key |-> k, content |-> content]]
            /\ UNCHANGED answered
      /\ UNCHANGED <<draft, audit, contents>>

\* save, CREATED: on conflict nothing is inserted and the winner is replayed.
InsertDraft(c) ==
  /\ call[c].op = "insert"
  /\ LET me == call[c]
         d  == CreateKeyOf(me.user, me.key)
     IN  IF draft[d] = NoDraft
           THEN /\ draft' = [draft EXCEPT ![d] =
                     [version |-> 1, by |-> me.user, content |-> me.content,
                      approval |-> "PENDING", status |-> "DRAFT"]]
                /\ audit' = [audit EXCEPT ![d] = <<[event |-> "CREATED", by |-> me.user, on |-> 0, shown |-> 0]>>]
                /\ contents' = [contents EXCEPT ![d] = <<me.content>>]
                /\ answered' = answered \cup
                     {[user |-> me.user, key |-> me.key, content |-> me.content, draft |-> d]}
           ELSE /\ Answer(me.user, me.key, me.content, d)
                /\ UNCHANGED <<draft, audit, contents>>
  /\ Ends(c)

-----------------------------------------------------------------------------
\* A request has read a draft, and will write: what it becomes, or an audit row alone.
Holds(c, op, d, becomes, event) ==
  call' = [call EXCEPT ![c] = [op |-> op, on |-> d, read |-> draft[d].version, becomes |-> becomes,
                               event |-> event]]

\* shown is history: the version that the client looked at.
Event(name, u, d, shown) == [event |-> name, by |-> u, on |-> draft[d].version, shown |-> shown]

NextVersion(d, content, approval, status) ==
  [version |-> draft[d].version + 1, by |-> draft[d].by, content |-> content,
   approval |-> approval, status |-> status]

Reads(c, d) == call[c] = NoRequest /\ draft[d] # NoDraft /\ UNCHANGED <<draft, audit, contents, answered>>

Edit(c, u, d, expected, content) ==
  /\ Reads(c, d)
  /\ CanManage(u, d) /\ CheckVersion(d, expected) /\ draft[d].status \in Unsent
  /\ Holds(c, "save", d, NextVersion(d, content, "PENDING", "DRAFT"), Event("EDITED", u, d, expected))

Decide(c, u, d, expected, decision) ==
  /\ Reads(c, d)
  /\ u \in Managers /\ CheckVersion(d, expected) /\ draft[d].status \in Unsent
  /\ Holds(c, "save", d,
           NextVersion(d, draft[d].content, decision, IF decision = "APPROVED" THEN "READY" ELSE "DRAFT"),
           Event(decision, u, d, expected))

Preview(c, u, d) ==
  /\ Reads(c, d)
  /\ CanManage(u, d)
  /\ Holds(c, "append", d, NoDraft, Event("DELIVERY_PREVIEWED", u, d, draft[d].version))

\* send, confirmed: the adapter refuses, and what is kept is that it did.
Send(c, u, d, expected) ==
  /\ Reads(c, d)
  /\ CanManage(u, d) /\ CheckVersion(d, expected)
  /\ draft[d].approval = "APPROVED" /\ draft[d].content \in Addressed
  /\ Holds(c, "append", d, NoDraft, Event("DELIVERY_BLOCKED", u, d, expected))

\* Mutant: UPDATE ... WHERE id = ... alone.
RowExists(c) == draft[call[c].on] # NoDraft

\* WHERE version = the version read
RowUnchanged(c) == draft[call[c].on].version = call[c].read

SaveDraft(c) ==
  /\ call[c].op = "save"
  /\ LET me == call[c]
     IN  IF RowUnchanged(c)
           THEN /\ draft' = [draft EXCEPT ![me.on] = me.becomes]
                /\ audit' = [audit EXCEPT ![me.on] = Append(@, me.event)]
                /\ contents' = [contents EXCEPT ![me.on] = Append(@, me.becomes.content)]
           ELSE UNCHANGED <<draft, audit, contents>>
  /\ Ends(c)
  /\ UNCHANGED answered

\* append_audit locks the row and compares its version.
AppendAudit(c) ==
  /\ call[c].op = "append"
  /\ audit' = IF RowUnchanged(c) THEN [audit EXCEPT ![call[c].on] = Append(@, call[c].event)] ELSE audit
  /\ Ends(c)
  /\ UNCHANGED <<draft, contents, answered>>

\* A transaction fails or the process ends.
CallFails(c) ==
  /\ call[c] # NoRequest
  /\ Ends(c)
  /\ UNCHANGED <<draft, audit, contents, answered>>

CommunicationsInit ==
  /\ call = [c \in Calls |-> NoRequest]
  /\ answered = {}
  /\ \E owner \in Users, content \in Drafts :
       /\ draft = [d \in DraftKeys |->
            IF d.owner = "anyone"
              THEN [version |-> 1, by |-> owner, content |-> content, approval |-> "PENDING", status |-> "DRAFT"]
              ELSE NoDraft]
       /\ contents = [d \in DraftKeys |-> IF d.owner = "anyone" THEN <<content>> ELSE <<>>]
       /\ audit = [d \in DraftKeys |->
            IF d.owner = "anyone" THEN <<[event |-> "BEFORE", by |-> owner, on |-> 0, shown |-> 0]>> ELSE <<>>]

\* Bounds: drafts that may still change.
Drafted ==
  {d \in DraftKeys :
     /\ draft[d] # NoDraft /\ draft[d].version < MaxDraftVersion
     /\ Cardinality({row \in DraftKeys \X (1..MaxAudit) : row[2] <= Len(audit[row[1]])}) < MaxAudit}

Versions == 1..MaxDraftVersion

\* The endpoints, each with the user of its session and the version of its request.
CreateDraft(c) == \E u \in Users, k \in RetryKeys, content \in Drafts : Create(c, u, k, content)
EditDraft(c) ==
  \E u \in Users, d \in Drafted, expected \in Versions, content \in Drafts : Edit(c, u, d, expected, content)
Approval(c) ==
  \E u \in Users, d \in Drafted, expected \in Versions, decision \in {"APPROVED", "REJECTED"} :
    Decide(c, u, d, expected, decision)
PreviewDraft(c) == \E u \in Users, d \in Drafted : Preview(c, u, d)
SendDraft(c) == \E u \in Users, d \in Drafted, expected \in Versions : Send(c, u, d, expected)

CommunicationsNext ==
  \E c \in Calls :
    \/ CreateDraft(c) \/ EditDraft(c) \/ Approval(c) \/ PreviewDraft(c) \/ SendDraft(c)
    \/ InsertDraft(c) \/ SaveDraft(c) \/ AppendAudit(c) \/ CallFails(c)

CommunicationsSpec == CommunicationsInit /\ [][CommunicationsNext]_communicationVars

-----------------------------------------------------------------------------
Changing(row) == row.event \notin {"DELIVERY_PREVIEWED", "DELIVERY_BLOCKED"}
ChangesBefore(rows, n) == {i \in 1..(n - 1) : Changing(rows[i])}
IsLastBefore(rows, i, n) == i \in ChangesBefore(rows, n) /\ \A j \in ChangesBefore(rows, n) : j <= i

\* The audit trail tells every version of a draft once and in order: each row, of a
\* change, a preview or an attempt, stands after the change that made the version it
\* names and before the next.
TrailIsComplete ==
  \A d \in DraftKeys : draft[d] # NoDraft =>
    /\ Cardinality(ChangesBefore(audit[d], Len(audit[d]) + 1)) = draft[d].version
    /\ \A n \in DOMAIN audit[d] : audit[d][n].on = Cardinality(ChangesBefore(audit[d], n))

\* An approval is of what its manager was shown: the last change is that manager's
\* review of the version before, which says what the draft says now.
ApprovalIsOfThis ==
  \A d \in DraftKeys : draft[d] # NoDraft /\ draft[d].approval = "APPROVED" =>
    /\ draft[d].status = "READY"
    /\ \E i \in DOMAIN audit[d] :
         LET last == audit[d][i]
         IN  /\ IsLastBefore(audit[d], i, Len(audit[d]) + 1)
             /\ last.event = "APPROVED" /\ last.by \in Managers
             /\ contents[d][last.shown] = draft[d].content

\* A delivery was attempted only of a version that was approved and addressed.
AttemptsWereApproved ==
  \A d \in DraftKeys : \A n \in DOMAIN audit[d] : audit[d][n].event = "DELIVERY_BLOCKED" =>
    /\ \E i \in DOMAIN audit[d] : IsLastBefore(audit[d], i, n) /\ audit[d][i].event = "APPROVED"
    /\ contents[d][audit[d][n].shown] \in Addressed

\* Whoever changes, reviews and sends a draft at the same time, each on the version shown
\* to them: its trail is complete, and an approval is of what the draft says and nothing else.
ReviewedAsItStands == TrailIsComplete /\ ApprovalIsOfThis /\ AttemptsWereApproved

\* However often a creation is sent, and whichever request comes first, one draft
\* answers it: one of the user's own, that was created with this content.
CreatedOnce ==
  \A a, b \in answered :
    /\ a.user = b.user /\ a.key = b.key => a.draft = b.draft
    /\ draft[a.draft].by = a.user
    /\ a.draft.owner # "anyone" => contents[a.draft][1] = a.content
=============================================================================
