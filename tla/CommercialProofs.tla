-------------------------- MODULE CommercialProofs ---------------------------
(***************************************************************************)
(* Proofs about the commercial components, each a section of its own:      *)
(* the drafts of communications, what is made of a provider's answers, the *)
(* pages of federal notices, the answer to one question, the search for    *)
(* routes, the risk of a customer, and the queue of a seller's day.        *)
(***************************************************************************)
EXTENDS Communications, GovernedOutput, FederalProjection, OmniAnswer,
        RouteSearch, CustomerRisk, TodayQueue, FiniteSetTheorems, TLAPS

-----------------------------------------------------------------------------
(***************************************************************************)
(* Communications.                                                         *)
(***************************************************************************)
\* The last change of a trail approved what the draft says, on a version it had.
Approved(dr, rows, texts) ==
  /\ dr.status = "READY"
  /\ \E i \in DOMAIN rows :
       /\ IsLastBefore(rows, i, Len(rows) + 1)
       /\ rows[i].event = "APPROVED" /\ rows[i].by \in Managers
       /\ rows[i].shown \in DOMAIN texts /\ texts[rows[i].shown] = dr.content

\* An attempt follows an approval, and names a version that was addressed.
Attempted(rows, n, texts) ==
  /\ \E i \in DOMAIN rows : IsLastBefore(rows, i, n) /\ rows[i].event = "APPROVED"
  /\ rows[n].shown \in DOMAIN texts /\ texts[rows[n].shown] \in Addressed

\* A draft, its trail and what its versions said agree.
Agrees(dr, rows, texts) ==
  /\ Len(rows) > 0 /\ Len(texts) = dr.version /\ texts[dr.version] = dr.content
  /\ Cardinality(ChangesBefore(rows, Len(rows) + 1)) = dr.version
  /\ \A n \in DOMAIN rows : rows[n].on = Cardinality(ChangesBefore(rows, n))
  /\ dr.approval = "APPROVED" => Approved(dr, rows, texts)
  /\ \A n \in DOMAIN rows : rows[n].event = "DELIVERY_BLOCKED" => Attempted(rows, n, texts)

TrailsAgree ==
  \A d \in DraftKeys :
    IF draft[d] = NoDraft THEN audit[d] = <<>> /\ contents[d] = <<>>
                          ELSE Agrees(draft[d], audit[d], contents[d])

\* What a request would write to a draft, as that draft is now.
Fits(me, dr) ==
  /\ dr # NoDraft /\ me.read <= dr.version /\ me.event.on = me.read /\ me.event.shown = me.read
  /\ me.op = "save" =>
       /\ me.becomes \in Draft /\ me.becomes.version = me.read + 1 /\ me.becomes.by = dr.by
       /\ Changing(me.event)
       /\ me.becomes.approval = "APPROVED" =>
            /\ me.becomes.status = "READY" /\ me.event.event = "APPROVED" /\ me.event.by \in Managers
            /\ dr.version = me.read => me.becomes.content = dr.content
  /\ me.op = "append" =>
       /\ ~Changing(me.event)
       /\ me.event.event = "DELIVERY_BLOCKED" /\ dr.version = me.read =>
            dr.approval = "APPROVED" /\ dr.content \in Addressed

WritesFit == \A c \in Calls : call[c].op \in {"save", "append"} => Fits(call[c], draft[call[c].on])

\* A user who owns the legacy draft of a key creates none of that key.
OwnsLegacy(u, k) == k \in LegacyKeys /\ draft[RawKey(k)].by = u

OnePerKey ==
  /\ \A k \in LegacyKeys : draft[RawKey(k)] # NoDraft
  /\ \A u \in Users, k \in RetryKeys : draft[CreateKeyOf(u, k)] # NoDraft =>
       /\ draft[CreateKeyOf(u, k)].by = u /\ audit[CreateKeyOf(u, k)][1].event = "CREATED"
       /\ ~OwnsLegacy(u, k)
  /\ \A c \in Calls : call[c].op = "insert" => ~OwnsLegacy(call[c].user, call[c].key)

AnswersStand ==
  \A a \in answered :
    \/ /\ a.draft = CreateKeyOf(a.user, a.key) /\ draft[a.draft] # NoDraft
       /\ contents[a.draft][1] = a.content
    \/ a.draft = RawKey(a.key) /\ OwnsLegacy(a.user, a.key)

CommunicationsInv == DraftTypeOK /\ TrailsAgree /\ WritesFit /\ OnePerKey /\ AnswersStand

-----------------------------------------------------------------------------
\* A row appended to a trail leaves the changes before it as they were.
LEMMA ChangesGrow ==
  ASSUME NEW rows \in Seq(AuditRow), NEW row \in AuditRow
  PROVE  /\ \A n \in 1..(Len(rows) + 1) : ChangesBefore(Append(rows, row), n) = ChangesBefore(rows, n)
         /\ ChangesBefore(Append(rows, row), Len(rows) + 2) =
              ChangesBefore(rows, Len(rows) + 1) \cup (IF Changing(row) THEN {Len(rows) + 1} ELSE {})
         /\ IsFiniteSet(ChangesBefore(rows, Len(rows) + 1))
         /\ Len(rows) + 1 \notin ChangesBefore(rows, Len(rows) + 1)
         /\ ChangesBefore(rows, Len(rows) + 1) \subseteq 1..Len(rows)
<1>. DEFINE longer == Append(rows, row)
<1>1. /\ Len(rows) \in Nat /\ longer[Len(rows) + 1] = row
      /\ \A i \in 1..Len(rows) : longer[i] = rows[i]
  OBVIOUS
<1>. HIDE DEF longer
<1>2. ASSUME NEW n \in 1..(Len(rows) + 1)
      PROVE  ChangesBefore(longer, n) = ChangesBefore(rows, n)
  BY <1>1 DEF ChangesBefore
<1>3. ChangesBefore(longer, Len(rows) + 2) =
        ChangesBefore(rows, Len(rows) + 1) \cup (IF Changing(row) THEN {Len(rows) + 1} ELSE {})
  BY <1>1 DEF ChangesBefore
<1>4. ChangesBefore(rows, Len(rows) + 1) \subseteq 1..Len(rows)
  BY <1>1 DEF ChangesBefore
<1>5. IsFiniteSet(ChangesBefore(rows, Len(rows) + 1))
  <2>1. IsFiniteSet(1..Len(rows))
    BY <1>1, FS_Interval
  <2>. QED
    BY <1>4, <2>1, FS_Subset
<1>6. Len(rows) + 1 \notin ChangesBefore(rows, Len(rows) + 1)
  BY <1>1, <1>4
<1>. QED
  BY <1>2, <1>3, <1>4, <1>5, <1>6 DEF longer

\* What was said of earlier rows is still true, with texts appended or not.
LEMMA AttemptsStay ==
  ASSUME NEW rows \in Seq(AuditRow), NEW row \in AuditRow, NEW n \in DOMAIN rows,
         NEW texts \in Seq(Drafts), NEW longer \in Seq(Drafts),
         \A i \in DOMAIN texts : i \in DOMAIN longer /\ longer[i] = texts[i],
         Attempted(rows, n, texts)
  PROVE  Attempted(Append(rows, row), n, longer)
<1>1. PICK i \in DOMAIN rows : IsLastBefore(rows, i, n) /\ rows[i].event = "APPROVED"
  BY DEF Attempted
<1>. DEFINE after == Append(rows, row)
<1>2. /\ i \in DOMAIN after /\ after[i] = rows[i] /\ after[n] = rows[n] /\ Len(rows) \in Nat
      /\ n \in 1..(Len(rows) + 1)
  OBVIOUS
<1>3. ChangesBefore(after, n) = ChangesBefore(rows, n)
  BY <1>2, ChangesGrow
<1>. HIDE DEF after
<1>4. IsLastBefore(after, i, n) /\ after[i].event = "APPROVED"
  BY <1>1, <1>2, <1>3 DEF IsLastBefore
<1>5. after[n].shown \in DOMAIN longer /\ longer[after[n].shown] \in Addressed
  BY <1>2 DEF Attempted
<1>. QED
  BY <1>2, <1>4, <1>5 DEF Attempted, after

\* SaveDraft: a change makes the next version.
LEMMA ChangeAgrees ==
  ASSUME NEW dr \in Draft, NEW rows \in Seq(AuditRow), NEW texts \in Seq(Drafts),
         Agrees(dr, rows, texts), NEW row \in AuditRow, NEW new \in Draft,
         Changing(row), row.on = dr.version, row.shown = dr.version, new.version = dr.version + 1,
         new.approval = "APPROVED" =>
           /\ new.status = "READY" /\ row.event = "APPROVED" /\ row.by \in Managers
           /\ new.content = dr.content
  PROVE  Agrees(new, Append(rows, row), Append(texts, new.content))
<1>. DEFINE after == Append(rows, row)
            longer == Append(texts, new.content)
            at == Len(rows) + 1
<1>1. /\ Len(rows) \in Nat /\ Len(rows) > 0 /\ Len(after) = at /\ DOMAIN rows = 1..Len(rows)
      /\ DOMAIN after = 1..at /\ after[at] = row /\ \A i \in DOMAIN rows : after[i] = rows[i]
  BY DEF Agrees
<1>2. /\ dr.version \in Nat \ {0} /\ new.content \in Drafts /\ Len(texts) = dr.version
      /\ longer \in Seq(Drafts) /\ DOMAIN texts = 1..dr.version /\ DOMAIN longer = 1..new.version
      /\ Len(longer) = new.version /\ longer[new.version] = new.content
      /\ \A i \in DOMAIN texts : i \in DOMAIN longer /\ longer[i] = texts[i]
  BY DEF Agrees, Draft
<1>3. /\ \A n \in 1..at : ChangesBefore(after, n) = ChangesBefore(rows, n)
      /\ ChangesBefore(after, at + 1) = ChangesBefore(rows, at) \cup {at}
      /\ IsFiniteSet(ChangesBefore(rows, at)) /\ at \notin ChangesBefore(rows, at)
      /\ ChangesBefore(rows, at) \subseteq 1..Len(rows)
  BY <1>1, ChangesGrow
<1>4. ASSUME NEW n \in DOMAIN rows, after[n].event = "DELIVERY_BLOCKED"
      PROVE  Attempted(after, n, longer)
  BY <1>1, <1>2, <1>4, AttemptsStay DEF Agrees
<1>. HIDE DEF after, longer, at
<1>5. Cardinality(ChangesBefore(rows, at)) = dr.version
  BY DEF Agrees, at
<1>6. Cardinality(ChangesBefore(after, at + 1)) = new.version
  BY <1>2, <1>3, <1>5, FS_AddElement
<1>7. at \in Nat /\ at = Len(rows) + 1
  BY <1>1 DEF at
<1>8. ASSUME NEW n \in DOMAIN after
      PROVE  after[n].on = Cardinality(ChangesBefore(after, n))
  <2>1. CASE n = at
    BY <1>1, <1>3, <1>5, <1>7, <2>1
  <2>2. CASE n # at
    <3>1. n \in DOMAIN rows /\ n \in 1..at
      BY <1>1, <1>7, <2>2
    <3>. QED
      BY <1>1, <1>3, <3>1 DEF Agrees
  <2>. QED
    BY <2>1, <2>2
<1>9. new.approval = "APPROVED" => Approved(new, after, longer)
  <2>1. IsLastBefore(after, at, Len(after) + 1)
    BY <1>1, <1>3, <1>7 DEF IsLastBefore
  <2>2. dr.version \in DOMAIN longer /\ longer[dr.version] = dr.content
    BY <1>2 DEF Agrees
  <2>. QED
    BY <1>1, <1>7, <2>1, <2>2 DEF Approved
<1>10. ASSUME NEW n \in DOMAIN after, after[n].event = "DELIVERY_BLOCKED"
       PROVE  Attempted(after, n, longer)
  <2>1. n # at
    BY <1>1, <1>10 DEF Changing
  <2>. QED
    BY <1>1, <1>4, <1>7, <1>10, <2>1
<1>. QED
  BY <1>1, <1>2, <1>6, <1>7, <1>8, <1>9, <1>10 DEF Agrees, after, longer

\* AppendAudit: a preview or an attempt leaves the draft as it is.
LEMMA EventAgrees ==
  ASSUME NEW dr \in Draft, NEW rows \in Seq(AuditRow), NEW texts \in Seq(Drafts),
         Agrees(dr, rows, texts), NEW row \in AuditRow,
         ~Changing(row), row.on = dr.version, row.shown = dr.version,
         row.event = "DELIVERY_BLOCKED" => dr.approval = "APPROVED" /\ dr.content \in Addressed
  PROVE  Agrees(dr, Append(rows, row), texts)
<1>. DEFINE after == Append(rows, row)
            at == Len(rows) + 1
<1>1. /\ Len(rows) \in Nat /\ Len(rows) > 0 /\ Len(after) = at /\ DOMAIN rows = 1..Len(rows)
      /\ DOMAIN after = 1..at /\ after[at] = row /\ \A i \in DOMAIN rows : after[i] = rows[i]
  BY DEF Agrees
<1>2. /\ \A n \in 1..at : ChangesBefore(after, n) = ChangesBefore(rows, n)
      /\ ChangesBefore(after, at + 1) = ChangesBefore(rows, at)
      /\ ChangesBefore(rows, at) \subseteq 1..Len(rows)
  <2>1. ChangesBefore(after, Len(rows) + 2) = ChangesBefore(rows, at)
    BY ChangesGrow
  <2>2. at + 1 = Len(rows) + 2
    BY <1>1
  <2>. QED
    BY <2>1, <2>2, ChangesGrow
<1>3. ASSUME NEW n \in DOMAIN rows, after[n].event = "DELIVERY_BLOCKED"
      PROVE  Attempted(after, n, texts)
  BY <1>1, <1>3, AttemptsStay DEF Agrees
<1>. HIDE DEF after, at
<1>4. Cardinality(ChangesBefore(rows, at)) = dr.version
  BY DEF Agrees, at
<1>5. at \in Nat /\ at = Len(rows) + 1
  BY <1>1 DEF at
<1>6. ASSUME NEW n \in DOMAIN after
      PROVE  after[n].on = Cardinality(ChangesBefore(after, n))
  <2>1. CASE n = at
    BY <1>1, <1>2, <1>4, <1>5, <2>1
  <2>2. CASE n # at
    <3>1. n \in DOMAIN rows /\ n \in 1..at
      BY <1>1, <1>5, <2>2
    <3>. QED
      BY <1>1, <1>2, <3>1 DEF Agrees
  <2>. QED
    BY <2>1, <2>2
<1>7. ASSUME dr.approval = "APPROVED"
      PROVE  /\ dr.status = "READY"
             /\ \E i \in DOMAIN rows :
                  /\ IsLastBefore(after, i, Len(after) + 1) /\ IsLastBefore(after, i, at)
                  /\ after[i].event = "APPROVED" /\ after[i].by \in Managers
                  /\ after[i].shown \in DOMAIN texts /\ texts[after[i].shown] = dr.content
  <2>1. Approved(dr, rows, texts)
    BY <1>7 DEF Agrees
  <2>2. PICK i \in DOMAIN rows :
          /\ IsLastBefore(rows, i, Len(rows) + 1)
          /\ rows[i].event = "APPROVED" /\ rows[i].by \in Managers
          /\ rows[i].shown \in DOMAIN texts /\ texts[rows[i].shown] = dr.content
    BY <2>1 DEF Approved
  <2>3. IsLastBefore(after, i, Len(after) + 1) /\ IsLastBefore(after, i, at)
    BY <1>1, <1>2, <1>5, <2>2 DEF IsLastBefore
  <2>. QED
    BY <1>1, <2>1, <2>2, <2>3 DEF Approved
<1>8. dr.approval = "APPROVED" => Approved(dr, after, texts)
  BY <1>1, <1>5, <1>7 DEF Approved
<1>9. ASSUME NEW n \in DOMAIN after, after[n].event = "DELIVERY_BLOCKED"
      PROVE  Attempted(after, n, texts)
  <2>1. CASE n # at
    BY <1>1, <1>3, <1>5, <1>9, <2>1
  <2>2. CASE n = at
    <3>1. dr.approval = "APPROVED" /\ dr.content \in Addressed
      BY <1>1, <1>9, <2>2
    <3>2. \E i \in DOMAIN after : IsLastBefore(after, i, at) /\ after[i].event = "APPROVED"
      BY <1>1, <1>5, <1>7, <3>1
    <3>3. dr.version \in DOMAIN texts /\ texts[dr.version] = dr.content
      BY DEF Agrees, Draft
    <3>. QED
      BY <1>1, <2>2, <3>1, <3>2, <3>3 DEF Attempted
  <2>. QED
    BY <2>1, <2>2
<1>. QED
  BY <1>1, <1>2, <1>4, <1>5, <1>6, <1>8, <1>9 DEF Agrees, after

\* A draft begins with one row, a change, and what it says.
LEMMA FirstAgrees ==
  ASSUME NEW dr \in Draft, NEW row \in AuditRow,
         dr.version = 1, dr.approval = "PENDING", row.on = 0, Changing(row)
  PROVE  Agrees(dr, <<row>>, <<dr.content>>)
<1>. DEFINE rows == <<row>>
            texts == <<dr.content>>
<1>1. /\ Len(rows) = 1 /\ DOMAIN rows = {1} /\ rows[1] = row
      /\ Len(texts) = 1 /\ texts[1] = dr.content
  OBVIOUS
<1>. HIDE DEF rows, texts
<1>2. ChangesBefore(rows, 2) = {1} /\ ChangesBefore(rows, 1) = {}
  BY <1>1 DEF ChangesBefore
<1>3. Cardinality({1}) = 1 /\ Cardinality({}) = 0
  BY FS_EmptySet, FS_Singleton
<1>4. row.event # "DELIVERY_BLOCKED"
  BY DEF Changing
<1>. QED
  BY <1>1, <1>2, <1>3, <1>4 DEF Agrees, rows, texts

-----------------------------------------------------------------------------
Requests ==
  {NoRequest} \cup Writes \cup [op : {"insert"}, user : Users, key : RetryKeys, content : Drafts]

LEMMA Keys ==
  /\ \A u \in Users, k \in RetryKeys : CreateKeyOf(u, k) \in DraftKeys
  /\ \A k \in LegacyKeys : RawKey(k) \in DraftKeys
  /\ \A u \in Users, k, l \in RetryKeys : RawKey(k) # CreateKeyOf(u, l)
  /\ \A u, v \in Users, k, l \in RetryKeys : CreateKeyOf(u, k) = CreateKeyOf(v, l) => u = v /\ k = l
BY CommunicationsAssumption DEF CreateKeyOf, RawKey, DraftKeys

LEMMA NoDraftIsNone == NoDraft \notin Draft /\ NoRequest.op = "none"
BY DEF NoDraft, NoRequest, Draft

\* What a request holds between its transactions.
LEMMA CallTypes ==
  ASSUME CommunicationsInv, NEW c \in Calls
  PROVE  /\ call[c].op = "save" \/ call[c].op = "append" =>
              call[c] \in Writes /\ Fits(call[c], draft[call[c].on])
         /\ call[c].op = "insert" =>
              /\ call[c].user \in Users /\ call[c].key \in RetryKeys /\ call[c].content \in Drafts
              /\ ~OwnsLegacy(call[c].user, call[c].key)
         /\ call \in [Calls -> Requests]
<1>1. call \in [Calls -> Requests] /\ call[c] \in Requests
  BY DEF CommunicationsInv, DraftTypeOK, Requests
<1>2. call[c].op = "save" \/ call[c].op = "append" => call[c] \in Writes
  BY <1>1 DEF Requests, NoRequest
<1>3. call[c].op = "save" \/ call[c].op = "append" => Fits(call[c], draft[call[c].on])
  BY DEF CommunicationsInv, WritesFit
<1>4. call[c].op = "insert" =>
        call[c].user \in Users /\ call[c].key \in RetryKeys /\ call[c].content \in Drafts
  BY <1>1 DEF Requests, NoRequest, Writes
<1>5. call[c].op = "insert" => ~OwnsLegacy(call[c].user, call[c].key)
  BY DEF CommunicationsInv, OnePerKey
<1>. QED
  BY <1>1, <1>2, <1>3, <1>4, <1>5

\* A request moves on, and no draft changes.
LEMMA RequestMoves ==
  ASSUME CommunicationsInv, NEW c \in Calls, NEW me \in Requests,
         call' = [call EXCEPT ![c] = me], UNCHANGED <<draft, audit, contents>>,
         answered' \subseteq [user : Users, key : RetryKeys, content : Drafts, draft : DraftKeys],
         AnswersStand',
         me.op \in {"save", "append"} => Fits(me, draft[me.on]),
         me.op = "insert" => ~OwnsLegacy(me.user, me.key)
  PROVE  CommunicationsInv'
<1>1. /\ call' \in [Calls -> Requests] /\ call'[c] = me
      /\ \A e \in Calls \ {c} : call'[e] = call[e]
  BY DEF CommunicationsInv, DraftTypeOK, Requests
<1>2. DraftTypeOK'
  BY <1>1 DEF CommunicationsInv, DraftTypeOK, Requests
<1>3. TrailsAgree'
  BY DEF CommunicationsInv, TrailsAgree
<1>4. WritesFit'
  BY <1>1 DEF CommunicationsInv, WritesFit
<1>5. \A u \in Users, k \in RetryKeys : OwnsLegacy(u, k)' <=> OwnsLegacy(u, k)
  BY DEF OwnsLegacy
<1>6. ASSUME NEW e \in Calls, call'[e].op = "insert"
      PROVE  ~(OwnsLegacy(call'[e].user, call'[e].key))
  BY <1>1, <1>6 DEF CommunicationsInv, OnePerKey
<1>7. OnePerKey'
  BY <1>6 DEF CommunicationsInv, OnePerKey, OwnsLegacy
<1>. QED
  BY <1>2, <1>3, <1>4, <1>7 DEF CommunicationsInv

\* _creation_replay answers with a draft of the user's own that began as the request says.
LEMMA AnswerStands ==
  ASSUME CommunicationsInv, NEW u \in Users, NEW k \in RetryKeys, NEW content \in Drafts,
         NEW d \in DraftKeys, Answer(u, k, content, d), UNCHANGED <<draft, audit, contents>>,
         \/ d = CreateKeyOf(u, k) /\ draft[d] # NoDraft
         \/ d = RawKey(k) /\ OwnsLegacy(u, k)
  PROVE  /\ answered' \subseteq [user : Users, key : RetryKeys, content : Drafts, draft : DraftKeys]
         /\ AnswersStand'
<1>. DEFINE new == [user |-> u, key |-> k, content |-> content, draft |-> d]
<1>1. answered' = answered \/ (answered' = answered \cup {new} /\ SameCreation(u, d, content))
  BY DEF Answer
<1>2. answered \subseteq [user : Users, key : RetryKeys, content : Drafts, draft : DraftKeys]
      /\ AnswersStand
  BY DEF CommunicationsInv, DraftTypeOK
<1>3. CASE answered' = answered
  BY <1>2, <1>3 DEF AnswersStand, OwnsLegacy
<1>4. CASE answered' = answered \cup {new} /\ SameCreation(u, d, content)
  <2>1. new \in [user : Users, key : RetryKeys, content : Drafts, draft : DraftKeys]
    OBVIOUS
  <2>2. d = CreateKeyOf(u, k) /\ draft[d] # NoDraft => contents[d][1] = content
    BY <1>4 DEF CommunicationsInv, OnePerKey, SameCreation, CreationContent
  <2>3. /\ new.user = u /\ new.key = k /\ new.content = content /\ new.draft = d
    OBVIOUS
  <2>. HIDE DEF new
  <2>4. ASSUME NEW a \in answered'
        PROVE  \/ /\ a.draft = CreateKeyOf(a.user, a.key) /\ draft[a.draft] # NoDraft
                  /\ contents[a.draft][1] = a.content
               \/ a.draft = RawKey(a.key) /\ OwnsLegacy(a.user, a.key)
    <3>1. CASE a = new
      BY <2>2, <2>3, <3>1
    <3>2. CASE a \in answered
      BY <1>2, <3>2 DEF AnswersStand
    <3>. QED
      BY <1>4, <3>1, <3>2
  <2>5. AnswersStand'
    BY <2>4 DEF AnswersStand, OwnsLegacy
  <2>. QED
    BY <1>2, <1>4, <2>1, <2>5
<1>. QED
  BY <1>1, <1>3, <1>4

\* Answers given stand while no draft changes.
LEMMA AnswersStay ==
  ASSUME CommunicationsInv, UNCHANGED <<draft, audit, contents, answered>>
  PROVE  /\ answered' \subseteq [user : Users, key : RetryKeys, content : Drafts, draft : DraftKeys]
         /\ AnswersStand'
BY DEF CommunicationsInv, DraftTypeOK, AnswersStand, OwnsLegacy

LEMMA CreateKeeps ==
  ASSUME CommunicationsInv, NEW c \in Calls, NEW u \in Users, NEW k \in RetryKeys,
         NEW content \in Drafts, Create(c, u, k, content)
  PROVE  CommunicationsInv'
<1>. DEFINE mine == CreateKeyOf(u, k)
            raw == RawKey(k)
            me == [op |-> "insert", user |-> u, key |-> k, content |-> content]
<1>1. /\ UNCHANGED <<draft, audit, contents>> /\ mine \in DraftKeys
      /\ k \in LegacyKeys => raw \in DraftKeys /\ draft[raw] # NoDraft
      /\ call \in [Calls -> Requests] /\ call[c] = NoRequest
  BY Keys DEF Create, CommunicationsInv, OnePerKey, DraftTypeOK, Requests
<1>2. \/ draft[mine] # NoDraft /\ Answer(u, k, content, mine) /\ UNCHANGED call
      \/ OwnsLegacy(u, k) /\ Answer(u, k, content, raw) /\ UNCHANGED call
      \/ ~OwnsLegacy(u, k) /\ call' = [call EXCEPT ![c] = me] /\ UNCHANGED answered
  BY <1>1 DEF Create, OwnsLegacy
<1>3. CASE ~OwnsLegacy(u, k) /\ call' = [call EXCEPT ![c] = me] /\ UNCHANGED answered
  <2>1. me \in Requests /\ me.op = "insert" /\ me.user = u /\ me.key = k
    BY DEF Requests
  <2>. HIDE DEF me
  <2>2. answered' \subseteq [user : Users, key : RetryKeys, content : Drafts, draft : DraftKeys]
        /\ AnswersStand'
    BY <1>1, <1>3, AnswersStay
  <2>. QED
    BY <1>1, <1>3, <2>1, <2>2, RequestMoves
<1>4. CASE UNCHANGED call
  <2>1. answered' \subseteq [user : Users, key : RetryKeys, content : Drafts, draft : DraftKeys]
        /\ AnswersStand'
    <3>1. CASE draft[mine] # NoDraft /\ Answer(u, k, content, mine)
      BY <1>1, <3>1, AnswerStands
    <3>2. CASE OwnsLegacy(u, k) /\ Answer(u, k, content, raw)
      BY <1>1, <3>2, AnswerStands DEF OwnsLegacy
    <3>3. CASE UNCHANGED answered
      BY <1>1, <3>3, AnswersStay
    <3>. QED
      BY <1>2, <3>1, <3>2, <3>3
  <2>2. call' = [call EXCEPT ![c] = NoRequest] /\ NoRequest \in Requests
    BY <1>1, <1>4 DEF Requests
  <2>. QED
    BY <1>1, <2>1, <2>2, NoDraftIsNone, RequestMoves
<1>. QED
  BY <1>2, <1>3, <1>4

\* What a request holds fits the version that it read.
LEMMA HoldsKeeps ==
  ASSUME CommunicationsInv, NEW c \in Calls, NEW d \in DraftKeys, NEW op \in {"save", "append"},
         NEW becomes \in Draft \cup {NoDraft}, NEW event \in AuditRow,
         Holds(c, op, d, becomes, event), Reads(c, d), event.on = draft[d].version,
         event.shown = draft[d].version,
         op = "save" =>
           /\ becomes \in Draft /\ becomes.version = draft[d].version + 1 /\ becomes.by = draft[d].by
           /\ Changing(event)
           /\ becomes.approval = "APPROVED" =>
                /\ becomes.status = "READY" /\ event.event = "APPROVED" /\ event.by \in Managers
                /\ becomes.content = draft[d].content,
         op = "append" =>
           /\ ~Changing(event)
           /\ event.event = "DELIVERY_BLOCKED" =>
                draft[d].approval = "APPROVED" /\ draft[d].content \in Addressed
  PROVE  CommunicationsInv'
<1>. DEFINE me == [op |-> op, on |-> d, read |-> draft[d].version, becomes |-> becomes, event |-> event]
<1>1. draft[d] # NoDraft /\ draft[d].version \in Nat
      /\ UNCHANGED <<draft, audit, contents, answered>>
  BY DEF Reads, CommunicationsInv, DraftTypeOK, Draft
<1>2. /\ me \in Writes /\ me.op = op /\ me.on = d /\ me.read = draft[d].version
      /\ me.becomes = becomes /\ me.event = event /\ call' = [call EXCEPT ![c] = me]
  BY <1>1 DEF Writes, Holds
<1>. HIDE DEF me
<1>3. Fits(me, draft[d])
  BY <1>1, <1>2 DEF Fits
<1>4. me \in Requests
  BY <1>2 DEF Requests
<1>. QED
  BY <1>1, <1>2, <1>3, <1>4, AnswersStay, RequestMoves

LEMMA EditKeeps ==
  ASSUME CommunicationsInv, NEW c \in Calls, NEW u \in Users, NEW d \in DraftKeys,
         NEW expected \in Versions, NEW content \in Drafts, Edit(c, u, d, expected, content)
  PROVE  CommunicationsInv'
<1>. DEFINE becomes == NextVersion(d, content, "PENDING", "DRAFT")
            event == Event("EDITED", u, d, expected)
<1>1. Reads(c, d) /\ draft[d] \in Draft /\ draft[d].version = expected /\ expected \in Nat
  BY DEF Edit, Reads, CheckVersion, CommunicationsInv, DraftTypeOK, Draft
<1>2. /\ becomes \in Draft /\ becomes.version = draft[d].version + 1 /\ becomes.by = draft[d].by
      /\ becomes.approval = "PENDING"
  BY <1>1 DEF NextVersion, Draft, Unsent
<1>3. /\ event \in AuditRow /\ event.on = draft[d].version /\ event.shown = draft[d].version
      /\ event.event = "EDITED"
  BY <1>1 DEF Event, AuditRow
<1>4. Holds(c, "save", d, becomes, event)
  BY DEF Edit
<1>. HIDE DEF becomes, event
<1>5. Changing(event)
  BY <1>3 DEF Changing
<1>. QED
  BY <1>1, <1>2, <1>3, <1>4, <1>5, HoldsKeeps

LEMMA DecideKeeps ==
  ASSUME CommunicationsInv, NEW c \in Calls, NEW u \in Users, NEW d \in DraftKeys,
         NEW expected \in Versions, NEW decision \in {"APPROVED", "REJECTED"},
         Decide(c, u, d, expected, decision)
  PROVE  CommunicationsInv'
<1>. DEFINE becomes == NextVersion(d, draft[d].content, decision,
                                  IF decision = "APPROVED" THEN "READY" ELSE "DRAFT")
            event == Event(decision, u, d, expected)
<1>1. /\ Reads(c, d) /\ draft[d] \in Draft /\ draft[d].version = expected /\ expected \in Nat
      /\ u \in Managers
  BY DEF Decide, Reads, CheckVersion, CommunicationsInv, DraftTypeOK, Draft
<1>2. /\ becomes \in Draft /\ becomes.version = draft[d].version + 1 /\ becomes.by = draft[d].by
      /\ becomes.approval = decision /\ becomes.content = draft[d].content
      /\ decision = "APPROVED" => becomes.status = "READY"
  BY <1>1 DEF NextVersion, Draft, Unsent
<1>3. /\ event \in AuditRow /\ event.on = draft[d].version /\ event.shown = draft[d].version
      /\ event.event = decision /\ event.by = u
  BY <1>1 DEF Event, AuditRow
<1>4. Holds(c, "save", d, becomes, event)
  BY DEF Decide
<1>. HIDE DEF becomes, event
<1>5. Changing(event)
  BY <1>3 DEF Changing
<1>. QED
  BY <1>1, <1>2, <1>3, <1>4, <1>5, HoldsKeeps

LEMMA EventsKeep ==
  ASSUME CommunicationsInv, NEW c \in Calls, NEW u \in Users, NEW d \in DraftKeys,
         NEW expected, Preview(c, u, d) \/ Send(c, u, d, expected)
  PROVE  CommunicationsInv'
<1>1. Reads(c, d) /\ draft[d].version \in Nat
  BY DEF Preview, Send, Reads, CommunicationsInv, DraftTypeOK, Draft
<1>2. \E name \in {"DELIVERY_PREVIEWED", "DELIVERY_BLOCKED"} :
        /\ Holds(c, "append", d, NoDraft, Event(name, u, d, draft[d].version))
        /\ name = "DELIVERY_BLOCKED" => draft[d].approval = "APPROVED" /\ draft[d].content \in Addressed
  BY DEF Preview, Send, CheckVersion
<1>3. PICK name \in {"DELIVERY_PREVIEWED", "DELIVERY_BLOCKED"} :
        /\ Holds(c, "append", d, NoDraft, Event(name, u, d, draft[d].version))
        /\ name = "DELIVERY_BLOCKED" => draft[d].approval = "APPROVED" /\ draft[d].content \in Addressed
  BY <1>2
<1>. DEFINE event == Event(name, u, d, draft[d].version)
<1>4. /\ event \in AuditRow /\ event.on = draft[d].version /\ event.shown = draft[d].version
      /\ event.event = name
  BY <1>1 DEF Event, AuditRow
<1>5. Holds(c, "append", d, NoDraft, event)
  BY <1>3
<1>. HIDE DEF event
<1>6. ~Changing(event)
  BY <1>3, <1>4 DEF Changing
<1>. QED
  BY <1>1, <1>3, <1>4, <1>5, <1>6, HoldsKeeps

-----------------------------------------------------------------------------
\* A draft, its trail and its contents are written together.
LEMMA DraftWritten ==
  ASSUME CommunicationsInv, NEW c \in Calls, NEW d \in DraftKeys, draft[d] # NoDraft,
         NEW new \in Draft, NEW rows \in Seq(AuditRow), NEW texts \in Seq(Drafts),
         draft' = [draft EXCEPT ![d] = new], audit' = [audit EXCEPT ![d] = rows],
         contents' = [contents EXCEPT ![d] = texts], call' = [call EXCEPT ![c] = NoRequest],
         answered' = answered, Agrees(new, rows, texts), new.by = draft[d].by,
         new = draft[d] \/ new.version = draft[d].version + 1,
         rows[1] = audit[d][1], texts[1] = contents[d][1]
  PROVE  CommunicationsInv'
<1>1. /\ draft'[d] = new /\ audit'[d] = rows /\ contents'[d] = texts /\ call'[c] = NoRequest
      /\ \A e \in DraftKeys \ {d} :
           draft'[e] = draft[e] /\ audit'[e] = audit[e] /\ contents'[e] = contents[e]
      /\ \A e \in Calls \ {c} : call'[e] = call[e]
      /\ call' \in [Calls -> Requests] /\ DraftTypeOK'
  BY DEF CommunicationsInv, DraftTypeOK, Requests
<1>2. TrailsAgree'
  BY <1>1, NoDraftIsNone DEF CommunicationsInv, TrailsAgree
<1>3. WritesFit'
  <2>1. ASSUME NEW e \in Calls, call'[e].op = "save" \/ call'[e].op = "append"
        PROVE  Fits(call'[e], draft'[call'[e].on])
    <3>1. e # c /\ call'[e] = call[e]
      BY <1>1, <2>1, NoDraftIsNone
    <3>2. Fits(call[e], draft[call[e].on]) /\ call[e] \in Requests
      BY <2>1, <3>1 DEF CommunicationsInv, WritesFit, DraftTypeOK, Requests
    <3>3. call[e] \in Writes
      BY <2>1, <3>1, <3>2 DEF Requests, NoRequest
    <3>4. CASE call[e].on = d
      <4>1. /\ draft[d] \in Draft /\ draft[d].version \in Nat /\ call[e].read \in Nat
        BY <3>3 DEF CommunicationsInv, DraftTypeOK, Draft, Writes
      <4>2. Fits(call[e], draft[d]) /\ new # NoDraft
        BY <3>2, <3>4, NoDraftIsNone
      <4>3. Fits(call[e], new)
        <5>1. CASE new = draft[d]
          BY <4>2, <5>1
        <5>2. CASE new.version = draft[d].version + 1
          <6>1. call[e].read <= new.version /\ new.version # call[e].read
            BY <4>1, <4>2, <5>2 DEF Fits
          <6>. QED
            BY <4>2, <6>1 DEF Fits
        <5>. QED
          BY <5>1, <5>2
      <4>. QED
        BY <1>1, <3>1, <3>4, <4>3
    <3>5. CASE call[e].on # d
      <4>1. call[e].on \in DraftKeys
        BY <3>3 DEF Writes
      <4>. QED
        BY <1>1, <3>1, <3>2, <3>5, <4>1
    <3>. QED
      BY <3>4, <3>5
  <2>. QED
    BY <2>1 DEF WritesFit
<1>4. \A e \in DraftKeys : /\ draft'[e] # NoDraft <=> draft[e] # NoDraft
                          /\ draft[e] # NoDraft => draft'[e].by = draft[e].by
                          /\ audit'[e][1] = audit[e][1] /\ contents'[e][1] = contents[e][1]
  BY <1>1, NoDraftIsNone
<1>4a. \A e \in DraftKeys : draft[e] # NoDraft => draft'[e] # NoDraft
  BY <1>1, NoDraftIsNone
<1>5. \A u \in Users, k \in RetryKeys : OwnsLegacy(u, k)' <=> OwnsLegacy(u, k)
  BY <1>4, Keys DEF OwnsLegacy, CommunicationsInv, OnePerKey
<1>6. OnePerKey'
  <2>1. /\ \A k \in LegacyKeys : draft'[RawKey(k)] # NoDraft
        /\ \A u \in Users, k \in RetryKeys : draft'[CreateKeyOf(u, k)] # NoDraft =>
             /\ draft'[CreateKeyOf(u, k)].by = u /\ audit'[CreateKeyOf(u, k)][1].event = "CREATED"
             /\ ~OwnsLegacy(u, k)
    <3>1. ASSUME NEW k \in LegacyKeys PROVE draft'[RawKey(k)] # NoDraft
      <4>1. RawKey(k) \in DraftKeys
        BY DEF RawKey, DraftKeys
      <4>2. draft[RawKey(k)] # NoDraft
        BY DEF CommunicationsInv, OnePerKey
      <4>. QED
        BY <1>4a, <4>1, <4>2
    <3>2. ASSUME NEW u \in Users, NEW k \in RetryKeys, draft'[CreateKeyOf(u, k)] # NoDraft
          PROVE  /\ draft'[CreateKeyOf(u, k)].by = u
                 /\ audit'[CreateKeyOf(u, k)][1].event = "CREATED" /\ ~OwnsLegacy(u, k)
      <4>. DEFINE e == CreateKeyOf(u, k)
      <4>1. e \in DraftKeys
        BY Keys
      <4>2. draft[e] # NoDraft /\ draft'[e].by = draft[e].by /\ audit'[e][1] = audit[e][1]
        BY <1>4, <3>2, <4>1
      <4>3. draft[e].by = u /\ audit[e][1].event = "CREATED" /\ ~OwnsLegacy(u, k)
        BY <4>2 DEF CommunicationsInv, OnePerKey
      <4>. QED
        BY <4>2, <4>3
    <3>. QED
      BY <3>1, <3>2
  <2>2. ASSUME NEW e \in Calls, call'[e].op = "insert"
        PROVE  /\ call'[e].user \in Users /\ call'[e].key \in RetryKeys
               /\ ~OwnsLegacy(call'[e].user, call'[e].key)
    <3>1. call'[e] = call[e] /\ call[e] \in Requests
      BY <1>1, <2>2, NoDraftIsNone DEF CommunicationsInv, DraftTypeOK, Requests
    <3>2. call[e].user \in Users /\ call[e].key \in RetryKeys
      BY <2>2, <3>1 DEF Requests, NoRequest, Writes
    <3>. QED
      BY <2>2, <3>1, <3>2 DEF CommunicationsInv, OnePerKey
  <2>. QED
    BY <1>5, <2>1, <2>2 DEF OnePerKey, OwnsLegacy, CreateKeyOf, RawKey
<1>7. AnswersStand'
  <2>1. \A a \in answered : /\ a.user \in Users /\ a.key \in RetryKeys /\ a.draft \in DraftKeys
    BY DEF CommunicationsInv, DraftTypeOK
  <2>2. ASSUME NEW a \in answered'
        PROVE  \/ /\ a.draft = CreateKeyOf(a.user, a.key) /\ draft'[a.draft] # NoDraft
                  /\ contents'[a.draft][1] = a.content
               \/ a.draft = RawKey(a.key) /\ OwnsLegacy(a.user, a.key)'
    <3>1. a \in answered /\ a.user \in Users /\ a.key \in RetryKeys /\ a.draft \in DraftKeys
      BY <2>1
    <3>2. \/ /\ a.draft = CreateKeyOf(a.user, a.key) /\ draft[a.draft] # NoDraft
             /\ contents[a.draft][1] = a.content
          \/ a.draft = RawKey(a.key) /\ OwnsLegacy(a.user, a.key)
      BY <3>1 DEF CommunicationsInv, AnswersStand
    <3>3. CASE a.draft = RawKey(a.key) /\ OwnsLegacy(a.user, a.key)
      <4>. DEFINE u == a.user
                  k == a.key
      <4>1. u \in Users /\ k \in RetryKeys /\ OwnsLegacy(u, k)
        BY <3>1, <3>3
      <4>. HIDE DEF u, k
      <4>2. OwnsLegacy(u, k)'
        BY <1>5, <4>1
      <4>. QED
        BY <3>3, <4>2 DEF u, k
    <3>4. CASE /\ a.draft = CreateKeyOf(a.user, a.key) /\ draft[a.draft] # NoDraft
               /\ contents[a.draft][1] = a.content
      <4>1. PICK e \in DraftKeys : e = a.draft
        BY <3>1
      <4>2. draft'[e] # NoDraft /\ contents'[e][1] = a.content
        BY <1>4, <1>4a, <3>4, <4>1
      <4>. QED
        BY <3>4, <4>1, <4>2
    <3>. QED
      BY <3>2, <3>3, <3>4
  <2>. QED
    BY <2>2 DEF AnswersStand, OwnsLegacy
<1>. QED
  BY <1>1, <1>2, <1>3, <1>6, <1>7 DEF CommunicationsInv

LEMMA SaveKeeps ==
  ASSUME CommunicationsInv, NEW c \in Calls, SaveDraft(c)
  PROVE  CommunicationsInv'
<1>. DEFINE me == call[c]
            d == me.on
<1>1. /\ me \in Writes /\ me.op = "save" /\ call' = [call EXCEPT ![c] = NoRequest]
      /\ answered' = answered /\ Fits(me, draft[d])
  BY CallTypes DEF SaveDraft, Ends
<1>2. d \in DraftKeys /\ draft[d] # NoDraft /\ draft[d] \in Draft /\ me.event \in AuditRow
      /\ audit[d] \in Seq(AuditRow) /\ contents[d] \in Seq(Drafts)
  BY <1>1 DEF Fits, Writes, CommunicationsInv, DraftTypeOK
<1>3. CASE RowUnchanged(c)
  <2>. DEFINE new == me.becomes
              rows == Append(audit[d], me.event)
              texts == Append(contents[d], new.content)
  <2>1. /\ draft' = [draft EXCEPT ![d] = new] /\ audit' = [audit EXCEPT ![d] = rows]
        /\ contents' = [contents EXCEPT ![d] = texts]
    BY <1>3 DEF SaveDraft
  <2>2. /\ draft[d].version = me.read /\ new \in Draft /\ new.version = draft[d].version + 1
        /\ new.by = draft[d].by /\ Changing(me.event) /\ me.event.on = draft[d].version
        /\ me.event.shown = draft[d].version
        /\ new.approval = "APPROVED" =>
             /\ new.status = "READY" /\ me.event.event = "APPROVED" /\ me.event.by \in Managers
             /\ new.content = draft[d].content
    BY <1>1, <1>3 DEF RowUnchanged, Fits
  <2>3. Agrees(draft[d], audit[d], contents[d])
    BY <1>2 DEF CommunicationsInv, TrailsAgree
  <2>4. Agrees(new, rows, texts)
    BY <1>2, <2>2, <2>3, ChangeAgrees
  <2>5. /\ rows \in Seq(AuditRow) /\ texts \in Seq(Drafts)
        /\ rows[1] = audit[d][1] /\ texts[1] = contents[d][1]
    <3>1. Len(audit[d]) > 0 /\ Len(contents[d]) > 0 /\ new.content \in Drafts
      BY <1>2, <2>2, <2>3 DEF Agrees, Draft
    <3>. QED
      BY <1>2, <3>1
  <2>. HIDE DEF me, d, new, rows, texts
  <2>. QED
    BY <1>1, <1>2, <2>1, <2>2, <2>4, <2>5, DraftWritten
<1>4. CASE ~RowUnchanged(c)
  <2>1. UNCHANGED <<draft, audit, contents>>
    BY <1>4 DEF SaveDraft
  <2>. QED
    BY <1>1, <2>1, AnswersStay, NoDraftIsNone, RequestMoves DEF Requests
<1>. QED
  BY <1>3, <1>4

LEMMA AppendKeeps ==
  ASSUME CommunicationsInv, NEW c \in Calls, AppendAudit(c)
  PROVE  CommunicationsInv'
<1>. DEFINE me == call[c]
            d == me.on
<1>1. /\ me \in Writes /\ me.op = "append" /\ call' = [call EXCEPT ![c] = NoRequest]
      /\ UNCHANGED <<draft, contents, answered>> /\ Fits(me, draft[d])
  BY CallTypes DEF AppendAudit, Ends
<1>2. d \in DraftKeys /\ draft[d] # NoDraft /\ draft[d] \in Draft /\ me.event \in AuditRow
      /\ audit[d] \in Seq(AuditRow) /\ contents[d] \in Seq(Drafts)
  BY <1>1 DEF Fits, Writes, CommunicationsInv, DraftTypeOK
<1>3. CASE RowUnchanged(c)
  <2>. DEFINE rows == Append(audit[d], me.event)
  <2>1. audit' = [audit EXCEPT ![d] = rows]
    BY <1>3 DEF AppendAudit
  <2>2. /\ draft[d].version = me.read /\ ~Changing(me.event) /\ me.event.on = draft[d].version
        /\ me.event.shown = draft[d].version
        /\ me.event.event = "DELIVERY_BLOCKED" =>
             draft[d].approval = "APPROVED" /\ draft[d].content \in Addressed
    BY <1>1, <1>3 DEF RowUnchanged, Fits
  <2>3. Agrees(draft[d], audit[d], contents[d])
    BY <1>2 DEF CommunicationsInv, TrailsAgree
  <2>4. Agrees(draft[d], rows, contents[d])
    BY <1>2, <2>2, <2>3, EventAgrees
  <2>5. rows \in Seq(AuditRow) /\ rows[1] = audit[d][1]
    <3>1. Len(audit[d]) > 0
      BY <2>3 DEF Agrees
    <3>. QED
      BY <1>2, <3>1
  <2>6. draft' = [draft EXCEPT ![d] = draft[d]] /\ contents' = [contents EXCEPT ![d] = contents[d]]
    BY <1>1, <1>2 DEF CommunicationsInv, DraftTypeOK
  <2>. HIDE DEF me, d, rows
  <2>. QED
    BY <1>1, <1>2, <2>1, <2>4, <2>5, <2>6, DraftWritten
<1>4. CASE ~RowUnchanged(c)
  <2>1. audit' = audit
    BY <1>4 DEF AppendAudit
  <2>. QED
    BY <1>1, <2>1, AnswersStay, NoDraftIsNone, RequestMoves DEF Requests
<1>. QED
  BY <1>3, <1>4

LEMMA InsertKeeps ==
  ASSUME CommunicationsInv, NEW c \in Calls, InsertDraft(c)
  PROVE  CommunicationsInv'
<1>. DEFINE me == call[c]
            d == CreateKeyOf(me.user, me.key)
<1>1. /\ me.user \in Users /\ me.key \in RetryKeys /\ me.content \in Drafts /\ me.op = "insert"
      /\ call' = [call EXCEPT ![c] = NoRequest] /\ ~OwnsLegacy(me.user, me.key)
  BY CallTypes DEF InsertDraft, Ends
<1>2. d \in DraftKeys
  BY <1>1, Keys
<1>3. CASE draft[d] # NoDraft
  <2>1. Answer(me.user, me.key, me.content, d) /\ UNCHANGED <<draft, audit, contents>>
    BY <1>3 DEF InsertDraft
  <2>2. /\ answered' \subseteq [user : Users, key : RetryKeys, content : Drafts, draft : DraftKeys]
        /\ AnswersStand'
    BY <1>1, <1>2, <1>3, <2>1, AnswerStands
  <2>. QED
    BY <1>1, <2>1, <2>2, NoDraftIsNone, RequestMoves DEF Requests
<1>4. CASE draft[d] = NoDraft
  <2>. DEFINE new == [version |-> 1, by |-> me.user, content |-> me.content,
                      approval |-> "PENDING", status |-> "DRAFT"]
              row == [event |-> "CREATED", by |-> me.user, on |-> 0, shown |-> 0]
              answer == [user |-> me.user, key |-> me.key, content |-> me.content, draft |-> d]
  <2>1. /\ draft' = [draft EXCEPT ![d] = new] /\ audit' = [audit EXCEPT ![d] = <<row>>]
        /\ contents' = [contents EXCEPT ![d] = <<new.content>>]
        /\ answered' = answered \cup {answer}
    BY <1>4 DEF InsertDraft
  <2>2. /\ new \in Draft /\ new.version = 1 /\ new.approval = "PENDING" /\ new.by = me.user
        /\ new.content = me.content /\ row \in AuditRow /\ row.on = 0 /\ row.event = "CREATED"
        /\ answer \in [user : Users, key : RetryKeys, content : Drafts, draft : DraftKeys]
        /\ answer.user = me.user /\ answer.key = me.key /\ answer.content = me.content
        /\ answer.draft = d /\ me.content \in Drafts
    BY <1>1, <1>2 DEF Draft, AuditRow, Unsent
  <2>. HIDE DEF new, row, answer
  <2>3. Agrees(new, <<row>>, <<new.content>>)
    BY <2>2, FirstAgrees DEF Changing
  <2>4. /\ draft'[d] = new /\ audit'[d] = <<row>> /\ contents'[d] = <<new.content>>
        /\ call'[c] = NoRequest
        /\ \A e \in DraftKeys \ {d} :
             draft'[e] = draft[e] /\ audit'[e] = audit[e] /\ contents'[e] = contents[e]
        /\ \A e \in Calls \ {c} : call'[e] = call[e]
        /\ call' \in [Calls -> Requests] /\ DraftTypeOK' /\ new # NoDraft
    BY <1>1, <1>2, <2>1, <2>2, NoDraftIsNone DEF CommunicationsInv, DraftTypeOK, Requests
  <2>5. TrailsAgree'
    BY <2>3, <2>4 DEF CommunicationsInv, TrailsAgree
  <2>6. WritesFit'
    <3>1. ASSUME NEW e \in Calls, call'[e].op = "save" \/ call'[e].op = "append"
          PROVE  Fits(call'[e], draft'[call'[e].on])
      <4>1. e # c /\ call'[e] = call[e]
        BY <2>4, <3>1, NoDraftIsNone
      <4>2. Fits(call[e], draft[call[e].on]) /\ call[e] \in Requests
        BY <3>1, <4>1 DEF CommunicationsInv, WritesFit, DraftTypeOK, Requests
      <4>3. call[e].on \in DraftKeys
        BY <3>1, <4>1, <4>2 DEF Requests, NoRequest, Writes
      <4>4. call[e].on # d
        BY <1>4, <4>2 DEF Fits
      <4>. QED
        BY <2>4, <4>1, <4>2, <4>3, <4>4
    <3>. QED
      BY <3>1 DEF WritesFit
  <2>7. \A k \in LegacyKeys : RawKey(k) \in DraftKeys \ {d}
    BY <1>1, Keys, CommunicationsAssumption
  <2>8. \A u \in Users, k \in RetryKeys : OwnsLegacy(u, k)' <=> OwnsLegacy(u, k)
    BY <2>4, <2>7 DEF OwnsLegacy
  <2>9. OnePerKey'
    <3>1. \A k \in LegacyKeys : draft'[RawKey(k)] # NoDraft
      BY <2>4, <2>7 DEF CommunicationsInv, OnePerKey
    <3>2. ASSUME NEW u \in Users, NEW k \in RetryKeys, draft'[CreateKeyOf(u, k)] # NoDraft
          PROVE  /\ draft'[CreateKeyOf(u, k)].by = u
                 /\ audit'[CreateKeyOf(u, k)][1].event = "CREATED" /\ ~OwnsLegacy(u, k)
      <4>. DEFINE e == CreateKeyOf(u, k)
      <4>1. CASE e = d
        <5>1. u = me.user /\ k = me.key
          BY <1>1, <4>1, Keys
        <5>. QED
          BY <1>1, <2>2, <2>4, <4>1, <5>1
      <4>2. CASE e # d
        <5>1. e \in DraftKeys
          BY Keys
        <5>2. draft[e] # NoDraft /\ draft'[e] = draft[e] /\ audit'[e] = audit[e]
          BY <2>4, <3>2, <4>2, <5>1
        <5>3. draft[e].by = u /\ audit[e][1].event = "CREATED" /\ ~OwnsLegacy(u, k)
          BY <5>2 DEF CommunicationsInv, OnePerKey
        <5>. QED
          BY <5>2, <5>3
      <4>. QED
        BY <4>1, <4>2
    <3>3. ASSUME NEW e \in Calls, call'[e].op = "insert"
          PROVE  /\ call'[e].user \in Users /\ call'[e].key \in RetryKeys
                 /\ ~OwnsLegacy(call'[e].user, call'[e].key)
      <4>1. call'[e] = call[e] /\ call[e] \in Requests
        BY <2>4, <3>3, NoDraftIsNone DEF CommunicationsInv, DraftTypeOK, Requests
      <4>2. call[e].user \in Users /\ call[e].key \in RetryKeys
        BY <3>3, <4>1 DEF Requests, NoRequest, Writes
      <4>. QED
        BY <3>3, <4>1, <4>2 DEF CommunicationsInv, OnePerKey
    <3>. QED
      BY <2>8, <3>1, <3>2, <3>3 DEF OnePerKey, OwnsLegacy, CreateKeyOf, RawKey
  <2>10. AnswersStand'
    <3>1. ASSUME NEW a \in answered'
          PROVE  \/ /\ a.draft = CreateKeyOf(a.user, a.key) /\ draft'[a.draft] # NoDraft
                    /\ contents'[a.draft][1] = a.content
                 \/ a.draft = RawKey(a.key) /\ OwnsLegacy(a.user, a.key)'
      <4>1. CASE a = answer
        BY <2>2, <2>4, <4>1
      <4>2. CASE a \in answered
        <5>1. a.user \in Users /\ a.key \in RetryKeys /\ a.draft \in DraftKeys
          BY <4>2 DEF CommunicationsInv, DraftTypeOK
        <5>2. CASE a.draft = RawKey(a.key) /\ OwnsLegacy(a.user, a.key)
          <6>. DEFINE u == a.user
                      k == a.key
          <6>1. u \in Users /\ k \in RetryKeys /\ OwnsLegacy(u, k)
            BY <5>1, <5>2
          <6>. HIDE DEF u, k
          <6>2. OwnsLegacy(u, k)'
            BY <2>8, <6>1
          <6>. QED
            BY <5>2, <6>2 DEF u, k
        <5>3. CASE /\ a.draft = CreateKeyOf(a.user, a.key) /\ draft[a.draft] # NoDraft
                   /\ contents[a.draft][1] = a.content
          BY <1>4, <2>4, <5>1, <5>3
        <5>. QED
          BY <4>2, <5>2, <5>3 DEF CommunicationsInv, AnswersStand
      <4>. QED
        BY <2>1, <4>1, <4>2
    <3>. QED
      BY <3>1 DEF AnswersStand, OwnsLegacy
  <2>11. DraftTypeOK'
    BY <2>4
  <2>. QED
    BY <2>5, <2>6, <2>9, <2>10, <2>11 DEF CommunicationsInv
<1>. QED
  BY <1>3, <1>4

LEMMA InitCommunications == CommunicationsInit => CommunicationsInv
<1>. SUFFICES ASSUME CommunicationsInit PROVE CommunicationsInv
  OBVIOUS
<1>1. PICK owner \in Users, content \in Drafts :
        /\ draft = [d \in DraftKeys |->
             IF d.owner = "anyone"
               THEN [version |-> 1, by |-> owner, content |-> content, approval |-> "PENDING", status |-> "DRAFT"]
               ELSE NoDraft]
        /\ contents = [d \in DraftKeys |-> IF d.owner = "anyone" THEN <<content>> ELSE <<>>]
        /\ audit = [d \in DraftKeys |->
             IF d.owner = "anyone" THEN <<[event |-> "BEFORE", by |-> owner, on |-> 0, shown |-> 0]>> ELSE <<>>]
  BY DEF CommunicationsInit
<1>. DEFINE old == [version |-> 1, by |-> owner, content |-> content, approval |-> "PENDING", status |-> "DRAFT"]
            row == [event |-> "BEFORE", by |-> owner, on |-> 0, shown |-> 0]
<1>2. /\ old \in Draft /\ old.version = 1 /\ old.approval = "PENDING" /\ old.content = content
      /\ row \in AuditRow /\ row.on = 0 /\ Changing(row)
  BY DEF Draft, AuditRow, Unsent, Changing
<1>3. \A d \in DraftKeys :
        /\ d.owner = "anyone" => draft[d] = old /\ contents[d] = <<content>> /\ audit[d] = <<row>>
        /\ d.owner # "anyone" => draft[d] = NoDraft /\ contents[d] = <<>> /\ audit[d] = <<>>
  BY <1>1
<1>4. /\ call = [c \in Calls |-> NoRequest] /\ answered = {}
      /\ draft = [d \in DraftKeys |-> draft[d]] /\ contents = [d \in DraftKeys |-> contents[d]]
      /\ audit = [d \in DraftKeys |-> audit[d]]
  BY <1>1 DEF CommunicationsInit
<1>. HIDE DEF old, row
<1>5. DraftTypeOK
  <2>1. ASSUME NEW d \in DraftKeys
        PROVE  /\ draft[d] \in Draft \cup {NoDraft}
               /\ contents[d] \in Seq(Drafts) /\ audit[d] \in Seq(AuditRow)
    <3>1. CASE d.owner = "anyone"
      <4>1. <<content>> \in Seq(Drafts) /\ <<row>> \in Seq(AuditRow)
        BY <1>2
      <4>. QED
        BY <1>2, <1>3, <3>1, <4>1
    <3>2. CASE d.owner # "anyone"
      <4>1. <<>> \in Seq(Drafts) /\ <<>> \in Seq(AuditRow)
        OBVIOUS
      <4>. QED
        BY <1>3, <3>2, <4>1
    <3>. QED
      BY <3>1, <3>2
  <2>. QED
    BY <1>4, <2>1 DEF DraftTypeOK
<1>6. TrailsAgree
  <2>1. Agrees(old, <<row>>, <<old.content>>)
    BY <1>2, FirstAgrees
  <2>2. ASSUME NEW d \in DraftKeys
        PROVE  IF draft[d] = NoDraft THEN audit[d] = <<>> /\ contents[d] = <<>>
                                     ELSE Agrees(draft[d], audit[d], contents[d])
    <3>1. CASE d.owner = "anyone"
      <4>1. /\ draft[d] = old /\ audit[d] = <<row>> /\ contents[d] = <<old.content>>
            /\ draft[d] # NoDraft
        BY <1>2, <1>3, <3>1, NoDraftIsNone
      <4>. QED
        BY <2>1, <4>1
    <3>2. CASE d.owner # "anyone"
      BY <1>3, <3>2
    <3>. QED
      BY <3>1, <3>2
  <2>. QED
    BY <2>2 DEF TrailsAgree
<1>7. \A c \in Calls : call[c].op = "none"
  BY <1>4 DEF NoRequest
<1>8. WritesFit
  BY <1>7 DEF WritesFit
<1>9. OnePerKey
  <2>1. ASSUME NEW k \in LegacyKeys PROVE draft[RawKey(k)] # NoDraft
    <3>1. RawKey(k) \in DraftKeys /\ RawKey(k).owner = "anyone"
      BY DEF RawKey, DraftKeys
    <3>. QED
      BY <1>2, <1>3, <3>1, NoDraftIsNone
  <2>2. ASSUME NEW u \in Users, NEW k \in RetryKeys PROVE draft[CreateKeyOf(u, k)] = NoDraft
    <3>1. CreateKeyOf(u, k) \in DraftKeys /\ CreateKeyOf(u, k).owner # "anyone"
      BY CommunicationsAssumption DEF CreateKeyOf, DraftKeys
    <3>. QED
      BY <1>3, <3>1
  <2>. QED
    BY <1>7, <2>1, <2>2 DEF OnePerKey
<1>10. AnswersStand
  BY <1>4 DEF AnswersStand
<1>. QED
  BY <1>5, <1>6, <1>8, <1>9, <1>10 DEF CommunicationsInv

LEMMA NextCommunications ==
  CommunicationsInv /\ [CommunicationsNext]_communicationVars => CommunicationsInv'
<1>. SUFFICES ASSUME CommunicationsInv, [CommunicationsNext]_communicationVars
     PROVE  CommunicationsInv'
  OBVIOUS
<1>1. CASE UNCHANGED communicationVars
  BY <1>1 DEF communicationVars, CommunicationsInv, DraftTypeOK, TrailsAgree, WritesFit, OnePerKey,
              OwnsLegacy, AnswersStand
<1>2. ASSUME NEW c \in Calls, CreateDraft(c)
      PROVE  CommunicationsInv'
  BY <1>2, CreateKeeps DEF CreateDraft
<1>3. ASSUME NEW c \in Calls, EditDraft(c)
      PROVE  CommunicationsInv'
  BY <1>3, EditKeeps DEF EditDraft, Drafted
<1>4. ASSUME NEW c \in Calls, Approval(c)
      PROVE  CommunicationsInv'
  BY <1>4, DecideKeeps DEF Approval, Drafted
<1>5. ASSUME NEW c \in Calls, PreviewDraft(c)
      PROVE  CommunicationsInv'
  <2>1. PICK u \in Users, d \in DraftKeys : Preview(c, u, d)
    BY <1>5 DEF PreviewDraft, Drafted
  <2>. QED
    BY <2>1, EventsKeep
<1>6. ASSUME NEW c \in Calls, SendDraft(c)
      PROVE  CommunicationsInv'
  BY <1>6, EventsKeep DEF SendDraft, Drafted
<1>7. ASSUME NEW c \in Calls, CallFails(c)
      PROVE  CommunicationsInv'
  <2>1. call' = [call EXCEPT ![c] = NoRequest] /\ UNCHANGED <<draft, audit, contents, answered>>
    BY <1>7 DEF CallFails, Ends
  <2>. QED
    BY <2>1, AnswersStay, NoDraftIsNone, RequestMoves DEF Requests
<1>. QED
  BY <1>1, <1>2, <1>3, <1>4, <1>5, <1>6, <1>7, InsertKeeps, SaveKeeps, AppendKeeps
  DEF CommunicationsNext

LEMMA CommunicationsInvHolds == CommunicationsSpec => []CommunicationsInv
BY InitCommunications, NextCommunications, PTL DEF CommunicationsSpec

\* However many requests change, review, preview and send a draft at the same time: its
\* trail tells every version once, an approval is of what the draft says as its manager
\* was shown it, and a delivery is attempted of nothing else.
THEOREM ReviewedDrafts == CommunicationsSpec => []ReviewedAsItStands
<1>1. CommunicationsInv => ReviewedAsItStands
  <2>. SUFFICES ASSUME CommunicationsInv PROVE ReviewedAsItStands
    OBVIOUS
  <2>1. ASSUME NEW d \in DraftKeys, draft[d] # NoDraft
        PROVE  Agrees(draft[d], audit[d], contents[d])
    BY <2>1 DEF CommunicationsInv, TrailsAgree
  <2>2. TrailIsComplete
    BY <2>1 DEF TrailIsComplete, Agrees
  <2>3. ApprovalIsOfThis
    BY <2>1 DEF ApprovalIsOfThis, Agrees, Approved
  <2>4. ASSUME NEW d \in DraftKeys, draft[d] = NoDraft PROVE DOMAIN audit[d] = {}
    BY <2>4 DEF CommunicationsInv, TrailsAgree
  <2>5. AttemptsWereApproved
    BY <2>1, <2>4 DEF AttemptsWereApproved, Agrees, Attempted
  <2>. QED
    BY <2>2, <2>3, <2>5 DEF ReviewedAsItStands
<1>. QED
  BY <1>1, CommunicationsInvHolds, PTL

\* However often a creation is sent, whichever of its requests comes first and whether or
\* not the key is of a legacy draft: one draft answers, the user's own, and it began with
\* what was asked.
THEOREM CreatedJustOnce == CommunicationsSpec => []CreatedOnce
<1>1. CommunicationsInv => CreatedOnce
  <2>. SUFFICES ASSUME CommunicationsInv, NEW a \in answered, NEW b \in answered
       PROVE  /\ a.user = b.user /\ a.key = b.key => a.draft = b.draft
              /\ draft[a.draft].by = a.user
              /\ a.draft.owner # "anyone" => contents[a.draft][1] = a.content
    BY DEF CreatedOnce
  <2>1. /\ a.user \in Users /\ a.key \in RetryKeys
        /\ b.user \in Users /\ b.key \in RetryKeys
    BY DEF CommunicationsInv, DraftTypeOK
  <2>2. RawKey(a.key).owner = "anyone"
    BY DEF RawKey
  <2>3. /\ \/ /\ a.draft = CreateKeyOf(a.user, a.key) /\ draft[a.draft] # NoDraft
              /\ contents[a.draft][1] = a.content
           \/ a.draft = RawKey(a.key) /\ OwnsLegacy(a.user, a.key)
        /\ \/ b.draft = CreateKeyOf(b.user, b.key) /\ draft[b.draft] # NoDraft
           \/ b.draft = RawKey(b.key) /\ OwnsLegacy(b.user, b.key)
    BY DEF CommunicationsInv, AnswersStand
  <2>4. \A u \in Users, k \in RetryKeys : draft[CreateKeyOf(u, k)] # NoDraft =>
          draft[CreateKeyOf(u, k)].by = u /\ ~OwnsLegacy(u, k)
    BY DEF CommunicationsInv, OnePerKey
  <2>. QED
    BY <2>1, <2>2, <2>3, <2>4 DEF OwnsLegacy
<1>. QED
  BY <1>1, CommunicationsInvHolds, PTL

-----------------------------------------------------------------------------
(***************************************************************************)
(* The answers of a provider.                                              *)
(***************************************************************************)
Purposes == {"explanation", "candidate", "technical", "brief", "draft"}

Asked == {c \in Callers : caller[c].pc = "asked"}

\* What a request for an explanation may not say: an imported route.
NamesNoImport(kind, request) ==
  kind = "route" => \A f \in Findings : f.imported => request.content # f.content

\* The request of a call is the one of its subject.
RequestIsOf(asking) ==
  /\ asking.purpose \in Purposes
  /\ asking.purpose = "explanation" => asking.subject \in Kinds /\ NamesNoImport(asking.subject, asking.request)
  /\ asking.purpose = "candidate" =>
       asking.subject \in Mentions /\ asking.request.candidates = CandidatesOf(asking.subject)
  /\ asking.purpose = "brief" => asking.request.evidence = PublicEvidence
  /\ asking.purpose = "draft" => asking.request.evidence = DraftEvidence

\* An answer that was read keeps to what was sent.
KeepsTo(purpose, request, value) ==
  /\ purpose \in {"explanation", "brief", "draft"} => value.evidence \subseteq request.evidence
  /\ purpose = "candidate" => value.proposed \subseteq request.candidates /\ value.ranked \subseteq request.candidates

\* An answer, or an exception that goes with the purpose; only an answer is available.
IsOutcome(purpose, request, outcome) ==
  \/ outcome.is = "answer" /\ outcome.status = "AVAILABLE" /\ KeepsTo(purpose, request, outcome.value)
  \/ /\ outcome.is \in {"LanguageProviderError", "ValueError", "TypeError", "Exception"}
     /\ outcome.status # "AVAILABLE"
     /\ outcome.is = "TypeError" => purpose \in {"candidate", "technical", "brief"}

IsWhole(asking) ==
  \/ asking = NoCall
  \/ (asking.pc = "reserve" \/ asking.pc = "asked") /\ RequestIsOf(asking)
  \/ /\ asking.pc = "answered" /\ RequestIsOf(asking)
     /\ IsOutcome(asking.purpose, asking.request, asking.outcome)
     /\ asking.outcome.is = "answer" => asking.receipt = "RESPONSE_RECEIVED"

CallsAreWhole == \A c \in Callers : IsWhole(caller[c])

ExplanationsRest ==
  \A kind \in Kinds : explanation[kind].kept =>
    /\ explanation[kind].shown.evidence \subseteq explanation[kind].key.evidence
    /\ explanation[kind].shown.assisted <=> explanation[kind].status = "AVAILABLE"
    /\ ~explanation[kind].shown.assisted => explanation[kind].shown.content = explanation[kind].key.content
    /\ NamesNoImport(kind, explanation[kind].key)

ProposalsRest ==
  \A content \in Mentions :
    proposals[ProposalKey(content)].kept =>
      /\ proposals[ProposalKey(content)].proposal.proposed \subseteq CandidatesOf(content)
      /\ proposals[ProposalKey(content)].proposal.ranked \subseteq CandidatesOf(content)

EntitiesRest ==
  \A content \in Mentions :
    /\ entity[content].candidates \subseteq CandidatesOf(content)
    /\ entity[content].state = "RESOLVED" => MentionOf[content].state = "RESOLVED"

TextsRest ==
  /\ written.kept => written.evidence \subseteq PublicEvidence
  /\ drafted.kept => drafted.evidence \subseteq DraftEvidence

ReceiptsCount == reserved \in Nat /\ Cardinality(Asked) <= reserved

\* The calls, each function being one of its subjects.
CallsInv ==
  /\ caller = [c \in Callers |-> caller[c]]
  /\ CallsAreWhole /\ ReceiptsCount

\* What is kept and shown.
RowsInv ==
  /\ finding \in [Kinds -> Findings]
  /\ explanation = [kind \in Kinds |-> explanation[kind]]
  /\ proposals = [key \in {ProposalKey(content) : content \in Mentions} |-> proposals[key]]
  /\ entity = [content \in Mentions |-> entity[content]]
  /\ ExplanationsRest /\ ProposalsRest /\ EntitiesRest /\ TextsRest /\ FallsBack

GovernedInv == CallsInv /\ RowsInv

-----------------------------------------------------------------------------
LEMMA RowsStay ==
  ASSUME GovernedInv, UNCHANGED <<finding, explanation, proposals, entity, written, drafted, ended>>
  PROVE  RowsInv'
BY DEF GovernedInv, RowsInv, ExplanationsRest, ProposalsRest, EntitiesRest, TextsRest, FallsBack

LEMMA CallsStay ==
  ASSUME GovernedInv, UNCHANGED <<caller, reserved>>
  PROVE  CallsInv'
BY DEF GovernedInv, CallsInv, CallsAreWhole, ReceiptsCount, Asked

\* One call moves on, and the receipts that are open with it.
LEMMA CallMoves ==
  ASSUME GovernedInv, NEW c \in Callers, NEW new, IsWhole(new), caller' = [caller EXCEPT ![c] = new],
         \/ new.pc # "asked" /\ reserved' = reserved
         \/ reserved' = reserved + 1
         \/ caller[c].pc = "asked" /\ new.pc # "asked" /\ reserved' = reserved - 1
  PROVE  CallsInv'
<1>1. /\ caller = [e \in Callers |-> caller[e]] /\ CallsAreWhole
      /\ reserved \in Nat /\ Cardinality(Asked) <= reserved
  BY DEF GovernedInv, CallsInv, ReceiptsCount
<1>2. /\ caller'[c] = new /\ \A e \in Callers \ {c} : caller'[e] = caller[e]
      /\ caller' = [e \in Callers |-> caller'[e]]
  BY <1>1
<1>3. CallsAreWhole'
  BY <1>1, <1>2 DEF CallsAreWhole
<1>4. /\ IsFiniteSet(Asked) /\ Cardinality(Asked) \in Nat
      /\ IsFiniteSet(Asked') /\ Cardinality(Asked') \in Nat
  BY GovernedAssumption, FS_Subset, FS_CardinalityType DEF Asked
<1>5. ReceiptsCount'
  <2>1. CASE new.pc # "asked" /\ reserved' = reserved
    <3>1. Asked' \subseteq Asked
      BY <1>2, <2>1 DEF Asked
    <3>2. Cardinality(Asked') <= Cardinality(Asked)
      BY <1>4, <3>1, FS_Subset
    <3>. QED
      BY <1>1, <1>4, <2>1, <3>2 DEF ReceiptsCount
  <2>2. CASE reserved' = reserved + 1
    <3>1. Asked' \subseteq Asked \cup {c}
      BY <1>2 DEF Asked
    <3>2. /\ IsFiniteSet(Asked \cup {c})
          /\ Cardinality(Asked \cup {c}) <= Cardinality(Asked) + 1
          /\ Cardinality(Asked \cup {c}) \in Nat
      <4>1. /\ IsFiniteSet(Asked \cup {c})
            /\ Cardinality(Asked \cup {c}) = IF c \in Asked THEN Cardinality(Asked) ELSE Cardinality(Asked) + 1
        BY <1>4, FS_AddElement
      <4>. QED
        BY <1>4, <4>1
    <3>3. Cardinality(Asked') <= Cardinality(Asked \cup {c})
      BY <3>1, <3>2, FS_Subset
    <3>. QED
      BY <1>1, <1>4, <2>2, <3>2, <3>3 DEF ReceiptsCount
  <2>3. CASE caller[c].pc = "asked" /\ new.pc # "asked" /\ reserved' = reserved - 1
    <3>1. Asked' = Asked \ {c} /\ c \in Asked
      BY <1>2, <2>3 DEF Asked
    <3>2. Cardinality(Asked') = Cardinality(Asked) - 1
      BY <1>4, <3>1, FS_RemoveElement
    <3>. QED
      BY <1>1, <1>4, <2>3, <3>2 DEF ReceiptsCount
  <2>. QED
    BY <2>1, <2>2, <2>3
<1>. QED
  BY <1>2, <1>3, <1>5 DEF CallsInv

\* A call that begins, and one that is over.
LEMMA CallBeginsWhole ==
  ASSUME GovernedInv, NEW c \in Callers, NEW purpose, NEW subject, NEW request,
         CallBegins(c, purpose, subject, request), UNCHANGED reserved,
         RequestIsOf([pc |-> "reserve", purpose |-> purpose, subject |-> subject, request |-> request])
  PROVE  CallsInv'
BY CallMoves DEF CallBegins, IsWhole

LEMMA CallIsOver ==
  ASSUME GovernedInv, NEW c \in Callers, CallEnds(c), UNCHANGED reserved
  PROVE  CallsInv'
BY CallMoves DEF CallEnds, IsWhole, NoCall

-----------------------------------------------------------------------------
\* What comes of the SDK is an answer only with its receipt closed on a response.
LEMMA TextsAreClosed ==
  ASSUME NEW reply
  PROVE  \/ /\ TextOf(reply) = Answers(reply)
            /\ reply.closes /\ ReceiptStatus(reply) = "RESPONSE_RECEIVED"
         \/ /\ TextOf(reply).is = "LanguageProviderError" \/ TextOf(reply).is = "Exception"
            /\ TextOf(reply).status # "AVAILABLE"
BY DEF TextOf, Response, ResultOf, ReceiptStatus, Answers, ProviderError, Raises

LEMMA AnswersAreRead ==
  ASSUME NEW purpose \in Purposes, NEW request, NEW text
  PROVE  IsOutcome(purpose, request, ReadAnswer(purpose, request, text))
<1>1. CASE purpose = "explanation"
  <2>1. ReadAnswer(purpose, request, text) = ReadExplanation(request, text)
    BY <1>1 DEF ReadAnswer
  <2>. QED
    BY <1>1, <2>1 DEF ReadExplanation, Answers, Raises, IsOutcome, KeepsTo
<1>2. CASE purpose = "candidate"
  <2>1. ReadAnswer(purpose, request, text) = ReadProposal(request, text)
    BY <1>2 DEF ReadAnswer
  <2>. QED
    BY <1>2, <2>1 DEF ReadProposal, Answers, Raises, IsOutcome, KeepsTo
<1>3. CASE purpose = "technical"
  <2>1. ReadAnswer(purpose, request, text) = ReadDecomposition(request, text)
    BY <1>3 DEF ReadAnswer
  <2>. QED
    BY <1>3, <2>1 DEF ReadDecomposition, Answers, Raises, IsOutcome, KeepsTo
<1>4. CASE purpose = "brief"
  <2>1. ReadAnswer(purpose, request, text) = ReadBrief(request, text)
    BY <1>4 DEF ReadAnswer
  <2>. QED
    BY <1>4, <2>1 DEF ReadBrief, Answers, Raises, IsOutcome, KeepsTo
<1>5. CASE purpose = "draft"
  <2>1. ReadAnswer(purpose, request, text) = ReadDraft(request, text)
    BY <1>5 DEF ReadAnswer
  <2>. QED
    BY <1>5, <2>1 DEF ReadDraft, Answers, Raises, IsOutcome, KeepsTo
<1>. QED
  BY <1>1, <1>2, <1>3, <1>4, <1>5 DEF Purposes

-----------------------------------------------------------------------------
\* What a request may say is settled by the result it is made of.
LEMMA RequestsNameNoImport ==
  ASSUME GovernedInv, NEW kind \in Kinds
  PROVE  NamesNoImport(kind, ExplanationRequest(kind))
<1>1. finding[kind] \in Findings
  BY DEF GovernedInv, RowsInv
<1>2. ASSUME kind = "route", NEW f \in Findings, f.imported
      PROVE  ExplanationRequest(kind).content # f.content
  <2>1. ExplanationRequest(kind) = RouteExplanation(finding[kind])
    BY <1>2 DEF ExplanationRequest
  <2>2. CASE finding[kind].imported
    <3>1. RouteExplanation(finding[kind]) = [content |-> "imported_route", evidence |-> {}]
      BY <2>2, Zenon DEF RouteExplanation
    <3>2. f.content # "imported_route"
      BY <1>2, GovernedAssumption, Zenon
    <3>. QED
      BY <2>1, <3>1, <3>2
  <2>3. CASE ~finding[kind].imported
    <3>1. RouteExplanation(finding[kind]) =
            [content |-> finding[kind].content, evidence |-> FirstOf(finding[kind].evidence)]
      BY <2>3, Zenon DEF RouteExplanation
    <3>2. f.content # finding[kind].content
      BY <1>1, <1>2, <2>3, GovernedAssumption, Zenon
    <3>. QED
      BY <2>1, <3>1, <3>2
  <2>. QED
    BY <2>2, <2>3
<1>. QED
  BY <1>2 DEF NamesNoImport

\* An explanation that rests on its request is saved.
LEMMA SavedExplanation ==
  ASSUME GovernedInv, NEW kind \in Kinds, NEW request, NEW shown, NEW status,
         SaveExplanation(kind, request, shown, status),
         NamesNoImport(kind, request), shown.evidence \subseteq request.evidence,
         shown.assisted <=> status = "AVAILABLE",
         ~shown.assisted => shown.content = request.content,
         UNCHANGED <<finding, proposals, entity, written, drafted, ended>>
  PROVE  RowsInv'
<1>. DEFINE retry == IF CooldownOf[status] = 0 THEN 0 ELSE governedTime + CooldownOf[status]
            row == [kept |-> TRUE, key |-> request, shown |-> shown, status |-> status, retry |-> retry]
<1>1. explanation' = [explanation EXCEPT ![kind] = row]
  BY DEF SaveExplanation
<1>2. row.key = request /\ row.shown = shown /\ row.status = status
  OBVIOUS
<1>. HIDE DEF row
<1>3. explanation = [k \in Kinds |-> explanation[k]]
  BY DEF GovernedInv, RowsInv
<1>4. /\ explanation' = [k \in Kinds |-> explanation'[k]]
      /\ explanation'[kind] = row
      /\ \A k \in Kinds \ {kind} : explanation'[k] = explanation[k]
  BY <1>1, <1>3
<1>5. ExplanationsRest'
  <2>1. ASSUME NEW k \in Kinds, explanation'[k].kept
        PROVE  /\ explanation'[k].shown.evidence \subseteq explanation'[k].key.evidence
               /\ explanation'[k].shown.assisted <=> explanation'[k].status = "AVAILABLE"
               /\ ~explanation'[k].shown.assisted => explanation'[k].shown.content = explanation'[k].key.content
               /\ NamesNoImport(k, explanation'[k].key)
    <3>1. CASE k = kind
      BY <1>2, <1>4, <3>1, Zenon
    <3>2. CASE k # kind
      <4>1. explanation'[k] = explanation[k] /\ explanation[k].kept
        BY <1>4, <2>1, <3>2, Zenon
      <4>. QED
        BY <4>1, Zenon DEF GovernedInv, RowsInv, ExplanationsRest
    <3>. QED
      BY <3>1, <3>2
  <2>. QED
    BY <2>1, Zenon DEF ExplanationsRest
<1>. QED
  BY <1>4, <1>5 DEF GovernedInv, RowsInv, ProposalsRest, EntitiesRest, TextsRest, FallsBack

\* A subject is narrowed to what was proposed, or stays as it was normalised.
LEMMA NarrowedRests ==
  ASSUME NEW content \in Mentions, NEW proposal, NEW fromCache \in BOOLEAN,
         proposal.proposed \subseteq CandidatesOf(content), proposal.ranked \subseteq CandidatesOf(content)
  PROVE  /\ Narrowed(content, proposal, fromCache).candidates \subseteq CandidatesOf(content)
         /\ Narrowed(content, proposal, fromCache).state = "RESOLVED" => MentionOf[content].state = "RESOLVED"
<1>1. MentionOf[content].candidates \subseteq CandidatesOf(content)
  BY DEF CandidatesOf
<1>2. CASE proposal.proposed # {}
  BY <1>2 DEF Narrowed
<1>3. CASE proposal.proposed = {} /\ fromCache /\ Cardinality(proposal.ranked) > 1
  BY <1>3 DEF Narrowed
<1>4. CASE proposal.proposed = {} /\ ~(fromCache /\ Cardinality(proposal.ranked) > 1)
  BY <1>1, <1>4 DEF Narrowed
<1>. QED
  BY <1>2, <1>3, <1>4

LEMMA SubjectKept ==
  ASSUME GovernedInv, NEW content \in Mentions, NEW subject, entity' = [entity EXCEPT ![content] = subject],
         subject.candidates \subseteq CandidatesOf(content),
         subject.state = "RESOLVED" => MentionOf[content].state = "RESOLVED",
         UNCHANGED <<finding, explanation, written, drafted, ended>>,
         proposals' = [key \in {ProposalKey(m) : m \in Mentions} |-> proposals'[key]], ProposalsRest'
  PROVE  RowsInv'
<1>1. entity = [m \in Mentions |-> entity[m]]
  BY DEF GovernedInv, RowsInv
<1>2. /\ entity' = [m \in Mentions |-> entity'[m]] /\ entity'[content] = subject
      /\ \A m \in Mentions \ {content} : entity'[m] = entity[m]
  BY <1>1
<1>3. EntitiesRest'
  <2>1. ASSUME NEW m \in Mentions
        PROVE  /\ entity'[m].candidates \subseteq CandidatesOf(m)
               /\ entity'[m].state = "RESOLVED" => MentionOf[m].state = "RESOLVED"
    BY <1>2 DEF GovernedInv, RowsInv, EntitiesRest
  <2>. QED
    BY <2>1, Zenon DEF EntitiesRest
<1>. QED
  BY <1>2, <1>3 DEF GovernedInv, RowsInv, ExplanationsRest, TextsRest, FallsBack

LEMMA NormalisedRests ==
  ASSUME NEW content \in Mentions
  PROVE  MentionOf[content].candidates \subseteq CandidatesOf(content)
BY DEF CandidatesOf

-----------------------------------------------------------------------------
\* What a call begins with: the request of its subject.
LEMMA ExplanationBegins ==
  ASSUME GovernedInv, NEW c \in Callers, NEW kind \in Kinds, BeginExplanation(c, kind)
  PROVE  GovernedInv'
<1>. DEFINE request == ExplanationRequest(kind)
<1>1. NamesNoImport(kind, request)
  BY RequestsNameNoImport
<1>. HIDE DEF request
<1>2. UNCHANGED <<finding, proposals, entity, written, drafted, reserved>>
  BY DEF BeginExplanation
<1>3. CASE /\ ended' = ended \cup {<<"request", "ValueError">>}
           /\ UNCHANGED <<explanation, caller>>
  <2>1. FallsBack'
    BY <1>3 DEF GovernedInv, RowsInv, FallsBack
  <2>2. RowsInv'
    BY <1>2, <1>3, <2>1 DEF GovernedInv, RowsInv, ExplanationsRest, ProposalsRest, EntitiesRest, TextsRest
  <2>. QED
    BY <1>2, <1>3, <2>2, CallsStay DEF GovernedInv
<1>4. CASE CallBegins(c, "explanation", kind, request) /\ UNCHANGED <<explanation, ended>>
  <2>1. RequestIsOf([pc |-> "reserve", purpose |-> "explanation", subject |-> kind, request |-> request])
    BY <1>1 DEF RequestIsOf, Purposes
  <2>2. CallsInv'
    BY <1>2, <1>4, <2>1, CallBeginsWhole
  <2>. QED
    BY <1>2, <1>4, <2>2, RowsStay DEF GovernedInv
<1>5. CASE /\ SaveExplanation(kind, request, FallbackExplanation(request), "NOT_CONFIGURED")
           /\ UNCHANGED <<caller, ended>>
  <2>1. /\ FallbackExplanation(request).evidence = request.evidence
        /\ FallbackExplanation(request).content = request.content
        /\ FallbackExplanation(request).assisted = FALSE
    BY DEF FallbackExplanation
  <2>2. RowsInv'
    BY <1>1, <1>2, <1>5, <2>1, SavedExplanation
  <2>. QED
    BY <1>2, <1>5, <2>2, CallsStay DEF GovernedInv
<1>. QED
  BY <1>3, <1>4, <1>5 DEF BeginExplanation, request

LEMMA CandidateBegins ==
  ASSUME GovernedInv, NEW c \in Callers, NEW content \in Mentions, BeginCandidate(c, content)
  PROVE  GovernedInv'
<1>1. /\ UNCHANGED <<finding, explanation, proposals, written, drafted, reserved, ended>>
      /\ proposals = [key \in {ProposalKey(m) : m \in Mentions} |-> proposals[key]] /\ ProposalsRest
  BY DEF BeginCandidate, GovernedInv, RowsInv
<1>2. proposals' = [key \in {ProposalKey(m) : m \in Mentions} |-> proposals'[key]] /\ ProposalsRest'
  BY <1>1 DEF ProposalsRest
<1>3. CASE entity' = [entity EXCEPT ![content] = MentionOf[content]] /\ UNCHANGED caller
  <2>1. RowsInv'
    BY <1>1, <1>2, <1>3, NormalisedRests, SubjectKept
  <2>. QED
    BY <1>1, <1>3, <2>1, CallsStay DEF GovernedInv
<1>4. CASE /\ proposals[ProposalKey(content)].kept
           /\ entity' = [entity EXCEPT ![content] =
                Narrowed(content, proposals[ProposalKey(content)].proposal, TRUE)]
           /\ UNCHANGED caller
  <2>1. /\ proposals[ProposalKey(content)].proposal.proposed \subseteq CandidatesOf(content)
        /\ proposals[ProposalKey(content)].proposal.ranked \subseteq CandidatesOf(content)
    BY <1>1, <1>4, Zenon DEF ProposalsRest
  <2>2. RowsInv'
    BY <1>1, <1>2, <1>4, <2>1, NarrowedRests, SubjectKept
  <2>. QED
    BY <1>1, <1>4, <2>2, CallsStay DEF GovernedInv
<1>5. CASE /\ CallBegins(c, "candidate", content, [candidates |-> CandidatesOf(content)])
           /\ UNCHANGED entity
  <2>1. RequestIsOf([pc |-> "reserve", purpose |-> "candidate", subject |-> content,
                     request |-> [candidates |-> CandidatesOf(content)]])
    BY DEF RequestIsOf, Purposes
  <2>2. CallsInv'
    BY <1>1, <1>5, <2>1, CallBeginsWhole
  <2>. QED
    BY <1>1, <1>5, <2>2, RowsStay DEF GovernedInv
<1>. QED
  BY <1>3, <1>4, <1>5, Zenon DEF BeginCandidate

LEMMA OthersBegin ==
  ASSUME GovernedInv, NEW c \in Callers, BeginTechnical(c) \/ BeginBrief(c) \/ BeginDraft(c)
  PROVE  GovernedInv'
<1>1. UNCHANGED <<finding, explanation, proposals, entity, written, reserved, ended>>
  BY DEF BeginTechnical, BeginBrief, BeginDraft
<1>2. CASE /\ CallBegins(c, "technical", "event", [evidence |-> PublicEvidence])
           /\ UNCHANGED drafted
  <2>1. RequestIsOf([pc |-> "reserve", purpose |-> "technical", subject |-> "event",
                     request |-> [evidence |-> PublicEvidence]])
    BY DEF RequestIsOf, Purposes
  <2>2. CallsInv'
    BY <1>1, <1>2, <2>1, CallBeginsWhole
  <2>. QED
    BY <1>1, <1>2, <2>2, RowsStay DEF GovernedInv
<1>3. CASE /\ CallBegins(c, "brief", "event", [evidence |-> PublicEvidence])
           /\ UNCHANGED drafted
  <2>1. RequestIsOf([pc |-> "reserve", purpose |-> "brief", subject |-> "event",
                     request |-> [evidence |-> PublicEvidence]])
    BY DEF RequestIsOf, Purposes
  <2>2. CallsInv'
    BY <1>1, <1>3, <2>1, CallBeginsWhole
  <2>. QED
    BY <1>1, <1>3, <2>2, RowsStay DEF GovernedInv
<1>4. CASE /\ CallBegins(c, "draft", draftVersion, [evidence |-> DraftEvidence])
           /\ UNCHANGED drafted
  <2>1. RequestIsOf([pc |-> "reserve", purpose |-> "draft", subject |-> draftVersion,
                     request |-> [evidence |-> DraftEvidence]])
    BY DEF RequestIsOf, Purposes
  <2>2. CallsInv'
    BY <1>1, <1>4, <2>1, CallBeginsWhole
  <2>. QED
    BY <1>1, <1>4, <2>2, RowsStay DEF GovernedInv
<1>5. CASE UNCHANGED <<caller, drafted>>
  BY <1>1, <1>5, RowsStay, CallsStay DEF GovernedInv
<1>6. CASE /\ drafted' = [kept |-> TRUE, version |-> draftVersion, evidence |-> DraftEvidence, assisted |-> FALSE]
           /\ UNCHANGED caller
  <2>1. TextsRest'
    BY <1>1, <1>6 DEF GovernedInv, RowsInv, TextsRest
  <2>2. RowsInv'
    BY <1>1, <2>1 DEF GovernedInv, RowsInv, ExplanationsRest, ProposalsRest, EntitiesRest, FallsBack
  <2>. QED
    BY <1>1, <1>6, <2>2, CallsStay DEF GovernedInv
<1>7. CASE BeginTechnical(c)
  BY <1>2, <1>5, <1>7, Zenon DEF BeginTechnical
<1>8. CASE BeginBrief(c)
  BY <1>3, <1>8 DEF BeginBrief
<1>9. CASE BeginDraft(c)
  BY <1>4, <1>6, <1>9 DEF BeginDraft
<1>. QED
  BY <1>7, <1>8, <1>9

\* A receipt is reserved, or none is and the call has its refusal for an answer.
LEMMA ReserveKeeps ==
  ASSUME GovernedInv, NEW c \in Callers, NEW admission, Reserve(c, admission)
  PROVE  GovernedInv'
<1>1. RowsInv'
  BY RowsStay DEF Reserve
<1>2. caller = [e \in Callers |-> caller[e]] /\ IsWhole(caller[c]) /\ caller[c].pc = "reserve"
  BY DEF Reserve, GovernedInv, CallsInv, CallsAreWhole
<1>3. RequestIsOf(caller[c])
  BY <1>2 DEF IsWhole, NoCall
<1>4. CASE admission = "admitted"
  <2>. DEFINE new == [caller[c] EXCEPT !.pc = "asked"]
  <2>1. caller' = [caller EXCEPT ![c] = new] /\ reserved' = reserved + 1
    BY <1>4 DEF Reserve
  <2>2. IsWhole(new)
    <3>1. /\ new.pc = "asked" /\ new.purpose = caller[c].purpose
          /\ new.subject = caller[c].subject /\ new.request = caller[c].request
      OBVIOUS
    <3>. QED
      BY <1>3, <3>1 DEF IsWhole, RequestIsOf
  <2>. QED
    BY <1>1, <2>1, <2>2, CallMoves DEF GovernedInv
<1>5. ASSUME NEW status \in {"QUOTA", "UNAVAILABLE"}, UNCHANGED reserved,
             caller' = [caller EXCEPT ![c] = Answered(caller[c], ProviderError(status), "none")]
      PROVE  GovernedInv'
  <2>. DEFINE new == Answered(caller[c], ProviderError(status), "none")
  <2>1. /\ new.pc = "answered" /\ new.purpose = caller[c].purpose
        /\ new.subject = caller[c].subject /\ new.request = caller[c].request
        /\ new.outcome.is = "LanguageProviderError" /\ new.outcome.status = status
    BY DEF Answered, ProviderError
  <2>. HIDE DEF new
  <2>2. IsWhole(new)
    BY <1>3, <2>1 DEF IsWhole, RequestIsOf, IsOutcome
  <2>3. caller' = [caller EXCEPT ![c] = new]
    BY <1>5 DEF new
  <2>. QED
    BY <1>1, <1>5, <2>1, <2>2, <2>3, CallMoves DEF GovernedInv
<1>. QED
  BY <1>4, <1>5 DEF Reserve

\* Whatever the SDK does, the call has an answer or an exception that goes with it.
LEMMA AskKeeps ==
  ASSUME GovernedInv, NEW c \in Callers, NEW reply, Ask(c, reply)
  PROVE  GovernedInv'
<1>1. RowsInv'
  BY RowsStay DEF Ask
<1>2. IsWhole(caller[c]) /\ caller[c].pc = "asked"
  BY DEF Ask, GovernedInv, CallsInv, CallsAreWhole
<1>3. RequestIsOf(caller[c])
  BY <1>2 DEF IsWhole, NoCall
<1>. DEFINE text == TextOf(reply)
            outcome == IF text.is = "answer" THEN ReadAnswer(caller[c].purpose, caller[c].request, text.value) ELSE text
            receipt == IF reply.closes THEN ReceiptStatus(reply) ELSE "RESERVED"
            new == Answered(caller[c], outcome, receipt)
<1>4. /\ caller' = [caller EXCEPT ![c] = new]
      /\ reserved' = IF reply.closes THEN reserved - 1 ELSE reserved
  BY DEF Ask
<1>5. /\ IsOutcome(caller[c].purpose, caller[c].request, outcome)
      /\ outcome.is = "answer" => receipt = "RESPONSE_RECEIVED"
  <2>1. CASE text = Answers(reply) /\ reply.closes /\ ReceiptStatus(reply) = "RESPONSE_RECEIVED"
    <3>1. outcome = ReadAnswer(caller[c].purpose, caller[c].request, reply)
      BY <2>1 DEF Answers
    <3>2. receipt = "RESPONSE_RECEIVED"
      BY <2>1, Zenon
    <3>. QED
      BY <1>3, <3>1, <3>2, AnswersAreRead DEF RequestIsOf
  <2>2. CASE /\ text.is = "LanguageProviderError" \/ text.is = "Exception"
             /\ text.status # "AVAILABLE"
    BY <2>2 DEF IsOutcome
  <2>. QED
    BY <2>1, <2>2, TextsAreClosed
<1>. HIDE DEF outcome, receipt
<1>6. /\ new.pc = "answered" /\ new.purpose = caller[c].purpose /\ new.subject = caller[c].subject
      /\ new.request = caller[c].request /\ new.outcome = outcome /\ new.receipt = receipt
  BY DEF Answered
<1>. HIDE DEF new
<1>7. IsWhole(new)
  BY <1>3, <1>5, <1>6 DEF IsWhole, RequestIsOf
<1>8. reserved' = reserved - 1 \/ reserved' = reserved
  BY <1>4, Zenon
<1>. QED
  BY <1>1, <1>2, <1>4, <1>6, <1>7, <1>8, CallMoves DEF GovernedInv
-----------------------------------------------------------------------------
\* Whoever asked goes on with what is whole.
LEMMA AnswerIsWhole ==
  ASSUME GovernedInv, NEW c \in Callers, caller[c].pc = "answered"
  PROVE  /\ RequestIsOf(caller[c])
         /\ IsOutcome(caller[c].purpose, caller[c].request, caller[c].outcome)
<1>1. IsWhole(caller[c])
  BY DEF GovernedInv, CallsInv, CallsAreWhole
<1>. QED
  BY <1>1 DEF IsWhole, NoCall

LEMMA FinishExplanationKeeps ==
  ASSUME GovernedInv, NEW c \in Callers, FinishExplanation(c)
  PROVE  GovernedInv'
<1>. DEFINE asking == caller[c]
            shown == IF asking.outcome.is = "answer"
                       THEN [content |-> "prose", evidence |-> asking.outcome.value.evidence, assisted |-> TRUE]
                       ELSE FallbackExplanation(asking.request)
<1>1. /\ asking.pc = "answered" /\ asking.purpose = "explanation"
      /\ SaveExplanation(asking.subject, asking.request, shown, asking.outcome.status)
      /\ CallEnds(c) /\ UNCHANGED <<finding, proposals, entity, written, drafted, reserved, ended>>
  BY DEF FinishExplanation, Finishes, StatusOf
<1>2. /\ asking.subject \in Kinds /\ NamesNoImport(asking.subject, asking.request)
      /\ IsOutcome("explanation", asking.request, asking.outcome)
  BY <1>1, AnswerIsWhole DEF RequestIsOf
<1>3. /\ shown.evidence \subseteq asking.request.evidence
      /\ shown.assisted <=> asking.outcome.status = "AVAILABLE"
      /\ ~shown.assisted => shown.content = asking.request.content
  <2>1. CASE asking.outcome.is = "answer"
    <3>1. shown = [content |-> "prose", evidence |-> asking.outcome.value.evidence, assisted |-> TRUE]
      BY <2>1
    <3>2. shown.evidence = asking.outcome.value.evidence /\ shown.assisted
      <4>1. \A e : LET s == [content |-> "prose", evidence |-> e, assisted |-> TRUE]
                   IN  s.evidence = e /\ s.assisted = TRUE
        OBVIOUS
      <4>. HIDE DEF shown
      <4>. QED
        BY <3>1, <4>1, Zenon
    <3>3. asking.outcome.status = "AVAILABLE" /\ asking.outcome.value.evidence \subseteq asking.request.evidence
      BY <1>2, <2>1 DEF IsOutcome, KeepsTo
    <3>. QED
      BY <3>2, <3>3, Zenon
  <2>2. CASE asking.outcome.is # "answer"
    <3>1. shown = FallbackExplanation(asking.request)
      BY <2>2
    <3>2. /\ shown.evidence = asking.request.evidence /\ shown.content = asking.request.content
          /\ ~shown.assisted
      BY <3>1, Zenon DEF FallbackExplanation
    <3>3. asking.outcome.status # "AVAILABLE"
      BY <1>2, <2>2 DEF IsOutcome
    <3>. QED
      BY <3>2, <3>3, Zenon
  <2>. QED
    BY <2>1, <2>2, Zenon
<1>. HIDE DEF shown
<1>4. RowsInv'
  BY <1>1, <1>2, <1>3, SavedExplanation
<1>. QED
  BY <1>1, <1>4, CallIsOver DEF GovernedInv

\* The proposal is kept under the subject's own candidates, and narrows it to some of them.
LEMMA FinishCandidateKeeps ==
  ASSUME GovernedInv, NEW c \in Callers, FinishCandidate(c)
  PROVE  GovernedInv'
<1>. DEFINE asking == caller[c]
            content == asking.subject
            value == asking.outcome.value
            keys == {ProposalKey(m) : m \in Mentions}
<1>1. /\ asking.pc = "answered" /\ asking.purpose = "candidate" /\ CallEnds(c)
      /\ UNCHANGED <<finding, explanation, written, drafted, reserved, ended>>
  BY DEF FinishCandidate, Finishes
<1>2. /\ content \in Mentions /\ asking.request.candidates = CandidatesOf(content)
      /\ IsOutcome("candidate", asking.request, asking.outcome)
  BY <1>1, AnswerIsWhole DEF RequestIsOf
<1>3. proposals = [key \in keys |-> proposals[key]] /\ ProposalsRest
  BY DEF GovernedInv, RowsInv
<1>4. CASE /\ asking.outcome.is = "answer"
           /\ proposals' = [proposals EXCEPT ![ProposalKey(content)] = [kept |-> TRUE, proposal |-> value]]
           /\ entity' = [entity EXCEPT ![content] = Narrowed(content, value, FALSE)]
  <2>1. value.proposed \subseteq CandidatesOf(content) /\ value.ranked \subseteq CandidatesOf(content)
    BY <1>2, <1>4 DEF IsOutcome, KeepsTo
  <2>2. /\ proposals' = [key \in keys |-> proposals'[key]]
        /\ proposals'[ProposalKey(content)].proposal = value
        /\ \A key \in keys \ {ProposalKey(content)} : proposals'[key] = proposals[key]
    BY <1>2, <1>3, <1>4
  <2>3. ASSUME NEW m \in Mentions, proposals'[ProposalKey(m)].kept
        PROVE  /\ proposals'[ProposalKey(m)].proposal.proposed \subseteq CandidatesOf(m)
               /\ proposals'[ProposalKey(m)].proposal.ranked \subseteq CandidatesOf(m)
    <3>1. CASE ProposalKey(m) = ProposalKey(content)
      <4>1. CandidatesOf(m) = CandidatesOf(content)
        BY <3>1 DEF ProposalKey
      <4>. QED
        BY <2>1, <2>2, <3>1, <4>1
    <3>2. CASE ProposalKey(m) # ProposalKey(content)
      <4>1. proposals'[ProposalKey(m)] = proposals[ProposalKey(m)]
        BY <2>2, <3>2
      <4>2. proposals[ProposalKey(m)].kept
        BY <2>3, <4>1, Zenon
      <4>. QED
        BY <1>3, <4>1, <4>2, Zenon DEF ProposalsRest
    <3>. QED
      BY <3>1, <3>2
  <2>4. ProposalsRest'
    BY <2>3, Zenon DEF ProposalsRest
  <2>5. /\ Narrowed(content, value, FALSE).candidates \subseteq CandidatesOf(content)
        /\ Narrowed(content, value, FALSE).state = "RESOLVED" => MentionOf[content].state = "RESOLVED"
    BY <1>2, <2>1, NarrowedRests
  <2>. HIDE DEF content, value
  <2>6. RowsInv'
    BY <1>1, <1>2, <1>4, <2>2, <2>4, <2>5, SubjectKept
  <2>. QED
    BY <1>1, <2>6, CallIsOver DEF GovernedInv
<1>5. CASE entity' = [entity EXCEPT ![content] = MentionOf[content]] /\ UNCHANGED proposals
  <2>1. ProposalsRest'
    BY <1>3, <1>5 DEF ProposalsRest
  <2>2. MentionOf[content].candidates \subseteq CandidatesOf(content)
    BY <1>2, NormalisedRests
  <2>. HIDE DEF content
  <2>3. RowsInv'
    BY <1>1, <1>2, <1>3, <1>5, <2>1, <2>2, SubjectKept
  <2>. QED
    BY <1>1, <2>3, CallIsOver DEF GovernedInv
<1>. QED
  BY <1>4, <1>5 DEF FinishCandidate

LEMMA FinishTechnicalKeeps ==
  ASSUME GovernedInv, NEW c \in Callers, FinishTechnical(c)
  PROVE  GovernedInv'
<1>1. /\ CallEnds(c) /\ UNCHANGED <<finding, explanation, proposals, entity, written, drafted, reserved>>
      /\ ended' = ended \/ ended' = ended \cup {<<"merge", "ValueError">>}
  BY DEF FinishTechnical
<1>2. FallsBack'
  BY <1>1 DEF GovernedInv, RowsInv, FallsBack
<1>3. RowsInv'
  BY <1>1, <1>2 DEF GovernedInv, RowsInv, ExplanationsRest, ProposalsRest, EntitiesRest, TextsRest
<1>. QED
  BY <1>1, <1>3, CallIsOver DEF GovernedInv

\* A brief and a draft cite what was sent, or what they began with.
LEMMA FinishBriefKeeps ==
  ASSUME GovernedInv, NEW c \in Callers, FinishBrief(c)
  PROVE  GovernedInv'
<1>1. /\ caller[c].pc = "answered" /\ caller[c].purpose = "brief" /\ CallEnds(c)
      /\ UNCHANGED <<finding, explanation, proposals, entity, drafted, reserved, ended>>
  BY DEF FinishBrief, Finishes
<1>2. caller[c].request.evidence = PublicEvidence /\ IsOutcome("brief", caller[c].request, caller[c].outcome)
  BY <1>1, AnswerIsWhole DEF RequestIsOf
<1>3. written'.evidence \subseteq PublicEvidence
  <2>1. CASE caller[c].outcome.is = "answer"
    <3>1. caller[c].outcome.value.evidence \subseteq PublicEvidence
      BY <1>2, <2>1 DEF IsOutcome, KeepsTo
    <3>. QED
      BY <2>1, <3>1 DEF FinishBrief
  <2>2. CASE caller[c].outcome.is # "answer"
    BY <2>2 DEF FinishBrief
  <2>. QED
    BY <2>1, <2>2
<1>4. TextsRest'
  BY <1>1, <1>3 DEF GovernedInv, RowsInv, TextsRest
<1>5. RowsInv'
  BY <1>1, <1>4 DEF GovernedInv, RowsInv, ExplanationsRest, ProposalsRest, EntitiesRest, FallsBack
<1>. QED
  BY <1>1, <1>5, CallIsOver DEF GovernedInv

LEMMA FinishDraftKeeps ==
  ASSUME GovernedInv, NEW c \in Callers, FinishDraft(c)
  PROVE  GovernedInv'
<1>1. /\ caller[c].pc = "answered" /\ caller[c].purpose = "draft" /\ CallEnds(c)
      /\ UNCHANGED <<finding, explanation, proposals, entity, written, reserved, ended>>
  BY DEF FinishDraft, Finishes
<1>2. caller[c].request.evidence = DraftEvidence /\ IsOutcome("draft", caller[c].request, caller[c].outcome)
  BY <1>1, AnswerIsWhole DEF RequestIsOf
<1>3. drafted' = drafted \/ drafted'.evidence \subseteq DraftEvidence
  <2>1. CASE caller[c].outcome.is = "answer"
    <3>1. caller[c].outcome.value.evidence \subseteq DraftEvidence
      BY <1>2, <2>1 DEF IsOutcome, KeepsTo
    <3>. QED
      BY <2>1, <3>1 DEF FinishDraft
  <2>2. CASE caller[c].outcome.is # "answer"
    BY <2>2 DEF FinishDraft
  <2>. QED
    BY <2>1, <2>2
<1>4. TextsRest'
  <2>1. /\ written'.kept => written'.evidence \subseteq PublicEvidence
        /\ drafted.kept => drafted.evidence \subseteq DraftEvidence
    BY <1>1, Zenon DEF GovernedInv, RowsInv, TextsRest
  <2>. QED
    BY <1>3, <2>1, Zenon DEF TextsRest
<1>5. RowsInv'
  BY <1>1, <1>4 DEF GovernedInv, RowsInv, ExplanationsRest, ProposalsRest, EntitiesRest, FallsBack
<1>. QED
  BY <1>1, <1>5, CallIsOver DEF GovernedInv

\* What nobody is prepared for: an exception of the SDK, or a decomposition's TypeError.
LEMMA FinishUncaughtKeeps ==
  ASSUME GovernedInv, NEW c \in Callers, FinishUncaught(c)
  PROVE  GovernedInv'
<1>1. /\ caller[c].pc = "answered" /\ ~IsCaught(c) /\ CallEnds(c)
      /\ ended' = ended \cup {<<caller[c].purpose, caller[c].outcome.is>>}
      /\ UNCHANGED <<finding, explanation, proposals, entity, written, drafted, reserved>>
  BY DEF FinishUncaught
<1>2. /\ caller[c].purpose \in Purposes
      /\ IsOutcome(caller[c].purpose, caller[c].request, caller[c].outcome)
  BY <1>1, AnswerIsWhole DEF RequestIsOf
<1>3. \/ caller[c].outcome.is = "Exception"
      \/ caller[c].purpose = "technical" /\ caller[c].outcome.is = "TypeError"
  BY <1>1, <1>2 DEF IsCaught, Catches, IsOutcome
<1>4. FallsBack'
  BY <1>1, <1>3 DEF GovernedInv, RowsInv, FallsBack
<1>5. RowsInv'
  BY <1>1, <1>4 DEF GovernedInv, RowsInv, ExplanationsRest, ProposalsRest, EntitiesRest, TextsRest
<1>. QED
  BY <1>1, <1>5, CallIsOver DEF GovernedInv

-----------------------------------------------------------------------------
LEMMA InitGoverned == GovernedInit => GovernedInv
<1>. SUFFICES ASSUME GovernedInit PROVE GovernedInv
  OBVIOUS
<1>1. CallsInv
  <2>1. caller = [c \in Callers |-> NoCall] /\ reserved = 0
    BY DEF GovernedInit
  <2>2. CallsAreWhole /\ Asked = {}
    BY <2>1 DEF CallsAreWhole, IsWhole, Asked, NoCall
  <2>. QED
    BY <2>1, <2>2, FS_EmptySet DEF CallsInv, ReceiptsCount
<1>2. ExplanationsRest
  <2>1. \A kind \in Kinds : ~explanation[kind].kept
    BY Zenon DEF GovernedInit, NotKept
  <2>. QED
    BY <2>1, Zenon DEF ExplanationsRest
<1>3. ProposalsRest
  <2>1. \A content \in Mentions : proposals[ProposalKey(content)] = NotKept
    BY DEF GovernedInit
  <2>2. ~NotKept.kept
    BY Zenon DEF NotKept
  <2>. QED
    BY <2>1, <2>2, Zenon DEF ProposalsRest
<1>4. EntitiesRest
  BY NormalisedRests DEF GovernedInit, EntitiesRest
<1>5. TextsRest /\ FallsBack
  <2>1. written = NotKept /\ drafted = NotKept /\ ended = {}
    BY DEF GovernedInit
  <2>2. ~NotKept.kept
    BY Zenon DEF NotKept
  <2>. QED
    BY <2>1, <2>2, Zenon DEF TextsRest, FallsBack
<1>6. /\ finding \in [Kinds -> Findings]
      /\ explanation = [kind \in Kinds |-> explanation[kind]]
      /\ proposals = [key \in {ProposalKey(content) : content \in Mentions} |-> proposals[key]]
      /\ entity = [content \in Mentions |-> entity[content]]
  BY GovernedAssumption DEF GovernedInit
<1>. QED
  BY <1>1, <1>2, <1>3, <1>4, <1>5, <1>6 DEF GovernedInv, RowsInv

LEMMA NextGoverned == GovernedInv /\ [GovernedNext]_governedVars => GovernedInv'
<1>. SUFFICES ASSUME GovernedInv, [GovernedNext]_governedVars PROVE GovernedInv'
  OBVIOUS
<1>1. CASE UNCHANGED governedVars
  BY <1>1, RowsStay, CallsStay DEF governedVars, GovernedInv
<1>2. ASSUME NEW c \in Callers, CallerDies(c)
      PROVE  GovernedInv'
  BY <1>2, RowsStay, CallIsOver DEF CallerDies, GovernedInv
<1>3. ASSUME NEW kind \in Kinds, NEW result \in Findings, FoundAnew(kind, result)
      PROVE  GovernedInv'
  <2>1. /\ finding' = [finding EXCEPT ![kind] = result]
        /\ UNCHANGED <<explanation, proposals, entity, written, drafted, ended, caller, reserved>>
    BY <1>3 DEF FoundAnew
  <2>2. finding' \in [Kinds -> Findings]
    BY <2>1 DEF GovernedInv, RowsInv
  <2>3. RowsInv'
    BY <2>1, <2>2
    DEF GovernedInv, RowsInv, ExplanationsRest, ProposalsRest, EntitiesRest, TextsRest, FallsBack
  <2>. QED
    BY <2>1, <2>3, CallsStay DEF GovernedInv
<1>4. CASE DraftSaved \/ ProviderConfigured \/ GovernedTick
  <2>1. UNCHANGED <<finding, explanation, proposals, entity, written, drafted, ended, caller, reserved>>
    BY <1>4 DEF DraftSaved, ProviderConfigured, GovernedTick
  <2>. QED
    BY <2>1, RowsStay, CallsStay DEF GovernedInv
<1>. QED
  BY <1>1, <1>2, <1>3, <1>4, ExplanationBegins, CandidateBegins, OthersBegin, ReserveKeeps, AskKeeps,
     FinishExplanationKeeps, FinishCandidateKeeps, FinishTechnicalKeeps, FinishBriefKeeps, FinishDraftKeeps,
     FinishUncaughtKeeps
  DEF GovernedNext

LEMMA GovernedInvHolds == GovernedSpec => []GovernedInv
BY InitGoverned, NextGoverned, PTL DEF GovernedSpec

\* Whatever the provider answers, whatever becomes of the receipt, of the callers and of the
\* results meanwhile: what is kept rests on what was sent, an imported route is never sent,
\* nobody is resolved by an answer, and but for what is named nothing ends a cycle or a request.
THEOREM AnswersStayGoverned == GovernedSpec => []AnswersAreGoverned
<1>1. GovernedInv => AnswersAreGoverned
  <2>. SUFFICES ASSUME GovernedInv PROVE AnswersAreGoverned
    OBVIOUS
  <2>1. FallsBack
    BY DEF GovernedInv, RowsInv
  <2>2. ResolvesNobody
    BY DEF GovernedInv, RowsInv, EntitiesRest, ResolvesNobody
  <2>3. RestsOnItsRequest
    <3>1. ASSUME NEW kind \in Kinds, explanation[kind].kept
          PROVE  /\ explanation[kind].shown.evidence \subseteq explanation[kind].key.evidence
                 /\ explanation[kind].shown.assisted <=> explanation[kind].status = "AVAILABLE"
                 /\ ~explanation[kind].shown.assisted =>
                      explanation[kind].shown.content = explanation[kind].key.content
                 /\ \A result \in Findings : result.imported /\ kind = "route"
                      => explanation[kind].key.content # result.content
      BY <3>1, Zenon DEF GovernedInv, RowsInv, ExplanationsRest, NamesNoImport
    <3>2. \A content \in Mentions : entity[content].candidates \subseteq CandidatesOf(content)
      BY DEF GovernedInv, RowsInv, EntitiesRest
    <3>3. /\ written.kept => written.evidence \subseteq PublicEvidence
          /\ drafted.kept => drafted.evidence \subseteq DraftEvidence
      BY Zenon DEF GovernedInv, RowsInv, TextsRest
    <3>4. ASSUME NEW c \in Callers, caller[c].pc = "answered", caller[c].outcome.is = "answer"
          PROVE  caller[c].receipt = "RESPONSE_RECEIVED"
      <4>1. IsWhole(caller[c])
        BY DEF GovernedInv, CallsInv, CallsAreWhole
      <4>. QED
        BY <3>4, <4>1 DEF IsWhole, NoCall
    <3>5. Cardinality({c \in Callers : caller[c].pc = "asked"}) <= reserved
      BY DEF GovernedInv, CallsInv, ReceiptsCount, Asked
    <3>. QED
      BY <3>1, <3>2, <3>3, <3>4, <3>5, Zenon DEF RestsOnItsRequest
  <2>. QED
    BY <2>1, <2>2, <2>3 DEF AnswersAreGoverned
<1>. QED
  BY <1>1, GovernedInvHolds, PTL

-----------------------------------------------------------------------------
(***************************************************************************)
(* The pages of federal notices.                                           *)
(***************************************************************************)
\* What may be assessed, and the rows that keep it.
AssessmentsThereAre ==
  {Assessment(x, given, env, partners) :
     x \in NoticeContents, given \in AwardSets, env \in Environments, partners \in Partners}

Revisions == {InputRevision(a) : a \in AssessmentsThereAre}
KeptRows == [version : Nat, revision : Revisions, assessment : AssessmentsThereAre]
NoRow == [version |-> 0, revision |-> NoRevision]

\* A call, wherever it is.
FederalCalls ==
  [pc : {"idle", "read", "compared", "assessing"},
   notices : [Notices -> NoticeContents] \cup {<<>>}, awards : AwardSets \cup {{}},
   partnerships : Partners \cup {{}}, persisted : [Notices -> KeptRows \cup {NoRow}] \cup {<<>>},
   environment : Environments \cup {<<>>}, todo : SUBSET Notices,
   shown : SUBSET [notice : Notices, version : Nat, assessment : AssessmentsThereAre]]

FederalTypes ==
  /\ day \in Nat /\ notices \in [Notices -> NoticeContents]
  /\ awards \in AwardSets /\ environment \in Environments /\ partnerships \in Partners
  /\ kept \in [Notices -> Seq(KeptRows)]
  /\ projection \in [Projections -> FederalCalls]

\* The rows of a notice are numbered, and each has the inputs of its assessment.
RowsAreHonest ==
  \A n \in Notices : \A i \in DOMAIN kept[n] :
    kept[n][i].version = i /\ kept[n][i].revision = InputRevision(kept[n][i].assessment)

OnRecord(n, row) == row.version \in DOMAIN kept[n] /\ kept[n][row.version] = row

\* What a call has read when it is where it is.
HasRead(p) ==
  /\ p.pc # "idle" => p.notices \in [Notices -> NoticeContents] /\ p.awards \in AwardSets
  /\ p.pc \in {"compared", "assessing"} =>
       /\ p.partnerships \in Partners
       /\ p.persisted \in [Notices -> KeptRows \cup {NoRow}]
       /\ \A n \in Notices : p.persisted[n] = NoRow \/ OnRecord(n, p.persisted[n])
  /\ p.pc = "assessing" => p.environment \in Environments
  /\ p.pc # "assessing" => p.shown = {}

CallsHaveRead == \A c \in Projections : HasRead(projection[c])

\* ShownAsKept is not inductive: a row that is shown has to be there to stay.
ShownOnRecord ==
  \A c \in Projections : \A s \in projection[c].shown :
    /\ s.notice \in Notices /\ s.version \in DOMAIN kept[s.notice]
    /\ s.assessment = Built(c, s.notice)
    /\ kept[s.notice][s.version].assessment = s.assessment

FederalInv == FederalTypes /\ RowsAreHonest /\ CallsHaveRead /\ ShownOnRecord

-----------------------------------------------------------------------------
\* A set of numbers has a least one: of the intervals that end in it, one is the least.
LEMMA LeastThereIs ==
  ASSUME NEW S \in SUBSET Nat, S # {}
  PROVE  \E x \in S : \A y \in S : x <= y
<1>. DEFINE Up(n) == 0..n
            Ups == {Up(n) : n \in S}
<1>1. Ups \subseteq FiniteSubsetsOf(Nat)
  <2>1. \A n \in S : Up(n) \in SUBSET Nat /\ IsFiniteSet(Up(n))
    BY FS_Interval
  <2>. QED
    BY <2>1 DEF FiniteSubsetsOf
<1>2. PICK n \in S : \A m \in S : <<Up(m), Up(n)>> \notin StrictSubsetOrdering(Nat)
  <2>1. Ups # {}
    OBVIOUS
  <2>2. \E x \in Ups : \A y \in Ups : <<y, x>> \notin StrictSubsetOrdering(Nat)
    <3>. HIDE DEF Ups
    <3>. QED
      BY <1>1, <2>1, WFMin, FS_StrictSubsetOrderingWellFounded
  <2>. QED
    BY <2>2
<1>3. ASSUME NEW m \in S, m < n
      PROVE  FALSE
  <2>1. n \in Nat /\ m \in Nat
    OBVIOUS
  <2>2. /\ Up(m) \subseteq Up(n) /\ n \in Up(n) /\ n \notin Up(m)
        /\ Up(m) \in SUBSET Nat /\ Up(n) \in SUBSET Nat
    BY <1>3, <2>1
  <2>3. <<Up(m), Up(n)>> \in StrictSubsetOrdering(Nat)
    <3>. HIDE DEF Up
    <3>. QED
      BY <2>2 DEF StrictSubsetOrdering
  <2>. QED
    BY <1>2, <2>3
<1>4. \A m \in S : n <= m
  BY <1>3
<1>. QED
  BY <1>4

LEMMA LeastIsIn ==
  ASSUME NEW S \in SUBSET Nat, S # {}
  PROVE  Min(S) \in S
BY LeastThereIs DEF Min

\* Bounded scores have a best one.
LEMMA BestIsIn ==
  ASSUME NEW S \in SUBSET (0..100), S # {}
  PROVE  Max(S) \in S
<1>. DEFINE down == {100 - x : x \in S}
<1>1. down \in SUBSET Nat /\ down # {}
  <2>1. \A x \in S : x \in 0..100
    OBVIOUS
  <2>2. \A x \in S : 100 - x \in Nat
    BY <2>1
  <2>. QED
    BY <2>2
<1>2. PICK d \in down : \A e \in down : d <= e
  <2>. HIDE DEF down
  <2>. QED
    BY <1>1, LeastThereIs
<1>3. PICK x \in S : d = 100 - x
  OBVIOUS
<1>4. ASSUME NEW y \in S
      PROVE  x >= y
  <2>1. 100 - y \in down
    OBVIOUS
  <2>2. 100 - x <= 100 - y
    BY <1>2, <1>3, <2>1
  <2>3. x \in 0..100 /\ y \in 0..100
    OBVIOUS
  <2>. QED
    BY <2>2, <2>3
<1>. QED
  BY <1>4 DEF Max

-----------------------------------------------------------------------------
LEMMA AssessmentIsOf ==
  ASSUME NEW a \in AssessmentsThereAre
  PROVE  \E x \in NoticeContents, given \in AwardSets, env \in Environments, partners \in Partners :
           a = Assessment(x, given, env, partners)
BY DEF AssessmentsThereAre

LEMMA RevisionTellsAssessments ==
  ASSUME NEW a \in AssessmentsThereAre, NEW b \in AssessmentsThereAre,
         InputRevision(a) = InputRevision(b)
  PROVE  a = b
<1>1. ASSUME NEW c \in AssessmentsThereAre
      PROVE  c = [source |-> c.source, stage |-> StageOf(c.source), technical |-> c.technical,
                  durability |-> c.durability, routes |-> c.routes]
  <2>1. PICK x \in NoticeContents, given \in AwardSets, env \in Environments, partners \in Partners :
          c = Assessment(x, given, env, partners)
    BY AssessmentIsOf
  <2>2. /\ c.source = x /\ c.stage = StageOf(x)
        /\ c = [source |-> c.source, stage |-> c.stage, technical |-> c.technical,
                durability |-> c.durability, routes |-> c.routes]
    BY <2>1 DEF Assessment
  <2>. QED
    BY <2>2
<1>2. a.source = b.source /\ a.technical = b.technical /\ a.durability = b.durability
      /\ a.routes = b.routes
  BY DEF InputRevision
<1>3. StageOf(a.source) = StageOf(b.source)
  BY <1>2
<1>4. a = [source |-> a.source, stage |-> StageOf(a.source), technical |-> a.technical,
           durability |-> a.durability, routes |-> a.routes]
  BY <1>1, Zenon
<1>5. b = [source |-> b.source, stage |-> StageOf(b.source), technical |-> b.technical,
           durability |-> b.durability, routes |-> b.routes]
  BY <1>1, Zenon
<1>. QED
  BY <1>2, <1>3, <1>4, <1>5, Zenon

LEMMA RevisionsAreNotNone ==
  ASSUME NEW a
  PROVE  InputRevision(a) # NoRevision
<1>1. "routes" \in DOMAIN InputRevision(a) /\ "routes" \notin DOMAIN NoRevision
  BY DEF InputRevision, NoRevision
<1>. QED
  BY <1>1

\* The current row of a notice is the last one, and on record.
LEMMA CurrentIsOnRecord ==
  ASSUME FederalTypes, RowsAreHonest, NEW n \in Notices
  PROVE  /\ CurrentAssessment(n).version = Len(kept[n])
         /\ \/ kept[n] = <<>> /\ CurrentAssessment(n) = NoRow
            \/ /\ kept[n] # <<>> /\ CurrentAssessment(n) \in KeptRows
               /\ CurrentAssessment(n).revision = InputRevision(CurrentAssessment(n).assessment)
               /\ OnRecord(n, CurrentAssessment(n))
<1>1. kept[n] \in Seq(KeptRows)
  BY DEF FederalTypes
<1>2. CASE kept[n] = <<>>
  BY <1>2 DEF CurrentAssessment, NoRow
<1>3. CASE kept[n] # <<>>
  <2>1. CurrentAssessment(n) = kept[n][Len(kept[n])]
    BY <1>3 DEF CurrentAssessment
  <2>2. Len(kept[n]) \in DOMAIN kept[n] /\ kept[n][Len(kept[n])] \in KeptRows
    BY <1>1, <1>3
  <2>. QED
    BY <1>3, <2>1, <2>2 DEF RowsAreHonest, OnRecord
<1>. QED
  BY <1>2, <1>3

LEMMA FederalStarts == FederalInit => FederalInv
<1>. SUFFICES ASSUME FederalInit PROVE FederalInv
  OBVIOUS
<1>1. NotProjecting \in FederalCalls /\ HasRead(NotProjecting) /\ NotProjecting.shown = {}
  BY DEF NotProjecting, FederalCalls, HasRead
<1>2. FederalTypes
  BY <1>1 DEF FederalInit, FederalTypes
<1>3. RowsAreHonest
  BY DEF FederalInit, RowsAreHonest
<1>. QED
  BY <1>1, <1>2, <1>3 DEF FederalInit, FederalInv, CallsHaveRead, ShownOnRecord

\* A step that changes one call, and no row.
LEMMA CallKeepsFederal ==
  ASSUME FederalInv, NEW c \in Projections, NEW p \in FederalCalls,
         projection' = [projection EXCEPT ![c] = p],
         UNCHANGED <<day, notices, awards, environment, partnerships, kept>>,
         HasRead(p), ShownOnRecord'
  PROVE  FederalInv'
<1>1. FederalTypes' /\ RowsAreHonest'
  BY DEF FederalInv, FederalTypes, RowsAreHonest
<1>2. \A d \in Projections : HasRead(projection[d])'
  <2>. SUFFICES ASSUME NEW d \in Projections PROVE HasRead(projection[d])'
    OBVIOUS
  <2>1. HasRead(projection'[d])
    BY DEF FederalInv, FederalTypes, CallsHaveRead
  <2>. QED
    BY <2>1 DEF HasRead, OnRecord
<1>. QED
  BY <1>1, <1>2 DEF FederalInv, CallsHaveRead

\* What a call builds of what it has read.
LEMMA BuiltIsAssessment ==
  ASSUME FederalInv, NEW c \in Projections, projection[c].pc = "assessing", NEW n \in Notices
  PROVE  Built(c, n) \in AssessmentsThereAre
<1>. DEFINE p == projection[c]
<1>1. /\ p.notices[n] \in NoticeContents /\ p.awards \in AwardSets
      /\ p.environment \in Environments /\ p.partnerships \in Partners
  BY DEF FederalInv, CallsHaveRead, HasRead
<1>2. \A x \in NoticeContents, given \in AwardSets, env \in Environments, partners \in Partners :
        Assessment(x, given, env, partners) \in AssessmentsThereAre
  BY DEF AssessmentsThereAre
<1>. QED
  BY <1>1, <1>2 DEF Built

LEMMA NextIsNotice ==
  ASSUME FederalInv, NEW c \in Projections, projection[c].todo # {}
  PROVE  NextNotice(c) \in Notices
<1>1. projection[c].todo \in SUBSET Notices /\ Notices \subseteq Nat
  BY FederalAssumption DEF FederalInv, FederalTypes, FederalCalls
<1>. QED
  BY <1>1, LeastIsIn DEF NextNotice

\* A call shows a row that is on record and has what the call has built; rows are only added.
LEMMA ShowingKeepsFederal ==
  ASSUME FederalInv, NEW c \in Projections, projection[c].pc = "assessing",
         NEW n \in Notices, NEW row \in KeptRows, Shows(c, n, row),
         row.assessment = Built(c, n), OnRecord(n, row)',
         UNCHANGED <<day, notices, awards, environment, partnerships>>,
         kept' \in [Notices -> Seq(KeptRows)], RowsAreHonest',
         \A m \in Notices : \A i \in DOMAIN kept[m] : i \in DOMAIN kept'[m] /\ kept'[m][i] = kept[m][i]
  PROVE  FederalInv'
<1>. DEFINE s == [notice |-> n, version |-> row.version, assessment |-> row.assessment]
            p == [projection[c] EXCEPT !.todo = @ \ {n}, !.shown = @ \cup {s}]
<1>1. projection \in [Projections -> FederalCalls] /\ projection[c] \in FederalCalls
  BY DEF FederalInv, FederalTypes
<1>2. s \in [notice : Notices, version : Nat, assessment : AssessmentsThereAre]
  BY DEF KeptRows
<1>3. projection' = [projection EXCEPT ![c] = p]
  BY <1>1 DEF Shows
<1>4. p \in FederalCalls
  <2>. HIDE DEF s
  <2>. QED
    BY <1>1, <1>2 DEF FederalCalls
<1>5. /\ p.pc = "assessing" /\ p.notices = projection[c].notices /\ p.awards = projection[c].awards
      /\ p.partnerships = projection[c].partnerships /\ p.persisted = projection[c].persisted
      /\ p.environment = projection[c].environment /\ p.shown = projection[c].shown \cup {s}
  BY <1>1 DEF FederalCalls
<1>. HIDE DEF p
<1>6. \A d \in Projections :
        /\ projection'[d].pc = projection[d].pc
        /\ projection'[d].notices = projection[d].notices
        /\ projection'[d].awards = projection[d].awards
        /\ projection'[d].environment = projection[d].environment
        /\ projection'[d].partnerships = projection[d].partnerships
        /\ projection'[d].persisted = projection[d].persisted
        /\ projection'[d].shown = IF d = c THEN projection[d].shown \cup {s} ELSE projection[d].shown
  BY <1>1, <1>3, <1>5
<1>7. FederalTypes'
  BY <1>1, <1>3, <1>4 DEF FederalInv, FederalTypes
<1>8. CallsHaveRead'
  <2>. SUFFICES ASSUME NEW d \in Projections PROVE HasRead(projection[d])'
    BY DEF CallsHaveRead
  <2>1. HasRead(projection[d])
    BY DEF FederalInv, CallsHaveRead
  <2>2. \A m \in Notices : \A r : OnRecord(m, r) => OnRecord(m, r)'
    BY DEF OnRecord
  <2>. QED
    BY <1>6, <2>1, <2>2 DEF HasRead
<1>9. ShownOnRecord'
  <2>. SUFFICES ASSUME NEW d \in Projections, NEW t \in projection'[d].shown
                PROVE  /\ t.notice \in Notices /\ t.version \in DOMAIN kept'[t.notice]
                       /\ t.assessment = Built(d, t.notice)'
                       /\ kept'[t.notice][t.version].assessment = t.assessment
    BY DEF ShownOnRecord
  <2>1. \A m : Built(d, m)' = Built(d, m)
    BY <1>6 DEF Built
  <2>2. CASE t \in projection[d].shown
    BY <2>1, <2>2 DEF FederalInv, ShownOnRecord
  <2>3. CASE d = c /\ t = s
    BY <2>1, <2>3 DEF OnRecord
  <2>. QED
    BY <1>6, <2>2, <2>3
<1>. QED
  BY <1>7, <1>8, <1>9 DEF FederalInv

LEMMA AssessingKeepsFederal ==
  ASSUME FederalInv, NEW c \in Projections, KeepsRow(c) \/ PersistAssessment(c)
  PROVE  FederalInv'
<1>. DEFINE p == projection[c]
<1>1. /\ p.pc = "assessing" /\ NextNotice(c) \in Notices
      /\ UNCHANGED <<day, notices, awards, environment, partnerships>>
  BY NextIsNotice DEF KeepsRow, PersistAssessment
<1>2. PICK n \in Notices : n = NextNotice(c)
  BY <1>1
<1>. DEFINE inputs == InputRevision(Built(c, n))
<1>3. Built(c, n) \in AssessmentsThereAre
  BY <1>1, <1>2, BuiltIsAssessment
<1>4. kept \in [Notices -> Seq(KeptRows)] /\ RowsAreHonest
  BY DEF FederalInv, FederalTypes
<1>5. ASSUME NEW row, OnRecord(n, row), row.revision = inputs, Shows(c, n, row), kept' = kept
      PROVE  FederalInv'
  <2>1. row \in KeptRows /\ row.revision = InputRevision(row.assessment)
    BY <1>1, <1>4, <1>5 DEF OnRecord, RowsAreHonest
  <2>2. row.assessment \in AssessmentsThereAre
    BY <2>1 DEF KeptRows
  <2>3. row.assessment = Built(c, n)
    BY <1>3, <1>5, <2>1, <2>2, RevisionTellsAssessments
  <2>4. OnRecord(n, row)' /\ RowsAreHonest'
    BY <1>4, <1>5 DEF OnRecord, RowsAreHonest
  <2>. QED
    BY <1>1, <1>4, <1>5, <2>1, <2>3, <2>4, ShowingKeepsFederal
<1>6. CASE KeepsRow(c)
  <2>1. /\ p.persisted[n].revision = inputs /\ Shows(c, n, p.persisted[n]) /\ kept' = kept
    BY <1>6, <1>2 DEF KeepsRow
  <2>2. p.persisted[n] = NoRow \/ OnRecord(n, p.persisted[n])
    BY <1>1 DEF FederalInv, CallsHaveRead, HasRead
  <2>3. p.persisted[n] # NoRow
    BY <2>1, RevisionsAreNotNone DEF NoRow
  <2>. QED
    BY <1>5, <2>1, <2>2, <2>3
<1>7. CASE PersistAssessment(c)
  <2>. DEFINE new == [version |-> CurrentAssessment(n).version + 1, revision |-> inputs,
                      assessment |-> Built(c, n)]
  <2>1. CASE CurrentAssessment(n).revision = inputs
    <3>1. Shows(c, n, CurrentAssessment(n)) /\ kept' = kept
      BY <1>7, <1>2, <2>1 DEF PersistAssessment
    <3>2. CurrentAssessment(n) # NoRow
      BY <2>1, RevisionsAreNotNone DEF NoRow
    <3>. QED
      BY <1>1, <1>5, <2>1, <3>1, <3>2, CurrentIsOnRecord DEF FederalInv
  <2>2. CASE CurrentAssessment(n).revision # inputs
    <3>1. Shows(c, n, new) /\ kept' = [kept EXCEPT ![n] = Append(@, new)]
      BY <1>7, <1>2, <2>2 DEF PersistAssessment
    <3>2. new.version = Len(kept[n]) + 1 /\ kept[n] \in Seq(KeptRows)
      BY <1>1, <1>4, CurrentIsOnRecord DEF FederalInv
    <3>3. PICK row \in KeptRows : row = new
      <4>1. inputs \in Revisions
        BY <1>3 DEF Revisions
      <4>2. new \in KeptRows
        BY <1>3, <3>2, <4>1 DEF KeptRows
      <4>. QED
        BY <4>2
    <3>4. /\ row.revision = InputRevision(row.assessment) /\ row.assessment = Built(c, n)
          /\ row.version = Len(kept[n]) + 1
      BY <3>2, <3>3
    <3>. HIDE DEF new
    <3>5. /\ kept' \in [Notices -> Seq(KeptRows)]
          /\ \A m \in Notices : \A i \in DOMAIN kept[m] : i \in DOMAIN kept'[m] /\ kept'[m][i] = kept[m][i]
          /\ \A m \in Notices : \A i \in DOMAIN kept'[m] :
               i \in DOMAIN kept[m] \/ (m = n /\ i = row.version)
          /\ row.version \in DOMAIN kept'[n] /\ kept'[n][row.version] = row
      BY <1>4, <3>1, <3>2, <3>3, <3>4
    <3>6. RowsAreHonest' /\ OnRecord(n, row)'
      BY <1>4, <3>3, <3>4, <3>5 DEF RowsAreHonest, OnRecord
    <3>. QED
      BY <1>1, <3>1, <3>3, <3>4, <3>5, <3>6, ShowingKeepsFederal
  <2>. QED
    BY <2>1, <2>2
<1>. QED
  BY <1>6, <1>7

\* The other steps of a call: it reads, or it ends.
LEMMA ReadingKeepsFederal ==
  ASSUME FederalInv, NEW c \in Projections,
         BeginProjection(c) \/ ReadKept(c) \/ ReadEnvironment(c) \/ EndProjection(c)
  PROVE  FederalInv'
<1>. DEFINE p == projection[c]
<1>1. /\ projection \in [Projections -> FederalCalls] /\ p \in FederalCalls /\ HasRead(p)
      /\ UNCHANGED <<day, notices, awards, environment, partnerships, kept>>
  BY DEF FederalInv, FederalTypes, CallsHaveRead, BeginProjection, ReadKept, ReadEnvironment,
         EndProjection
\* What was not assessing shows nothing, and what the others show stays as it is.
<1>2. ASSUME NEW q \in FederalCalls, projection' = [projection EXCEPT ![c] = q],
             HasRead(q), q.shown = {}
      PROVE  FederalInv'
  <2>1. \A d \in Projections : \A s \in projection'[d].shown :
          s \in projection[d].shown /\ \A m : Built(d, m)' = Built(d, m)
    BY <1>1, <1>2 DEF Built
  <2>2. ShownOnRecord'
    BY <1>1, <2>1 DEF ShownOnRecord, FederalInv
  <2>. QED
    BY <1>1, <1>2, <2>2, CallKeepsFederal
<1>3. CASE EndProjection(c)
  <2>1. NotProjecting \in FederalCalls /\ HasRead(NotProjecting) /\ NotProjecting.shown = {}
    BY DEF NotProjecting, FederalCalls, HasRead
  <2>. QED
    BY <1>2, <1>3, <2>1 DEF EndProjection
<1>4. CASE BeginProjection(c)
  <2>. DEFINE begun == [NotProjecting EXCEPT !.pc = "read", !.notices = notices, !.awards = awards,
                                             !.todo = Notices]
  <2>1. PICK q : q = begun
    OBVIOUS
  <2>2. begun \in FederalCalls /\ HasRead(begun) /\ begun.shown = {}
    BY DEF NotProjecting, FederalCalls, HasRead, FederalInv, FederalTypes
  <2>3. projection' = [projection EXCEPT ![c] = begun]
    BY <1>4 DEF BeginProjection
  <2>. HIDE DEF begun
  <2>. QED
    BY <1>2, <2>1, <2>2, <2>3
<1>5. CASE ReadKept(c)
  <2>. DEFINE rows == [n \in Notices |-> CurrentAssessment(n)]
              read == [p EXCEPT !.pc = "compared", !.partnerships = partnerships, !.persisted = rows]
  <2>1. \A n \in Notices : rows[n] \in KeptRows \cup {NoRow} /\ (rows[n] = NoRow \/ OnRecord(n, rows[n]))
    BY CurrentIsOnRecord DEF FederalInv
  <2>2. p.pc = "read" /\ p.shown = {} /\ partnerships \in Partners
    BY <1>1, <1>5 DEF ReadKept, HasRead, FederalInv, FederalTypes
  <2>3. rows \in [Notices -> KeptRows \cup {NoRow}]
    BY <2>1
  <2>4. projection' = [projection EXCEPT ![c] = read]
    BY <1>1, <1>5 DEF ReadKept
  <2>. HIDE DEF rows
  <2>5. /\ read \in FederalCalls /\ read.pc = "compared" /\ read.notices = p.notices
        /\ read.awards = p.awards /\ read.partnerships = partnerships /\ read.persisted = rows
        /\ read.shown = p.shown
    BY <1>1, <2>2, <2>3 DEF FederalCalls
  <2>. HIDE DEF read
  <2>6. HasRead(read)
    BY <1>1, <2>1, <2>2, <2>3, <2>5 DEF HasRead
  <2>7. PICK q : q = read
    OBVIOUS
  <2>. QED
    BY <1>2, <2>2, <2>4, <2>5, <2>6, <2>7
<1>6. CASE ReadEnvironment(c)
  <2>. DEFINE read == [p EXCEPT !.pc = "assessing", !.environment = environment]
  <2>1. p.pc = "compared" /\ p.shown = {} /\ environment \in Environments
    BY <1>1, <1>6 DEF ReadEnvironment, HasRead, FederalInv, FederalTypes
  <2>2. projection' = [projection EXCEPT ![c] = read]
    BY <1>1, <1>6 DEF ReadEnvironment
  <2>3. /\ read \in FederalCalls /\ read.pc = "assessing" /\ read.notices = p.notices
        /\ read.awards = p.awards /\ read.partnerships = p.partnerships
        /\ read.persisted = p.persisted /\ read.environment = environment /\ read.shown = p.shown
    BY <1>1, <2>1 DEF FederalCalls
  <2>. HIDE DEF read
  <2>4. HasRead(read)
    BY <1>1, <2>1, <2>3 DEF HasRead
  <2>5. PICK q : q = read
    OBVIOUS
  <2>. QED
    BY <1>2, <2>1, <2>2, <2>3, <2>4, <2>5
<1>. QED
  BY <1>3, <1>4, <1>5, <1>6

LEMMA FederalSteps == FederalInv /\ [FederalNext]_federalVars => FederalInv'
<1>. SUFFICES ASSUME FederalInv, [FederalNext]_federalVars PROVE FederalInv'
  OBVIOUS
<1>1. ASSUME UNCHANGED <<kept, projection>>, FederalTypes'
      PROVE  FederalInv'
  <2>1. \A c, n : Built(c, n)' = Built(c, n)
    BY <1>1 DEF Built
  <2>2. ShownOnRecord'
    BY <1>1, <2>1 DEF FederalInv, ShownOnRecord
  <2>3. RowsAreHonest' /\ CallsHaveRead'
    BY <1>1 DEF FederalInv, RowsAreHonest, CallsHaveRead, HasRead, OnRecord
  <2>. QED
    BY <1>1, <2>2, <2>3 DEF FederalInv
<1>2. CASE \/ \E n \in Notices, content \in NoticeContents : NoticeChanges(n, content)
           \/ \E given \in AwardSets : AwardsChange(given)
           \/ \E env \in Environments : EnvironmentChanges(env)
           \/ \E partners \in Partners : PartnersChange(partners)
           \/ ADayLater \/ UNCHANGED federalVars
  <2>1. UNCHANGED <<kept, projection>> /\ FederalTypes'
    BY <1>2 DEF NoticeChanges, AwardsChange, EnvironmentChanges, PartnersChange, ADayLater,
                federalVars, FederalInv, FederalTypes
  <2>. QED
    BY <1>1, <2>1
<1>. QED
  BY <1>2, ReadingKeepsFederal, AssessingKeepsFederal DEF FederalNext

-----------------------------------------------------------------------------
\* What a route of a type may score.
Scored(r) == r.score \in 0..100 /\ (r.type = "MARKET_WATCH" => r.score <= 40)

LEMMA RouteIsScored ==
  ASSUME NEW type, NEW account, NEW score \in Nat, type = "MARKET_WATCH" => score <= 40
  PROVE  Scored(Route(type, account, score))
BY DEF Scored, Route, AtMost

LEMMA MatchesAreCounted ==
  ASSUME NEW env \in Environments, NEW x, NEW account
  PROVE  /\ AccountMatches(account, x, env) \in Nat
         /\ Cardinality(CapabilityMatches(x, env)) \in Nat
<1>. DEFINE programs == {p \in env.programs : p.account = account /\ p.name \in x.mentions}
            named == {account} \cap x.mentions
<1>1. IsFiniteSet(programs)
  BY FS_Subset, FederalAssumption
<1>2. IsFiniteSet(named)
  <2>1. IsFiniteSet({account}) /\ named \subseteq {account}
    BY FS_Singleton
  <2>. QED
    BY <2>1, FS_Subset
<1>3. IsFiniteSet(CapabilityMatches(x, env))
  BY FS_Subset, FederalAssumption DEF CapabilityMatches
<1>4. /\ Cardinality(programs) \in Nat /\ Cardinality(named) \in Nat
      /\ Cardinality(CapabilityMatches(x, env)) \in Nat
  <2>. HIDE DEF programs, named
  <2>. QED
    BY <1>1, <1>2, <1>3, FS_CardinalityType
<1>5. AccountMatches(account, x, env) = Cardinality(named) + Cardinality(programs)
  BY DEF AccountMatches
<1>. HIDE DEF programs, named
<1>. QED
  BY <1>4, <1>5

LEMMA RoutesAreScored ==
  ASSUME NEW env \in Environments, NEW x, NEW partners, NEW durability
  PROVE  /\ Routes(x, env, partners, durability) # {}
         /\ \A r \in Routes(x, env, partners, durability) : Scored(r)
<1>1. ASSUME NEW r \in DirectRoutes(x, env) PROVE Scored(r)
  <2>1. PICK timing \in {0, 1, 2} :
          r = Route("DIRECT_BTX", "none",
                    35 + 8 * Cardinality(CapabilityMatches(x, env)) + 5 * timing)
    BY <1>1 DEF DirectRoutes
  <2>. QED
    BY <2>1, MatchesAreCounted, RouteIsScored
<1>2. ASSUME NEW r \in AccountRoutes(x, env, partners) PROVE Scored(r)
  <2>1. PICK a : \E type \in {"STRATEGIC_PARTNER", "CUSTOMER_EXPANSION", "NEW_PROSPECT"}, more \in {5, 12} :
          r = Route(type, a, 40 + 8 * AtMost(3, AccountMatches(a, x, env)) + more)
    BY <1>2 DEF AccountRoutes
  <2>2. AtMost(3, AccountMatches(a, x, env)) \in Nat
    BY MatchesAreCounted DEF AtMost
  <2>. QED
    BY <2>1, <2>2, RouteIsScored
<1>3. \A more \in {0, 10} : Scored(Route("MARKET_WATCH", "none", 30 + more))
  BY RouteIsScored
<1>4. \A r \in Routes(x, env, partners, durability) :
        \/ r \in DirectRoutes(x, env) \cup AccountRoutes(x, env, partners)
        \/ \E more \in {0, 10} : r = Route("MARKET_WATCH", "none", 30 + more)
  BY DEF Routes
<1>5. Routes(x, env, partners, durability) # {}
  BY DEF Routes
<1>. QED
  BY <1>1, <1>2, <1>3, <1>4, <1>5

\* The best route of an assessment is one of its routes.
LEMMA BestIsARoute ==
  ASSUME NEW a \in AssessmentsThereAre
  PROVE  /\ \A r \in a.routes : Scored(r)
         /\ \E r \in a.routes : r.score = BestScore(a.routes)
<1>1. PICK x \in NoticeContents, given \in AwardSets, env \in Environments, partners \in Partners :
        a = Assessment(x, given, env, partners)
  BY AssessmentIsOf
<1>2. a.routes = Routes(x, env, partners, Durability(x, given))
  BY <1>1 DEF Assessment
<1>3. a.routes # {} /\ \A r \in a.routes : Scored(r)
  BY <1>2, RoutesAreScored
<1>. DEFINE scores == {r.score : r \in a.routes}
<1>4. scores \in SUBSET (0..100) /\ scores # {}
  BY <1>3 DEF Scored
<1>5. Max(scores) \in scores
  <2>. HIDE DEF scores
  <2>. QED
    BY <1>4, BestIsIn
<1>. QED
  BY <1>3, <1>5 DEF BestScore

-----------------------------------------------------------------------------
LEMMA PayloadIsRead ==
  ASSUME NEW x \in NoticeContents
  PROVE  x \in OpportunityFields
BY PayloadsAreRead

\* A notice becomes more relevant until its deadline.
LEMMA RelevanceGrows ==
  ASSUME NEW x \in NoticeContents, NEW now \in Nat, NEW later \in Nat, now <= later,
         x.deadline = NoDeadline \/ later <= x.deadline
  PROVE  Relevance(x, now) \in Nat /\ Relevance(x, later) \in Nat
         /\ Relevance(x, now) <= Relevance(x, later)
<1>. DEFINE fixed == (IF x.naics /\ Targeting THEN 40 ELSE 0) + StagePoints(x)
            near(t) == IF x.deadline = NoDeadline THEN 0
                       ELSE IF x.deadline - t \in 0..Soon THEN 10 ELSE 5
<1>1. fixed \in Nat
  <2>1. StagePoints(x) \in {0, 10, 15}
    BY Zenon DEF StagePoints
  <2>2. (IF x.naics /\ Targeting THEN 40 ELSE 0) \in {0, 40}
    BY Zenon
  <2>. QED
    BY <2>1, <2>2
<1>2. near(now) \in Nat /\ near(later) \in Nat /\ near(now) <= near(later)
  <2>1. x.deadline \in Nat \cup {NoDeadline} /\ Soon \in Nat
    BY PayloadIsRead, FederalAssumption DEF OpportunityFields
  <2>. QED
    BY <2>1 DEF NoDeadline
<1>3. Relevance(x, now) = fixed + near(now) /\ Relevance(x, later) = fixed + near(later)
  BY DEF Relevance
<1>. HIDE DEF fixed, near
<1>. QED
  BY <1>1, <1>2, <1>3

LEMMA ListingsLast == FederalTypes => ListingLasts
<1>. SUFFICES ASSUME FederalTypes, NEW n \in Notices, NEW filter \in Filters,
                     NEW later \in day..MaxFederalDay, Listed(n, filter, day),
                     notices[n].deadline = NoDeadline \/ later <= notices[n].deadline
              PROVE  Listed(n, filter, later)
  BY DEF ListingLasts
<1>. DEFINE x == notices[n]
<1>1. /\ x \in NoticeContents /\ day \in Nat /\ later \in Nat /\ day <= later
      /\ Soon \in Nat /\ x.deadline \in Nat \cup {NoDeadline}
      /\ filter.minimum_relevance \in {0, 60}
  BY FederalAssumption, PayloadIsRead DEF FederalTypes, Filters, OpportunityFields
<1>2. IsActive(x, day) /\ Wanted(filter, x, day)
  BY DEF Listed
<1>3. IsActive(x, later)
  BY <1>1, <1>2 DEF IsActive
<1>4. Relevance(x, later) >= filter.minimum_relevance
  <2>1. Relevance(x, day) >= filter.minimum_relevance
    BY <1>2 DEF Wanted
  <2>2. Relevance(x, day) \in Nat /\ Relevance(x, later) \in Nat
        /\ Relevance(x, day) <= Relevance(x, later)
    BY <1>1, RelevanceGrows
  <2>. QED
    BY <1>1, <2>1, <2>2
<1>5. x.deadline - day \in 0..Soon => x.deadline - later \in 0..Soon
  BY <1>1 DEF NoDeadline
<1>6. Wanted(filter, x, later)
  BY <1>2, <1>4, <1>5, Zenon DEF Wanted
<1>. QED
  BY <1>3, <1>6 DEF Listed

LEMMA TodayOffersAreListed == FederalInv => TodayIsListed
<1>. SUFFICES ASSUME FederalInv, NEW n \in TodayPage
              PROVE
    LET row == CurrentAssessment(n)
        best == CHOOSE r \in row.assessment.routes : r.score = BestScore(row.assessment.routes)
    IN  /\ best.type # "MARKET_WATCH"
        /\ best.account # "none" => \E x \in AccountPage(best.account) :
                                     x.notice = n /\ x.version = row.version /\ best \in x.routes
        /\ \/ row.assessment.source # notices[n]
           \/ notices[n].deadline \in 0..day - 1
           \/ \E filter \in Filters : filter.type # "any" /\ Listed(n, filter, day)
  BY DEF TodayIsListed
<1>. DEFINE row == CurrentAssessment(n)
            a == row.assessment
            best == CHOOSE r \in a.routes : r.score = BestScore(a.routes)
            x == notices[n]
<1>1. n \in Notices /\ IsTimely(n) /\ kept[n] # <<>>
  BY DEF TodayPage, IsTimely
<1>2. row \in KeptRows /\ a \in AssessmentsThereAre
  BY <1>1, CurrentIsOnRecord DEF FederalInv, KeptRows
<1>3. BestScore(a.routes) >= 55 /\ a.stage \in {"SOURCES_SOUGHT", "PRE_SOLICITATION", "SOLICITATION"}
  BY <1>1 DEF IsTimely
<1>4. best \in a.routes /\ best.score = BestScore(a.routes) /\ Scored(best)
  BY <1>2, BestIsARoute
<1>5. best.type # "MARKET_WATCH"
  BY <1>3, <1>4 DEF Scored
<1>. HIDE DEF best
<1>6. best.account # "none" =>
        \E shown \in AccountPage(best.account) :
          shown.notice = n /\ shown.version = row.version /\ best \in shown.routes
  <2>. DEFINE shown == [notice |-> n, version |-> row.version,
                        routes |-> {r \in a.routes : r.account = best.account}]
  <2>1. shown \in AccountPage(best.account)
    BY <1>1, <1>4, Zenon DEF AccountPage
  <2>2. shown.notice = n /\ shown.version = row.version /\ best \in shown.routes
    BY <1>4
  <2>. QED
    BY <2>1, <2>2, Zenon
<1>7. ASSUME a.source = x, x.deadline \notin 0..day - 1
      PROVE  \E filter \in Filters : filter.type # "any" /\ Listed(n, filter, day)
  <2>. DEFINE filter == [type |-> x.type, naics |-> FALSE, minimum_relevance |-> 0, soon |-> FALSE]
  <2>1. /\ x \in NoticeContents /\ day \in Nat /\ x.deadline \in Nat \cup {NoDeadline}
        /\ x.type # "any"
    BY <1>1, PayloadIsRead DEF FederalInv, FederalTypes, OpportunityFields
  <2>2. filter \in Filters /\ filter.type # "any"
    BY <2>1 DEF Filters
  <2>3. a.stage = StageOf(x)
    BY <1>2, <1>7, AssessmentIsOf DEF Assessment
  <2>4. x.deadline = NoDeadline \/ x.deadline >= day
    BY <1>7, <2>1
  <2>5. IsActive(x, day)
    BY <1>3, <2>3, <2>4 DEF IsActive
  <2>6. Relevance(x, day) >= 0
    BY <2>1, <2>4, RelevanceGrows
  <2>7. Wanted(filter, x, day)
    BY <2>6 DEF Wanted
  <2>. HIDE DEF filter
  <2>. QED
    BY <2>2, <2>5, <2>7 DEF Listed
<1>. QED
  BY <1>5, <1>6, <1>7 DEF best

\* Whatever is imported or published meanwhile and however the calls interleave, a call shows
\* of a notice what the call has read, under the version that keeps it; what Today offers is
\* on the page of its account and in the workspace; and a request finds a notice again until
\* its deadline.
THEOREM FederalPagesAlwaysAgree == FederalSpec => []FederalPagesAgree
<1>1. FederalInv => ShownAsKept
  BY DEF FederalInv, ShownOnRecord, ShownAsKept
<1>2. FederalInv => FederalPagesAgree
  BY <1>1, TodayOffersAreListed, ListingsLast DEF FederalInv, FederalPagesAgree
<1>. QED
  BY <1>2, FederalStarts, FederalSteps, PTL DEF FederalSpec

-----------------------------------------------------------------------------
(***************************************************************************)
(* One question to Omni.                                                   *)
(***************************************************************************)
\* Where a request is while it is worked on.
AtWork == {"interpret", "explain", "ground", "read", "research", "word", "finish"}

\* A record with these fields, whatever they are.
IsAnswer(a) ==
  a \in [about : {a.about}, facts : {a.facts}, notices : {a.notices}, missing : {a.missing},
         action : {a.action}, by : {a.by}, fault : {a.fault}, status : {a.status},
         boundary : {a.boundary}]

IsTurn(t) ==
  /\ t \in [pc : {t.pc}, request : {t.request}, began : {t.began}, failure : {t.failure},
            named : {t.named}, answer : {t.answer}, told : {t.told}, facts : {t.facts},
            findings : {t.findings}, preferences : {t.preferences},
            constrained : {t.constrained}, reads : {t.reads}, stop : {t.stop}]
  /\ IsAnswer(t.answer)

\* A fact that the answer may draw on: nothing private or made up, of records only those of
\* its account, and of a selection nothing older than the request.
Sourced(about, reads, began, fact) ==
  /\ fact[1] \notin {"preference", "nothing"}
  /\ fact[1] = "record" => fact[2] = about /\ reads # {}
  /\ fact[1] \in Selectable => fact[2] >= began[fact[1]]

FactsAreSourced(t) ==
  \A fact \in t.answer.facts \cup t.facts \cup t.findings :
    Sourced(t.answer.about, t.reads, t.began, fact)

\* What is selected is no older than the request wherever its facts may still be added, and
\* the series that is read is the one that is selected.
SelectionHolds(t) ==
  /\ \A kind \in Selectable : t.began[kind] \in Nat /\ t.began[kind] <= revision[kind]
  /\ t.pc \in {"interpret", "ground"} /\ t.request.selected.what = "federal" =>
       t.request.selected.revision >= t.began["federal"]
  /\ t.pc \in {"read", "research", "word"} /\ t.request.selected.what = "market" =>
       t.request.selected.revision >= t.began["market"]
  /\ t.pc = "read" => \A read \in t.reads :
       read[1] = "read_selected_market" => t.request.selected.what = "market"

\* Until it is grounded, a request has nothing but itself; until it is worded, no model's words.
OnlyBegun(t) ==
  /\ t.pc \in {"interpret", "explain", "ground"} =>
       /\ t.told = NotTold /\ t.constrained = FALSE
       /\ t.facts = {} /\ t.findings = {} /\ t.preferences = {} /\ t.reads = {}
  /\ t.pc \in {"interpret", "explain", "ground", "read"} => t.stop = "none"
  /\ t.pc # "finish" => t.answer.by = "deterministic"

ContractIsTold(t, answer) ==
  t.stop # "none" /\ UnderContract(t.request.asks) =>
    answer.boundary = TRUE /\ answer.action = "contract"

StopsAreTold(t) ==
  /\ t.stop \notin {"none", "MODEL_DONE"} => "partial" \in t.answer.notices
  /\ t.pc = "finish" => ContractIsTold(t, t.answer)

\* Words of a model passed the checks.
WordsPassed(t, answer) ==
  answer.by = "model" =>
    /\ answer.fault \notin {"empty", "execution", "mislabels"}
    /\ answer.fault = "promises" => ~t.constrained
    /\ t.told.told => /\ answer.fault = "drops_score" => ~t.told.scored
                      /\ answer.fault = "drops_action" => ~t.told.acts

Sound(t) ==
  /\ IsTurn(t) /\ FactsAreSourced(t) /\ SelectionHolds(t) /\ OnlyBegun(t)
  /\ t.preferences \subseteq {t.answer.about} /\ StopsAreTold(t) /\ WordsPassed(t, t.answer)

\* An answer that is shown is one that was finished.
Finished(t) == [t EXCEPT !.pc = "finish"]

OmniInv ==
  /\ revision \in [Selectable -> Nat]
  /\ turn.pc \in AtWork \cup {"none", "refused", "fail", "failed", "escaped", "answered"}
  /\ turn.pc \in AtWork => Sound(turn)
  /\ turn.pc = "answered" => IsTurn(turn) /\ Sound(Finished(turn))
  /\ turn.pc \in {"none", "refused"} => omniRun = "none"
  /\ turn.pc \in AtWork \cup {"fail", "escaped"} => omniRun = "RUNNING"
  /\ turn.pc = "answered" => omniRun = "ANSWER_RECORDED"

-----------------------------------------------------------------------------
LEMMA OmniStarts == AnswerInit => OmniInv
BY DEF AnswerInit, OmniInv, NoTurn, AtWork

\* A step that leaves a sound request where it is worked on.
LEMMA BecomesSound ==
  ASSUME OmniInv, turn.pc \in AtWork, NEW t, Becomes(t), UNCHANGED <<revision, omniRun>>,
         t.pc \in AtWork, Sound(t)
  PROVE  OmniInv'
<1>1. turn' = t /\ omniRun' = "RUNNING" /\ revision' \in [Selectable -> Nat]
  BY DEF OmniInv, Becomes
<1>2. Sound(turn')
  BY <1>1
<1>3. Sound(turn)'
  BY <1>2 DEF Sound, IsTurn, IsAnswer, FactsAreSourced, Sourced, SelectionHolds, OnlyBegun,
              StopsAreTold, ContractIsTold, WordsPassed
<1>. QED
  BY <1>1, <1>3 DEF OmniInv, AtWork

\* Steps that end a request without an answer.
LEMMA FailingKeepsOmni ==
  ASSUME OmniInv, Escapes \/ RecordFailure
  PROVE  OmniInv'
<1>1. CASE Escapes
  <2>1. /\ turn.pc \in {"interpret", "explain", "read", "research", "word"}
        /\ UNCHANGED <<revision, omniRun>>
        /\ turn' = [turn EXCEPT !.pc = "fail"] \/ turn' = [pc |-> "escaped"]
    BY <1>1 DEF Escapes, Fails, Becomes
  <2>2. IsTurn(turn) /\ omniRun = "RUNNING"
    BY <2>1 DEF OmniInv, AtWork, Sound
  <2>3. turn'.pc \in {"fail", "escaped"}
    BY <2>1, <2>2 DEF IsTurn
  <2>. QED
    BY <2>1, <2>2, <2>3 DEF OmniInv, AtWork
<1>2. CASE RecordFailure
  BY <1>2 DEF RecordFailure, Becomes, OmniInv, AtWork
<1>. QED
  BY <1>1, <1>2

LEMMA RecordingKeepsOmni ==
  ASSUME OmniInv, Record
  PROVE  OmniInv'
<1>1. turn.pc = "finish" /\ revision' = revision /\ Sound(turn) /\ IsTurn(turn)
  BY DEF Record, OmniInv, AtWork, Sound
<1>2. CASE turn' = [pc |-> "failed"]
  BY <1>1, <1>2 DEF OmniInv, AtWork
<1>3. CASE turn' = [turn EXCEPT !.pc = "answered"] /\ omniRun' = "ANSWER_RECORDED"
  <2>1. turn'.pc = "answered" /\ Finished(turn') = turn
    BY <1>1, <1>3 DEF IsTurn, Finished
  <2>2. IsTurn(turn)' /\ Sound(Finished(turn)')
    BY <1>1, <1>3, <2>1 DEF IsTurn, IsAnswer, Finished
  <2>3. Sound(Finished(turn))'
    BY <1>1, <2>2 DEF Sound, IsTurn, IsAnswer, FactsAreSourced, Sourced, SelectionHolds, OnlyBegun,
                      StopsAreTold, ContractIsTold, WordsPassed
  <2>. QED
    BY <1>1, <1>3, <2>1, <2>2, <2>3 DEF OmniInv, AtWork
<1>. QED
  BY <1>2, <1>3 DEF Record, Becomes

\* What can be selected grows newer, and so no older than it was.
LEMMA SupersedingKeepsOmni ==
  ASSUME OmniInv, Supersede
  PROVE  OmniInv'
<1>1. PICK what \in Selectable : revision' = [revision EXCEPT ![what] = @ + 1]
  BY DEF Supersede
<1>2. /\ revision' \in [Selectable -> Nat]
      /\ \A kind \in Selectable : revision[kind] \in Nat /\ revision[kind] <= revision'[kind]
  BY <1>1 DEF OmniInv
<1>3. UNCHANGED <<turn, omniRun>> /\ turn.pc \in {"none", "interpret", "explain", "ground"}
  BY DEF Supersede
<1>4. Sound(turn) => Sound(turn)'
  BY <1>2, <1>3 DEF Sound, IsTurn, IsAnswer, FactsAreSourced, Sourced, SelectionHolds, OnlyBegun,
              StopsAreTold, ContractIsTold, WordsPassed
<1>. QED
  BY <1>2, <1>3, <1>4 DEF OmniInv, AtWork

\* The same request, somewhere else or with another answer.
GoesOn(t, u) ==
  /\ IsTurn(u)
  /\ u.request = t.request /\ u.began = t.began /\ u.told = t.told
  /\ u.facts = t.facts /\ u.findings = t.findings /\ u.preferences = t.preferences
  /\ u.constrained = t.constrained /\ u.reads = t.reads /\ u.stop = t.stop

LEMMA GoesOnWith ==
  ASSUME NEW t, IsTurn(t), NEW place, NEW answer, IsAnswer(answer)
  PROVE  LET u == [t EXCEPT !.pc = place, !.answer = answer]
         IN  GoesOn(t, u) /\ u.pc = place /\ u.answer = answer
BY DEF IsTurn, GoesOn

\* A request begins as what is selected is now.
LEMMA AskingKeepsOmni ==
  ASSUME OmniInv, AskOmni
  PROVE  OmniInv'
<1>1. PICK asks \in OmniQuestions, organization \in Organizations \cup {Nobody},
           configured \in BOOLEAN,
           selected \in {NoSelection} \cup [what : Selectable, revision : 1..MaxRevision] :
     /\ selected.what # "nothing" => selected.revision <= revision[selected.what]
     /\ selected.what \notin {"pursuit", "route"} => organization = Nobody
     /\ LET t == [pc |-> "interpret", request |-> OmniRequest(asks, organization, selected, configured),
                  began |-> revision, failure |-> "none", named |-> FALSE,
                  answer |-> AnswerOn(Nobody, {}, "none"), told |-> NotTold, facts |-> {},
                  findings |-> {}, preferences |-> {}, constrained |-> FALSE, reads |-> {},
                  stop |-> "none"]
        IN  \/ /\ selected.what = "pursuit" /\ omniRun' = "RUNNING"
               /\ \E a \in Organizations :
                    IF PursuitIsCurrent(selected, organization, a)
                      THEN Becomes([t EXCEPT !.pc = "explain", !.answer =
                             AnswerOn(a, {<<"account", a>>, <<"pursuit", selected.revision>>}, "pursuit")])
                      ELSE Fails(t)
            \/ /\ selected.what # "pursuit" /\ omniRun' = "RUNNING"
               /\ IF selected.what = "federal" /\ selected.revision # revision["federal"]
                    THEN Fails(t) ELSE Becomes(t)
            \/ Becomes([pc |-> "refused"]) /\ UNCHANGED omniRun
  BY Zenon DEF AskOmni
<1>. DEFINE t == [pc |-> "interpret", request |-> OmniRequest(asks, organization, selected, configured),
                  began |-> revision, failure |-> "none", named |-> FALSE,
                  answer |-> AnswerOn(Nobody, {}, "none"), told |-> NotTold, facts |-> {},
                  findings |-> {}, preferences |-> {}, constrained |-> FALSE, reads |-> {},
                  stop |-> "none"]
            answer(a) == AnswerOn(a, {<<"account", a>>, <<"pursuit", selected.revision>>}, "pursuit")
            explained(a) == [t EXCEPT !.pc = "explain", !.answer = answer(a)]
<1>2. turn.pc = "none" /\ omniRun = "none" /\ UNCHANGED revision
      /\ revision \in [Selectable -> Nat]
  BY DEF AskOmni, NoTurn, OmniInv
<1>3. \A kind \in Selectable : revision[kind] \in Nat /\ revision[kind] <= revision[kind]
  BY <1>2
<1>4. "pursuit" \in Selectable /\ "federal" \in Selectable
      /\ "account" \notin Selectable
  BY DEF Selectable
<1>5. ASSUME selected.what = "federal" => selected.revision = revision["federal"]
      PROVE  t.pc = "interpret" /\ Sound(t)
  BY <1>3, <1>4, <1>5
  DEF Sound, IsTurn, IsAnswer, FactsAreSourced, SelectionHolds, OnlyBegun, StopsAreTold,
      ContractIsTold, WordsPassed, AnswerOn, OmniRequest
<1>6. ASSUME NEW a \in Organizations, PursuitIsCurrent(selected, organization, a)
      PROVE  explained(a).pc = "explain" /\ Sound(explained(a))
  <2>1. selected.revision = revision["pursuit"]
    BY <1>6 DEF PursuitIsCurrent
  <2>2. /\ explained(a).pc = "explain" /\ IsTurn(explained(a)) /\ explained(a).answer = answer(a)
        /\ explained(a).began = revision /\ explained(a).facts = {} /\ explained(a).findings = {}
        /\ explained(a).preferences = {} /\ explained(a).reads = {} /\ explained(a).stop = "none"
        /\ explained(a).constrained = FALSE /\ explained(a).told = NotTold
    <3>1. IsAnswer(answer(a))
      BY DEF IsAnswer, AnswerOn
    <3>2. /\ IsTurn(t) /\ t.began = revision /\ t.facts = {} /\ t.findings = {} /\ t.preferences = {}
          /\ t.reads = {} /\ t.stop = "none" /\ t.constrained = FALSE /\ t.told = NotTold
      BY DEF IsTurn, IsAnswer, AnswerOn
    <3>. HIDE DEF answer, t
    <3>3. GoesOn(t, explained(a)) /\ explained(a).pc = "explain" /\ explained(a).answer = answer(a)
      BY <3>1, <3>2 DEF IsTurn, GoesOn
    <3>. HIDE DEF explained
    <3>. QED
      BY <3>2, <3>3 DEF GoesOn
  <2>3. /\ answer(a).facts = {<<"account", a>>, <<"pursuit", revision["pursuit"]>>}
        /\ answer(a).by = "deterministic"
    BY <2>1 DEF AnswerOn
  <2>4. FactsAreSourced(explained(a))
    <3>. HIDE DEF explained, answer
    <3>. QED
      BY <1>3, <1>4, <2>2, <2>3 DEF FactsAreSourced, Sourced
  <2>. HIDE DEF explained, answer
  <2>. QED
    BY <1>3, <2>2, <2>3, <2>4
    DEF Sound, SelectionHolds, OnlyBegun, StopsAreTold, ContractIsTold, WordsPassed
<1>7. ASSUME NEW u, turn' = u, u.pc \in {"interpret", "explain"}, Sound(u), omniRun' = "RUNNING"
      PROVE  OmniInv'
  <2>1. Sound(turn')
    BY <1>7
  <2>2. Sound(turn)'
    BY <1>2, <2>1 DEF Sound, IsTurn, IsAnswer, FactsAreSourced, Sourced, SelectionHolds, OnlyBegun,
                StopsAreTold, ContractIsTold, WordsPassed
  <2>. QED
    BY <1>2, <1>7, <2>2 DEF OmniInv, AtWork
<1>8. [t EXCEPT !.pc = "fail"].pc = "fail"
  OBVIOUS
<1>9. \/ \E a \in Organizations : /\ PursuitIsCurrent(selected, organization, a)
                                  /\ turn' = explained(a) /\ omniRun' = "RUNNING"
      \/ turn' = [t EXCEPT !.pc = "fail"] /\ omniRun' = "RUNNING"
      \/ /\ selected.what = "federal" => selected.revision = revision["federal"]
         /\ turn' = t /\ omniRun' = "RUNNING"
      \/ turn' = [pc |-> "refused"] /\ omniRun' = "none"
  BY <1>1, <1>2 DEF Becomes, Fails
<1>. HIDE DEF t, explained
<1>10. CASE turn' = [t EXCEPT !.pc = "fail"] /\ omniRun' = "RUNNING"
  BY <1>2, <1>8, <1>10 DEF OmniInv, AtWork
<1>11. CASE turn' = [pc |-> "refused"] /\ omniRun' = "none"
  BY <1>2, <1>11 DEF OmniInv, AtWork
<1>. QED
  BY <1>5, <1>6, <1>7, <1>9, <1>10, <1>11

\* A request is finished with an answer that draws on what it may.
LEMMA FinishKeepsOmni ==
  ASSUME OmniInv, turn.pc \in AtWork, UNCHANGED <<revision, omniRun>>,
         NEW t, NEW answer, IsTurn(t), IsAnswer(answer), t.began = turn.began, Finish(t, answer),
         \A fact \in answer.facts \cup t.facts \cup t.findings :
           Sourced(answer.about, t.reads, t.began, fact),
         t.preferences \subseteq {answer.about},
         t.stop \notin {"none", "MODEL_DONE"} => "partial" \in answer.notices,
         ContractIsTold(t, answer), WordsPassed(t, answer)
  PROVE  OmniInv'
<1>. DEFINE u == [t EXCEPT !.pc = "finish", !.answer = answer]
<1>1. GoesOn(t, u) /\ u.pc = "finish" /\ u.answer = answer
  BY DEF IsTurn, GoesOn
<1>2. Becomes(u)
  BY DEF Finish
<1>. HIDE DEF u
<1>3. \A kind \in Selectable : u.began[kind] \in Nat /\ u.began[kind] <= revision[kind]
  BY <1>1 DEF GoesOn, OmniInv, Sound, SelectionHolds
<1>4. Sound(u)
  BY <1>1, <1>3
  DEF GoesOn, Sound, FactsAreSourced, SelectionHolds, OnlyBegun, StopsAreTold, ContractIsTold,
      WordsPassed
<1>5. PICK v : v = u
  OBVIOUS
<1>. QED
  BY <1>1, <1>2, <1>4, <1>5, BecomesSound DEF AtWork

\* What is done to an answer before it is shown leaves what it is about, and its facts.
Keeps(a, b) ==
  IsAnswer(b) /\ b.about = a.about /\ b.facts = a.facts /\ b.notices = a.notices /\ b.by = a.by
    /\ b.fault = a.fault

LEMMA StatusKeepsAnswer ==
  ASSUME NEW a, IsAnswer(a), NEW status
  PROVE  Keeps(a, Deterministic(a, status))
BY DEF Keeps, IsAnswer, Deterministic

LEMMA ContractKeepsAnswer ==
  ASSUME NEW a, IsAnswer(a), NEW asks
  PROVE  /\ Keeps(a, WithContract(asks, a))
         /\ UnderContract(asks) => /\ WithContract(asks, a).boundary = TRUE
                                   /\ WithContract(asks, a).action = "contract"
BY DEF Keeps, IsAnswer, WithContract

LEMMA KeepsIsTransitive ==
  ASSUME NEW a, NEW b, NEW c, Keeps(a, b), Keeps(b, c)
  PROVE  Keeps(a, c)
BY DEF Keeps

\* The words of a model give the figure of one thing, if any, and one that they may.
LEMMA WordsAreOne ==
  ASSUME NEW a, IsAnswer(a), NEW prose, NEW told, NEW grounds, ~Unsupported(prose, grounds)
  PROVE  LET b == Worded(a, prose, told)
         IN  /\ IsAnswer(b) /\ b.about = a.about /\ b.facts \subseteq grounds /\ b.notices = told
             /\ b.by = "model" /\ b.fault = prose.fault
<1>. DEFINE b == Worded(a, prose, told)
            facts == IF prose.figure THEN {prose.states} ELSE {}
<1>1. /\ IsAnswer(b) /\ b.about = a.about /\ b.facts = facts /\ b.notices = told
      /\ b.by = "model" /\ b.fault = prose.fault
  BY DEF IsAnswer, Worded
<1>2. facts \subseteq grounds
  BY DEF Unsupported
<1>. QED
  BY <1>1, <1>2

LEMMA ExplainingKeepsOmni ==
  ASSUME OmniInv, ExplainPursuit
  PROVE  OmniInv'
<1>1. turn.pc = "explain" /\ turn.pc \in AtWork /\ UNCHANGED <<revision, omniRun>>
  BY DEF ExplainPursuit, AtWork
<1>2. Sound(turn)
  BY <1>1 DEF OmniInv
<1>3. /\ IsTurn(turn) /\ IsAnswer(turn.answer) /\ turn.answer.by = "deterministic"
      /\ turn.told = NotTold /\ turn.constrained = FALSE /\ turn.stop = "none"
      /\ turn.facts = {} /\ turn.findings = {} /\ turn.preferences = {}
      /\ \A fact \in turn.answer.facts : Sourced(turn.answer.about, turn.reads, turn.began, fact)
  BY <1>1, <1>2 DEF Sound, IsTurn, OnlyBegun, FactsAreSourced
<1>4. ASSUME NEW answer, Keeps(turn.answer, answer), Finish(turn, answer)
      PROVE  OmniInv'
  <2>1. ContractIsTold(turn, answer) /\ WordsPassed(turn, answer)
    BY <1>3, <1>4 DEF ContractIsTold, WordsPassed, Keeps
  <2>. QED
    BY <1>1, <1>3, <1>4, <2>1, FinishKeepsOmni DEF Keeps
<1>5. CASE Finish(turn, turn.answer)
  BY <1>3, <1>4, <1>5 DEF Keeps
<1>6. ASSUME NEW status, Finish(turn, Deterministic(turn.answer, status))
      PROVE  OmniInv'
  BY <1>3, <1>4, <1>6, StatusKeepsAnswer
<1>7. ASSUME NEW prose, Finish(turn, Worded(turn.answer, prose, {})),
             prose.fault \notin {"empty", "execution", "mislabels", "drops_action"},
             ~Unsupported(prose, turn.answer.facts)
      PROVE  OmniInv'
  <2>. DEFINE answer == Worded(turn.answer, prose, {})
  <2>1. /\ IsAnswer(answer) /\ answer.about = turn.answer.about /\ answer.facts \subseteq turn.answer.facts
        /\ answer.by = "model" /\ answer.fault = prose.fault
    BY <1>3, <1>7, WordsAreOne
  <2>2. PICK a : a = answer
    OBVIOUS
  <2>. HIDE DEF answer
  <2>3. ContractIsTold(turn, answer) /\ WordsPassed(turn, answer)
    BY <1>3, <1>7, <2>1 DEF ContractIsTold, WordsPassed, NotTold
  <2>4. Finish(turn, a)
    BY <1>7, <2>2 DEF answer
  <2>. QED
    BY <1>1, <1>3, <1>7, <2>1, <2>2, <2>3, <2>4, FinishKeepsOmni
<1>. QED
  BY <1>5, <1>6, <1>7 DEF ExplainPursuit

LEMMA InterpretingKeepsOmni ==
  ASSUME OmniInv, Interpret
  PROVE  OmniInv'
<1>1. /\ turn.pc = "interpret" /\ turn.pc \in AtWork /\ UNCHANGED <<revision, omniRun>>
      /\ IsTurn(turn) /\ Sound(turn)
  BY DEF Interpret, AtWork, OmniInv, Sound
<1>2. PICK named, failure : turn' = [turn EXCEPT !.pc = "ground", !.named = named, !.failure = failure]
  <2>1. CASE turn' = [turn EXCEPT !.pc = "ground"]
    <3>1. turn' = [turn EXCEPT !.pc = "ground", !.named = turn.named, !.failure = turn.failure]
      BY <1>1, <2>1 DEF IsTurn
    <3>. QED
      BY <3>1
  <2>2. ASSUME NEW named, turn' = [turn EXCEPT !.pc = "ground", !.named = named]
        PROVE  turn' = [turn EXCEPT !.pc = "ground", !.named = named, !.failure = turn.failure]
    BY <1>1, <2>2 DEF IsTurn
  <2>3. ASSUME NEW failure, turn' = [turn EXCEPT !.pc = "ground", !.failure = failure]
        PROVE  turn' = [turn EXCEPT !.pc = "ground", !.named = turn.named, !.failure = failure]
    BY <1>1, <2>3 DEF IsTurn
  <2>. QED
    BY <2>1, <2>2, <2>3 DEF Interpret, Becomes
<1>. DEFINE u == [turn EXCEPT !.pc = "ground", !.named = named, !.failure = failure]
<1>3. GoesOn(turn, u) /\ u.pc = "ground" /\ u.answer = turn.answer
  BY <1>1 DEF IsTurn, GoesOn
<1>4. PICK v : v = u
  OBVIOUS
<1>5. Becomes(v)
  BY <1>2, <1>4 DEF Becomes
<1>. HIDE DEF u
<1>6. Sound(v)
  BY <1>1, <1>3, <1>4
  DEF GoesOn, Sound, FactsAreSourced, SelectionHolds, OnlyBegun, StopsAreTold, ContractIsTold,
      WordsPassed
<1>. QED
  BY <1>1, <1>3, <1>4, <1>5, <1>6, BecomesSound DEF AtWork

\* A request that is grounded, and goes on: it told nothing but what it may.
Grounded(t) ==
  /\ IsTurn(t) /\ t.began = turn.began /\ t.stop = "none" /\ t.reads = {}
  /\ t.answer.by = "deterministic" /\ FactsAreSourced(t) /\ t.preferences \subseteq {t.answer.about}
  /\ t.request.selected.what = "market" => t.request.selected.revision >= t.began["market"]

LEMMA GatePasses ==
  ASSUME OmniInv, turn.pc \in AtWork, UNCHANGED <<revision, omniRun>>,
         NEW t, Grounded(t), NEW clarifies \in BOOLEAN, Gate(t, clarifies)
  PROVE  OmniInv'
<1>1. IsTurn(t) /\ IsAnswer(t.answer)
  BY DEF Grounded, IsTurn
<1>2. ASSUME NEW answer, Keeps(t.answer, answer), Finish(t, answer)
      PROVE  OmniInv'
  <2>1. ContractIsTold(t, answer) /\ WordsPassed(t, answer)
    BY <1>2 DEF Grounded, ContractIsTold, WordsPassed, Keeps
  <2>. QED
    BY <1>1, <1>2, <2>1, FinishKeepsOmni DEF Grounded, FactsAreSourced, Keeps
<1>3. ASSUME NEW status, Finish(t, WithContract(t.request.asks, Deterministic(t.answer, status)))
      PROVE  OmniInv'
  <2>1. Keeps(t.answer, Deterministic(t.answer, status))
    BY <1>1, StatusKeepsAnswer
  <2>2. PICK a : a = Deterministic(t.answer, status)
    OBVIOUS
  <2>3. Keeps(a, WithContract(t.request.asks, a))
    BY <2>1, <2>2, ContractKeepsAnswer DEF Keeps
  <2>. QED
    BY <1>2, <1>3, <2>1, <2>2, <2>3, KeepsIsTransitive
<1>4. ASSUME NEW status, Finish(t, Deterministic(t.answer, status))
      PROVE  OmniInv'
  BY <1>1, <1>2, <1>4, StatusKeepsAnswer
<1>5. ASSUME NEW place \in {"read", "research"}, Becomes([t EXCEPT !.pc = place])
      PROVE  OmniInv'
  <2>. DEFINE u == [t EXCEPT !.pc = place]
  <2>1. GoesOn(t, u) /\ u.pc = place /\ u.answer = t.answer
    BY <1>1 DEF IsTurn, GoesOn
  <2>2. PICK v : v = u
    OBVIOUS
  <2>3. Becomes(v)
    BY <1>5, <2>2
  <2>. HIDE DEF u
  <2>4. \A kind \in Selectable : v.began[kind] \in Nat /\ v.began[kind] <= revision[kind]
    BY <2>1, <2>2 DEF GoesOn, OmniInv, Sound, SelectionHolds, Grounded
  <2>5. Sound(v)
    BY <2>1, <2>2, <2>4
    DEF Grounded, GoesOn, Sound, FactsAreSourced, SelectionHolds, OnlyBegun, StopsAreTold,
        ContractIsTold, WordsPassed
  <2>. QED
    BY <2>1, <2>2, <2>3, <2>5, BecomesSound DEF AtWork
<1>. QED
  BY <1>3, <1>4, <1>5 DEF Gate

\* What is remembered is of the account, and passages are public.
LEMMA GoingOnPasses ==
  ASSUME OmniInv, turn.pc \in AtWork, UNCHANGED <<revision, omniRun>>,
         NEW t, Grounded(t), NEW clarifies \in BOOLEAN, GoOn(t, clarifies)
  PROVE  OmniInv'
<1>1. PICK remembers \in SUBSET (Organizations \cap {t.answer.about}), retained \in SUBSET Organizations :
        Gate([t EXCEPT !.named = FALSE, !.preferences = remembers,
                       !.findings = {<<"public", o>> : o \in retained}], clarifies)
  BY DEF GoOn
<1>. DEFINE public == {<<"public", o>> : o \in retained}
            u == [t EXCEPT !.named = FALSE, !.preferences = remembers, !.findings = public]
<1>2. \A fact \in public : Sourced(t.answer.about, t.reads, t.began, fact)
  BY DEF Sourced, Selectable
<1>3. IsTurn(t)
  BY DEF Grounded
<1>4. Gate(u, clarifies)
  BY <1>1
<1>. HIDE DEF public
<1>5. /\ IsTurn(u) /\ u.request = t.request /\ u.began = t.began /\ u.stop = t.stop
      /\ u.reads = t.reads /\ u.facts = t.facts /\ u.answer = t.answer
      /\ u.findings = public /\ u.preferences = remembers
  BY <1>3 DEF IsTurn
<1>6. PICK v : v = u
  OBVIOUS
<1>. HIDE DEF u
<1>7. Grounded(v)
  BY <1>2, <1>5, <1>6 DEF Grounded, FactsAreSourced
<1>. QED
  BY <1>4, <1>6, <1>7, GatePasses

\* What the routing has is the account and its assessment.
LEMMA RoutedIsGrounded ==
  ASSUME OmniInv, turn.pc = "ground", NEW about, NEW told,
         turn.request.selected.what # "market"
  PROVE  LET t == [turn EXCEPT !.answer = AnswerOn(about, RoutedFacts(about, told), "routed"),
                               !.told = told]
         IN  Grounded(t) /\ t.request = turn.request
<1>. DEFINE routed == AnswerOn(about, RoutedFacts(about, told), "routed")
            t == [turn EXCEPT !.answer = routed, !.told = told]
<1>1. /\ IsTurn(turn) /\ turn.stop = "none" /\ turn.reads = {} /\ turn.facts = {}
      /\ turn.findings = {} /\ turn.preferences = {}
  BY DEF OmniInv, AtWork, Sound, OnlyBegun
<1>2. IsAnswer(routed) /\ routed.by = "deterministic" /\ routed.about = about
      /\ routed.facts = RoutedFacts(about, told)
  BY DEF AnswerOn, IsAnswer
<1>. HIDE DEF routed
<1>3. /\ IsTurn(t) /\ t.began = turn.began /\ t.stop = "none" /\ t.reads = {} /\ t.facts = {}
      /\ t.findings = {} /\ t.preferences = {} /\ t.answer = routed /\ t.request = turn.request
  BY <1>1, <1>2 DEF IsTurn
<1>4. \A fact \in RoutedFacts(about, told) : fact[1] \in {"account", "assessment"}
  BY DEF RoutedFacts
<1>. HIDE DEF t
<1>. QED
  BY <1>2, <1>3, <1>4 DEF Grounded, FactsAreSourced, Sourced, Selectable, t, routed

\* What was selected replaces the facts of the answer, when it is as new as the request.
LEMMA SelectedIsGrounded ==
  ASSUME OmniInv, turn.pc = "ground", NEW t, IsTurn(t), t.request = turn.request,
         t.began = turn.began, t.stop = "none", t.reads = {}, t.findings = {},
         t.preferences = {}, t.answer.by = "deterministic",
         NEW kind \in Selectable, t.request.selected.what = kind,
         t.request.selected.revision >= t.began[kind],
         t.answer.facts = {<<kind, t.request.selected.revision>>},
         t.facts = {<<kind, t.request.selected.revision>>}
  PROVE  Grounded(t)
<1>1. kind \notin {"preference", "nothing", "record"}
  BY DEF Selectable
<1>. QED
  BY <1>1 DEF Grounded, FactsAreSourced, Sourced

\* Whatever the routing has, what was selected is looked up again.
LEMMA GroundingKeepsOmni ==
  ASSUME OmniInv, Ground
  PROVE  OmniInv'
<1>1. /\ turn.pc = "ground" /\ turn.pc \in AtWork /\ UNCHANGED <<revision, omniRun>>
      /\ IsTurn(turn) /\ Sound(turn)
  BY DEF Ground, AtWork, OmniInv, Sound
<1>2. PICK about \in Organizations \cup {Nobody}, told \in Tellings, clarifies \in BOOLEAN :
        /\ told.told => about # Nobody /\ "event" \in turn.request.asks
        /\ clarifies => turn.named /\ about = Nobody
        /\ LET selected == turn.request.selected
               routed == AnswerOn(about, RoutedFacts(about, told), "routed")
               t == [turn EXCEPT !.answer = routed, !.told = told]
               relates == selected.what = "route" /\ AppliesRoute(turn.request.asks)
           IN  \/ selected.what = "federal" /\ Finish(t, FederalAnswer(t, about))
               \/ /\ selected.what = "market"
                  /\ IF ~MarketIsCurrent(t) THEN Finish(t, StaleAnswer(routed))
                     ELSE GoOn([t EXCEPT !.answer.facts = {<<"market", selected.revision>>},
                                         !.facts = {<<"market", selected.revision>>},
                                         !.answer.action = "market_follow_up"], FALSE)
               \/ relates /\ \E source \in Ledgers, constrained \in BOOLEAN :
                    IF ~RouteIsCurrent(t, source) THEN Finish(t, StaleAnswer(routed))
                      ELSE GoOn([t EXCEPT !.answer = AnswerOn(source, {<<"route", selected.revision>>}, "route"),
                                          !.facts = {<<"route", selected.revision>>},
                                          !.constrained = constrained], clarifies)
               \/ selected.what \notin {"federal", "market"} /\ ~relates /\ GoOn(t, clarifies)
  BY Zenon DEF Ground
<1>. DEFINE selected == turn.request.selected
            routed == AnswerOn(about, RoutedFacts(about, told), "routed")
            t == [turn EXCEPT !.answer = routed, !.told = told]
            followed == [t EXCEPT !.answer.facts = {<<"market", selected.revision>>},
                                  !.facts = {<<"market", selected.revision>>},
                                  !.answer.action = "market_follow_up"]
            path(source) == AnswerOn(source, {<<"route", selected.revision>>}, "route")
            along(source, constrained) ==
              [t EXCEPT !.answer = path(source), !.facts = {<<"route", selected.revision>>},
                        !.constrained = constrained]
<1>3. /\ turn.stop = "none" /\ turn.reads = {} /\ turn.facts = {}
      /\ turn.findings = {} /\ turn.preferences = {}
      /\ \A kind \in Selectable : turn.began[kind] \in Nat /\ revision[kind] \in Nat
                                    /\ turn.began[kind] <= revision[kind]
      /\ selected.what = "federal" => selected.revision >= turn.began["federal"]
  BY <1>1 DEF OmniInv, Sound, OnlyBegun, SelectionHolds
<1>4. IsAnswer(routed) /\ routed.by = "deterministic" /\ routed.about = about
  BY DEF AnswerOn, IsAnswer
<1>5. \A source : /\ IsAnswer(path(source)) /\ path(source).by = "deterministic"
                  /\ path(source).facts = {<<"route", selected.revision>>}
  BY DEF AnswerOn, IsAnswer
<1>. HIDE DEF routed, path
<1>6. /\ IsTurn(t) /\ t.began = turn.began /\ t.stop = "none" /\ t.reads = {} /\ t.facts = {}
      /\ t.findings = {} /\ t.preferences = {} /\ t.answer = routed /\ t.request = turn.request
  BY <1>1, <1>3, <1>4 DEF IsTurn
<1>. HIDE DEF t
<1>7. "federal" \in Selectable /\ "market" \in Selectable /\ "route" \in Selectable
  BY DEF Selectable
<1>8. ASSUME NEW answer, IsAnswer(answer), answer.by = "deterministic", Finish(t, answer),
             \A fact \in answer.facts : Sourced(answer.about, {}, turn.began, fact)
      PROVE  OmniInv'
  <2>1. ContractIsTold(t, answer) /\ WordsPassed(t, answer)
    BY <1>6, <1>8 DEF ContractIsTold, WordsPassed
  <2>. QED
    BY <1>1, <1>6, <1>8, <2>1, FinishKeepsOmni
<1>9. CASE selected.what = "federal" /\ Finish(t, FederalAnswer(t, about))
  <2>. DEFINE answer == FederalAnswer(t, about)
  <2>1. /\ IsAnswer(answer) /\ answer.by = "deterministic"
        /\ answer.facts = {<<"federal", selected.revision>>}
    BY <1>6 DEF FederalAnswer, AnswerOn, IsAnswer
  <2>2. PICK a : a = answer
    OBVIOUS
  <2>3. Finish(t, a)
    BY <1>9, <2>2
  <2>. HIDE DEF answer
  <2>4. \A fact \in a.facts : Sourced(a.about, {}, turn.began, fact)
    BY <1>3, <1>9, <2>1, <2>2 DEF Sourced
  <2>. QED
    BY <1>8, <2>1, <2>2, <2>3, <2>4
<1>10. CASE Finish(t, StaleAnswer(routed))
  <2>. DEFINE answer == StaleAnswer(routed)
  <2>1. IsAnswer(answer) /\ answer.by = "deterministic" /\ answer.facts = {}
    BY <1>4 DEF StaleAnswer, IsAnswer
  <2>2. PICK a : a = answer
    OBVIOUS
  <2>3. Finish(t, a)
    BY <1>10, <2>2
  <2>. HIDE DEF answer
  <2>. QED
    BY <1>8, <2>1, <2>2, <2>3
<1>11. CASE selected.what = "market" /\ MarketIsCurrent(t) /\ GoOn(followed, FALSE)
  <2>1. /\ IsTurn(followed) /\ followed.request = t.request /\ followed.began = t.began
        /\ followed.stop = t.stop /\ followed.reads = t.reads /\ followed.findings = t.findings
        /\ followed.preferences = t.preferences /\ followed.answer.by = routed.by
        /\ followed.answer.facts = {<<"market", selected.revision>>}
        /\ followed.facts = {<<"market", selected.revision>>}
    BY <1>4, <1>6 DEF IsTurn, IsAnswer
  <2>2. selected.revision >= turn.began["market"]
    BY <1>3, <1>6, <1>7, <1>11 DEF MarketIsCurrent
  <2>3. PICK v : v = followed
    OBVIOUS
  <2>4. GoOn(v, FALSE)
    BY <1>11, <2>3
  <2>. HIDE DEF followed
  <2>5. Grounded(v)
    BY <1>1, <1>4, <1>6, <1>7, <1>11, <2>1, <2>2, <2>3, SelectedIsGrounded
  <2>. QED
    BY <1>1, <2>4, <2>5, GoingOnPasses
<1>12. ASSUME NEW source \in Ledgers, NEW constrained \in BOOLEAN, selected.what = "route",
              RouteIsCurrent(t, source), GoOn(along(source, constrained), clarifies)
       PROVE  OmniInv'
  <2>. DEFINE u == along(source, constrained)
  <2>1. /\ IsTurn(u) /\ u.request = t.request /\ u.began = t.began
        /\ u.stop = t.stop /\ u.reads = t.reads /\ u.findings = t.findings
        /\ u.preferences = t.preferences /\ u.answer = path(source)
        /\ u.facts = {<<"route", selected.revision>>}
    BY <1>5, <1>6 DEF IsTurn
  <2>2. selected.revision >= turn.began["route"]
    BY <1>3, <1>6, <1>7, <1>12 DEF RouteIsCurrent
  <2>3. PICK v : v = u
    OBVIOUS
  <2>4. GoOn(v, clarifies)
    BY <1>12, <2>3
  <2>. HIDE DEF u
  <2>5. Grounded(v)
    BY <1>1, <1>5, <1>6, <1>7, <1>12, <2>1, <2>2, <2>3, SelectedIsGrounded
  <2>. QED
    BY <1>1, <2>4, <2>5, GoingOnPasses
<1>13. CASE selected.what # "market" /\ GoOn(t, clarifies)
  <2>1. Grounded(t)
    BY <1>1, <1>13, RoutedIsGrounded DEF t, routed
  <2>. QED
    BY <1>1, <1>13, <2>1, GoingOnPasses
<1>. QED
  BY <1>2, <1>9, <1>10, <1>11, <1>12, <1>13 DEF t, routed, path

\* What is read is of the account, or of what is selected; and what was asked for and not found.
LEMMA RecordsAreSourced ==
  ASSUME OmniInv, turn.pc = "read", NEW reads, reads # {},
         NEW read \in reads,
         read[1] = "read_selected_market" => turn.request.selected.what = "market"
  PROVE  Sourced(turn.answer.about, reads, turn.began, RecordOf(turn, read))
<1>1. turn.request.selected.what = "market" =>
        turn.request.selected.revision >= turn.began["market"]
  BY DEF OmniInv, AtWork, Sound, SelectionHolds
<1>2. CASE read = <<"read_evidence", "unknown">>
  <2>1. RecordOf(turn, read) = <<"identifier", "asked_for">>
    BY <1>2 DEF RecordOf
  <2>. QED
    BY <2>1 DEF Sourced, Selectable
<1>3. CASE read # <<"read_evidence", "unknown">> /\ read[1] = "read_selected_market"
  <2>1. RecordOf(turn, read) = <<"market", turn.request.selected.revision>>
    BY <1>3 DEF RecordOf
  <2>. QED
    BY <1>1, <1>3, <2>1 DEF Sourced
<1>4. CASE read # <<"read_evidence", "unknown">> /\ read[1] # "read_selected_market"
  <2>1. RecordOf(turn, read) = <<"record", turn.answer.about>>
    BY <1>4 DEF RecordOf
  <2>. QED
    BY <2>1 DEF Sourced, Selectable
<1>. QED
  BY <1>2, <1>3, <1>4

\* The answer, with what was not found and what was cut short.
Amends(a, b, stop) ==
  /\ IsAnswer(b) /\ b.about = a.about /\ b.by = a.by
  /\ b.facts \subseteq a.facts \cup {<<"identifier", "asked_for">>}
  /\ stop # "MODEL_DONE" => "partial" \in b.notices

LEMMA RetrievingAmends ==
  ASSUME NEW t, IsTurn(t), NEW reads, NEW stop
  PROVE  LET u == Retrieved(t, reads, stop)
         IN  /\ IsTurn(u) /\ u.pc = "research" /\ u.reads = reads /\ u.stop = stop
             /\ u.facts = t.facts \cup {RecordOf(t, r) : r \in reads}
             /\ Amends(t.answer, u.answer, stop)
             /\ u.request = t.request /\ u.began = t.began /\ u.told = t.told
             /\ u.findings = t.findings /\ u.preferences = t.preferences
             /\ u.constrained = t.constrained
<1>. DEFINE missing == {r \in reads : r[2] = "unknown"}
            looked == [t.answer EXCEPT
                        !.facts = (IF reads = missing THEN {} ELSE @) \cup {<<"identifier", "asked_for">>},
                        !.notices = @ \cup {"not_found"}, !.missing = @ \cup {"not_found"},
                        !.action = IF reads = missing THEN "look_up_again" ELSE @]
            amended == IF missing = {} THEN t.answer ELSE looked
            partial == [amended EXCEPT !.notices = @ \cup {"partial"}, !.missing = @ \cup {"partial"}]
            answer == IF stop = "MODEL_DONE" THEN amended ELSE partial
            more == {RecordOf(t, r) : r \in reads}
            u == [t EXCEPT !.pc = "research", !.reads = reads, !.stop = stop,
                           !.facts = @ \cup more, !.answer = answer]
<1>1. IsAnswer(t.answer)
  BY DEF IsTurn
<1>. HIDE DEF missing
<1>2. /\ IsAnswer(looked) /\ looked.about = t.answer.about /\ looked.by = t.answer.by
      /\ looked.facts \subseteq t.answer.facts \cup {<<"identifier", "asked_for">>}
  BY <1>1 DEF IsAnswer
<1>. HIDE DEF looked
<1>3. /\ IsAnswer(amended) /\ amended.about = t.answer.about /\ amended.by = t.answer.by
      /\ amended.facts \subseteq t.answer.facts \cup {<<"identifier", "asked_for">>}
  BY <1>1, <1>2
<1>. HIDE DEF amended
<1>4. /\ IsAnswer(partial) /\ partial.about = amended.about /\ partial.by = amended.by
      /\ partial.facts = amended.facts /\ "partial" \in partial.notices
  BY <1>3 DEF IsAnswer
<1>. HIDE DEF partial
<1>5. Amends(t.answer, answer, stop) /\ IsAnswer(answer)
  BY <1>3, <1>4 DEF Amends
<1>. HIDE DEF answer, more
<1>6. /\ IsTurn(u) /\ u.pc = "research" /\ u.reads = reads /\ u.stop = stop
      /\ u.facts = t.facts \cup more /\ u.answer = answer
      /\ u.request = t.request /\ u.began = t.began /\ u.told = t.told
      /\ u.findings = t.findings /\ u.preferences = t.preferences
      /\ u.constrained = t.constrained
  BY <1>5 DEF IsTurn
<1>7. Retrieved(t, reads, stop) = u
  BY DEF Retrieved, answer, partial, amended, looked, missing, more
<1>. HIDE DEF u
<1>. QED
  BY <1>5, <1>6, <1>7 DEF more

\* The loop reads of the account and of the selection, and tells when it was cut short.
LEMMA ReadingKeepsOmni ==
  ASSUME OmniInv, ChooseRead
  PROVE  OmniInv'
<1>1. /\ turn.pc = "read" /\ turn.pc \in AtWork /\ UNCHANGED <<revision, omniRun>>
      /\ IsTurn(turn) /\ Sound(turn)
  BY DEF ChooseRead, AtWork, OmniInv, Sound
<1>2. /\ FactsAreSourced(turn) /\ SelectionHolds(turn) /\ turn.answer.by = "deterministic"
      /\ turn.preferences \subseteq {turn.answer.about} /\ turn.stop = "none"
  BY <1>1 DEF Sound, OnlyBegun
<1>3. ASSUME NEW reads, turn.reads \subseteq reads, NEW stop, stop # "none",
             \A read \in reads : read[1] = "read_selected_market" =>
                                   turn.request.selected.what = "market",
             Becomes(Retrieved(turn, reads, stop))
      PROVE  OmniInv'
  <2>1. PICK u : u = Retrieved(turn, reads, stop)
    OBVIOUS
  <2>2. /\ IsTurn(u) /\ u.pc = "research" /\ u.reads = reads /\ u.stop = stop
        /\ u.facts = turn.facts \cup {RecordOf(turn, r) : r \in reads}
        /\ Amends(turn.answer, u.answer, stop)
        /\ u.request = turn.request /\ u.began = turn.began /\ u.told = turn.told
        /\ u.findings = turn.findings /\ u.preferences = turn.preferences
        /\ u.constrained = turn.constrained
    BY <1>1, <2>1, RetrievingAmends
  <2>3. \A read \in reads : Sourced(turn.answer.about, reads, turn.began, RecordOf(turn, read))
    BY <1>1, <1>3, RecordsAreSourced
  <2>4. \A fact \in turn.answer.facts \cup turn.facts \cup turn.findings :
          Sourced(turn.answer.about, reads, turn.began, fact)
    BY <1>2, <1>3 DEF FactsAreSourced, Sourced
  <2>5. Sourced(turn.answer.about, reads, turn.began, <<"identifier", "asked_for">>)
    BY DEF Sourced, Selectable
  <2>6. FactsAreSourced(u)
    BY <2>2, <2>3, <2>4, <2>5 DEF FactsAreSourced, Amends
  <2>7. Sound(u)
    BY <1>1, <1>2, <1>3, <2>2, <2>6
    DEF Amends, Sound, SelectionHolds, OnlyBegun, StopsAreTold, WordsPassed
  <2>. QED
    BY <1>1, <1>3, <2>1, <2>2, <2>7, BecomesSound DEF AtWork
<1>4. \A read \in ToolsFor(turn) : read[1] = "read_selected_market" =>
                                     turn.request.selected.what = "market"
  BY DEF ToolsFor
<1>5. \A read \in turn.reads : read[1] = "read_selected_market" =>
                                 turn.request.selected.what = "market"
  BY <1>1, <1>2 DEF SelectionHolds
<1>6. CASE \E stop \in Stops : Becomes(Retrieved(turn, turn.reads, stop))
  BY <1>3, <1>5, <1>6 DEF Stops
<1>7. ASSUME NEW read \in ToolsFor(turn), NEW reads, reads = turn.reads \cup {read},
             Becomes([turn EXCEPT !.reads = reads])
      PROVE  OmniInv'
  <2>1. PICK u : u = [turn EXCEPT !.reads = reads]
    OBVIOUS
  <2>2. /\ IsTurn(u) /\ u.pc = "read" /\ u.reads = reads /\ u.stop = turn.stop
        /\ u.facts = turn.facts /\ u.answer = turn.answer
        /\ u.request = turn.request /\ u.began = turn.began /\ u.told = turn.told
        /\ u.findings = turn.findings /\ u.preferences = turn.preferences
        /\ u.constrained = turn.constrained
    BY <1>1, <2>1 DEF IsTurn
  <2>3. FactsAreSourced(u)
    BY <1>2, <1>7, <2>2 DEF FactsAreSourced, Sourced
  <2>4. Sound(u)
    BY <1>1, <1>2, <1>4, <1>5, <1>7, <2>2, <2>3
    DEF Sound, SelectionHolds, OnlyBegun, StopsAreTold, WordsPassed
  <2>. QED
    BY <1>1, <1>7, <2>1, <2>2, <2>4, BecomesSound DEF AtWork
<1>8. ASSUME NEW read \in ToolsFor(turn), NEW reads, reads = turn.reads \cup {read},
             \/ Becomes(Retrieved(turn, turn.reads, "REPEATED_READ"))
             \/ Becomes(Retrieved(turn, turn.reads, "EVIDENCE_BUDGET"))
             \/ Becomes(Retrieved(turn, reads, "TOOL_BUDGET"))
      PROVE  OmniInv'
  BY <1>3, <1>4, <1>5, <1>8
<1>. QED
  BY <1>6, <1>7, <1>8 DEF ChooseRead

\* Findings are public.
LEMMA ResearchingKeepsOmni ==
  ASSUME OmniInv, Research
  PROVE  OmniInv'
<1>1. /\ turn.pc = "research" /\ turn.pc \in AtWork /\ UNCHANGED <<revision, omniRun>>
      /\ IsTurn(turn) /\ IsAnswer(turn.answer) /\ Sound(turn)
  BY DEF Research, AtWork, OmniInv, Sound, IsTurn
<1>2. /\ FactsAreSourced(turn) /\ SelectionHolds(turn) /\ turn.answer.by = "deterministic"
      /\ turn.preferences \subseteq {turn.answer.about} /\ StopsAreTold(turn)
  BY <1>1 DEF Sound, OnlyBegun
<1>. DEFINE With(findings) ==
              [turn EXCEPT !.pc = "word", !.findings = findings, !.answer.facts = @ \cup findings]
            without == [turn EXCEPT !.pc = "word", !.answer.missing = @ \cup {"no_research"}]
<1>3. \/ turn' = With(turn.findings) \/ turn' = without
      \/ turn' = With(turn.findings \cup FindingsAbout(turn.answer.about))
  <2>. DEFINE t == [turn EXCEPT !.pc = "word"]
  <2>1. \A findings : [t EXCEPT !.findings = findings, !.answer.facts = @ \cup findings]
                        = With(findings)
    BY <1>1 DEF IsTurn
  <2>2. [t EXCEPT !.answer.missing = @ \cup {"no_research"}] = without
    BY <1>1 DEF IsTurn
  <2>. QED
    BY <2>1, <2>2 DEF Research, Becomes
<1>4. ASSUME NEW u, turn' = u, IsTurn(u), u.pc = "word", u.reads = turn.reads, u.stop = turn.stop,
             u.request = turn.request, u.began = turn.began, u.told = turn.told,
             u.facts = turn.facts, u.preferences = turn.preferences,
             u.constrained = turn.constrained, u.answer.about = turn.answer.about,
             u.answer.by = turn.answer.by, u.answer.notices = turn.answer.notices,
             u.answer.facts \cup u.findings \subseteq
               turn.answer.facts \cup turn.findings \cup FindingsAbout(turn.answer.about)
      PROVE  OmniInv'
  <2>1. \A fact \in FindingsAbout(turn.answer.about) :
          Sourced(turn.answer.about, turn.reads, turn.began, fact)
    BY DEF FindingsAbout, Sourced, Selectable
  <2>2. FactsAreSourced(u)
    BY <1>2, <1>4, <2>1 DEF FactsAreSourced
  <2>3. Sound(u)
    BY <1>1, <1>2, <1>4, <2>2 DEF Sound, SelectionHolds, OnlyBegun, StopsAreTold, WordsPassed
  <2>. QED
    BY <1>1, <1>4, <2>3, BecomesSound DEF Becomes, AtWork
<1>5. ASSUME NEW findings, turn' = With(findings),
             findings \subseteq turn.findings \cup FindingsAbout(turn.answer.about)
      PROVE  OmniInv'
  <2>1. PICK u : u = With(findings)
    OBVIOUS
  <2>2. /\ IsTurn(u) /\ u.pc = "word" /\ u.reads = turn.reads /\ u.stop = turn.stop
        /\ u.request = turn.request /\ u.began = turn.began /\ u.told = turn.told
        /\ u.facts = turn.facts /\ u.preferences = turn.preferences
        /\ u.constrained = turn.constrained /\ u.answer.about = turn.answer.about
        /\ u.answer.by = turn.answer.by /\ u.answer.notices = turn.answer.notices
        /\ u.answer.facts = turn.answer.facts \cup findings /\ u.findings = findings
    BY <1>1, <2>1 DEF IsTurn, IsAnswer
  <2>3. turn' = u
    BY <1>5, <2>1
  <2>. HIDE DEF With
  <2>. QED
    BY <1>4, <1>5, <2>2, <2>3
<1>6. CASE turn' = without
  <2>1. PICK u : u = without
    OBVIOUS
  <2>2. /\ IsTurn(u) /\ u.pc = "word" /\ u.reads = turn.reads /\ u.stop = turn.stop
        /\ u.request = turn.request /\ u.began = turn.began /\ u.told = turn.told
        /\ u.facts = turn.facts /\ u.preferences = turn.preferences
        /\ u.constrained = turn.constrained /\ u.answer.about = turn.answer.about
        /\ u.answer.by = turn.answer.by /\ u.answer.notices = turn.answer.notices
        /\ u.answer.facts = turn.answer.facts /\ u.findings = turn.findings
    BY <1>1, <2>1 DEF IsTurn, IsAnswer
  <2>3. turn' = u
    BY <1>6, <2>1
  <2>. HIDE DEF without
  <2>. QED
    BY <1>4, <2>2, <2>3
<1>. HIDE DEF With, without
<1>. QED
  BY <1>3, <1>5, <1>6

\* What words are compared with is what the answer may draw on.
LEMMA GroundsAreSourced ==
  ASSUME NEW t, FactsAreSourced(t), NEW fact \in Grounds(t)
  PROVE  Sourced(t.answer.about, t.reads, t.began, fact)
<1>1. Sourced(t.answer.about, t.reads, t.began, <<"boundary", "contract">>)
  BY DEF Sourced, Selectable
<1>. QED
  BY <1>1 DEF Grounds, FactsAreSourced

\* Words of a model are shown when they passed both checks, and the contract stays.
LEMMA WordingKeepsOmni ==
  ASSUME OmniInv, Word
  PROVE  OmniInv'
<1>1. /\ turn.pc = "word" /\ turn.pc \in AtWork /\ UNCHANGED <<revision, omniRun>>
      /\ IsTurn(turn) /\ IsAnswer(turn.answer) /\ Sound(turn)
  BY DEF Word, AtWork, OmniInv, Sound, IsTurn
<1>2. /\ FactsAreSourced(turn) /\ turn.answer.by = "deterministic"
      /\ turn.preferences \subseteq {turn.answer.about} /\ StopsAreTold(turn)
  BY <1>1 DEF Sound, OnlyBegun
<1>3. ASSUME NEW answer, IsAnswer(answer), answer.about = turn.answer.about,
             \A fact \in answer.facts : Sourced(turn.answer.about, turn.reads, turn.began, fact),
             turn.answer.notices \cap {"partial"} \subseteq answer.notices,
             WordsPassed(turn, answer),
             Finish(turn, WithContract(turn.request.asks, answer))
      PROVE  OmniInv'
  <2>1. PICK a : a = WithContract(turn.request.asks, answer)
    OBVIOUS
  <2>2. /\ Keeps(answer, a)
        /\ UnderContract(turn.request.asks) => a.boundary = TRUE /\ a.action = "contract"
    BY <1>3, <2>1, ContractKeepsAnswer
  <2>3. ContractIsTold(turn, a) /\ WordsPassed(turn, a)
    BY <1>3, <2>2 DEF ContractIsTold, WordsPassed, Keeps
  <2>4. turn.stop \notin {"none", "MODEL_DONE"} => "partial" \in a.notices
    BY <1>2, <1>3, <2>2 DEF StopsAreTold, Keeps
  <2>5. \A fact \in a.facts \cup turn.facts \cup turn.findings :
          Sourced(a.about, turn.reads, turn.began, fact)
    BY <1>2, <1>3, <2>2 DEF FactsAreSourced, Keeps
  <2>6. IsAnswer(a) /\ a.about = turn.answer.about /\ Finish(turn, a)
    BY <1>3, <2>1, <2>2 DEF Keeps
  <2>. QED
    BY <1>1, <1>2, <2>3, <2>4, <2>5, <2>6, FinishKeepsOmni
<1>4. \A fact \in turn.answer.facts : Sourced(turn.answer.about, turn.reads, turn.began, fact)
  BY <1>2 DEF FactsAreSourced
<1>5. ASSUME NEW status,
             Finish(turn, WithContract(turn.request.asks, Deterministic(turn.answer, status)))
      PROVE  OmniInv'
  <2>1. PICK a : a = Deterministic(turn.answer, status)
    OBVIOUS
  <2>2. Keeps(turn.answer, a)
    BY <1>1, <2>1, StatusKeepsAnswer
  <2>3. WordsPassed(turn, a)
    BY <1>2, <2>2 DEF Keeps, WordsPassed
  <2>. QED
    BY <1>3, <1>4, <1>5, <2>1, <2>2, <2>3 DEF Keeps
<1>6. CASE Finish(turn, WithContract(turn.request.asks,
                [turn.answer EXCEPT !.status = "UNAVAILABLE", !.missing = @ \cup {"rejected"}]))
  <2>1. PICK a : a = [turn.answer EXCEPT !.status = "UNAVAILABLE", !.missing = @ \cup {"rejected"}]
    OBVIOUS
  <2>2. Keeps(turn.answer, a)
    BY <1>1, <2>1 DEF Keeps, IsAnswer
  <2>3. WordsPassed(turn, a)
    BY <1>2, <2>2 DEF Keeps, WordsPassed
  <2>. QED
    BY <1>3, <1>4, <1>6, <2>1, <2>2, <2>3 DEF Keeps
<1>7. ASSUME NEW prose, ~SynthesisRejected(turn, prose), ~AssessmentRejected(turn, prose),
             Finish(turn, WithContract(turn.request.asks,
                      Worded(turn.answer, prose, turn.answer.notices \cap {"partial"})))
      PROVE  OmniInv'
  <2>1. PICK a : a = Worded(turn.answer, prose, turn.answer.notices \cap {"partial"})
    OBVIOUS
  <2>2. /\ IsAnswer(a) /\ a.about = turn.answer.about /\ a.facts \subseteq Grounds(turn)
        /\ a.notices = turn.answer.notices \cap {"partial"}
        /\ a.by = "model" /\ a.fault = prose.fault
    BY <1>1, <1>7, <2>1, WordsAreOne DEF SynthesisRejected
  <2>3. \A fact \in a.facts : Sourced(turn.answer.about, turn.reads, turn.began, fact)
    BY <1>2, <2>2, GroundsAreSourced
  <2>4. WordsPassed(turn, a)
    BY <1>7, <2>2 DEF SynthesisRejected, AssessmentRejected, WordsPassed
  <2>. QED
    BY <1>3, <1>7, <2>1, <2>2, <2>3, <2>4
<1>. QED
  BY <1>5, <1>6, <1>7 DEF Word

LEMMA OmniSteps == OmniInv /\ [AnswerNext]_answerVars => OmniInv'
<1>. SUFFICES ASSUME OmniInv, [AnswerNext]_answerVars PROVE OmniInv'
  OBVIOUS
<1>1. CASE UNCHANGED answerVars
  BY <1>1 DEF answerVars, OmniInv, Sound, IsTurn, IsAnswer, FactsAreSourced, Sourced,
              SelectionHolds, OnlyBegun, StopsAreTold, ContractIsTold, WordsPassed, Finished
<1>. QED
  BY <1>1, AskingKeepsOmni, FailingKeepsOmni, ExplainingKeepsOmni, InterpretingKeepsOmni,
     GroundingKeepsOmni, ReadingKeepsOmni, ResearchingKeepsOmni, WordingKeepsOmni,
     RecordingKeepsOmni, SupersedingKeepsOmni
  DEF AnswerNext

\* What is shown is as it was finished.
LEMMA SoundIsChecked ==
  ASSUME OmniInv
  PROVE  OmniIsChecked
<1>1. CASE turn.pc \in {"finish", "answered"}
  <2>1. PICK t : t = Finished(turn)
    OBVIOUS
  <2>2. IsTurn(turn)
    BY <1>1 DEF OmniInv, AtWork, Sound
  <2>3. GoesOn(turn, t) /\ t.answer = turn.answer /\ t.pc = "finish"
    BY <2>1, <2>2 DEF Finished, IsTurn, GoesOn
  <2>4. turn.pc = "finish" => t = turn
    BY <2>1, <2>2 DEF Finished, IsTurn
  <2>5. Sound(t)
    BY <1>1, <2>1, <2>4 DEF OmniInv, AtWork
  <2>6. FiguresAreGrounded /\ WordsAreChecked
    BY <2>3, <2>5
    DEF GoesOn, Sound, FactsAreSourced, Sourced, WordsPassed, FiguresAreGrounded, WordsAreChecked, Concluded
  <2>7. LimitsAreTold
    BY <2>3, <2>5 DEF GoesOn, Sound, StopsAreTold, ContractIsTold, LimitsAreTold, Concluded
  <2>8. SelectionsAreCurrent
    BY <2>3, <2>5 DEF GoesOn, Sound, FactsAreSourced, Sourced, SelectionsAreCurrent, Concluded
  <2>9. PrivacyIsKept
    BY <2>3, <2>5 DEF GoesOn, Sound, PrivacyIsKept, Concluded
  <2>10. AnswersAreRecorded
    BY <1>1 DEF OmniInv, AtWork, AnswersAreRecorded
  <2>. QED
    BY <2>6, <2>7, <2>8, <2>9, <2>10 DEF OmniIsChecked
<1>2. CASE turn.pc \notin {"finish", "answered"}
  BY <1>2 DEF OmniIsChecked, FiguresAreGrounded, WordsAreChecked, LimitsAreTold, SelectionsAreCurrent, PrivacyIsKept,
              Concluded, AnswersAreRecorded, OmniInv, AtWork
<1>. QED
  BY <1>1, <1>2

\* Whatever a model answers, chooses to read or fails to, and whatever is superseded while it is
\* asked, an answer that is finished or shown gives no figure but what was read for this request
\* about its account, none that is private or older than the request, claims no execution and
\* promises nothing over a constraint, tells when its reads were cut short and what it did not
\* do, and is shown when its run holds it: for all accounts, any wordings and faults, and any
\* number of reads and revisions.  What words without figures say nobody checks.
THEOREM AnswersAreChecked == AnswerSpec => []OmniIsChecked
<1>1. AnswerSpec => []OmniInv
  BY OmniStarts, OmniSteps, PTL DEF AnswerSpec
<1>. QED
  BY <1>1, SoundIsChecked, PTL

-----------------------------------------------------------------------------
(***************************************************************************)
(* The search for routes.                                                  *)
(***************************************************************************)
NodeAt(w, k) == IF k = 0 THEN Start ELSE w[k].to

\* A simple walk from the start that may be seen, of steps of this graph.
IsWalk(w) ==
  \A k \in DOMAIN w :
    /\ w[k].from = NodeAt(w, k - 1) /\ Allowed(w[k])
    /\ \A j \in 0..(k - 1) : w[k].to # NodeAt(w, j)

WalksUpTo(n) == {w \in Seq(Steps) : Len(w) <= n /\ IsWalk(w)}

RouteSet ==
  {w \in WalksUpTo(MaxDepth) : w # <<>> /\ Tokens(w) \in Templates /\ w[Len(w)].to \in Targets}

NodesOf(w) == [i \in 1..(Len(w) + 1) |-> NodeAt(w, i - 1)]

Partial(w) == [hops |-> w, nodes |-> NodesOf(w)]
Partials == {Partial(w) : w \in WalksUpTo(MaxDepth)}

\* The route w begins as the partial route p does, and goes on.
Begins(p, w) == Len(p.hops) < Len(w) /\ \A i \in DOMAIN p.hops : p.hops[i] = w[i]

\* It will be found: its beginning is to be extended, or its next step is to be examined.
InSome(routes, w) == \E i \in DOMAIN routes : Begins(routes[i], w)
InStep(route, steps, w) == route # Idle /\ Begins(route, w) /\ w[Len(route.hops) + 1] \in steps
Ahead(w) == InSome(stack, w) \/ InSome(children, w) \/ InStep(current, pending, w)

SearchTypes ==
  /\ stack \in Seq(Partials) /\ children \in Seq(Partials) /\ current \in Partials \cup {Idle}
  /\ current = Idle => pending = {} /\ children = <<>>
  /\ current # Idle =>
       /\ Len(current.hops) < MaxDepth
       /\ pending \subseteq Steps
       /\ \A s \in pending : s.from = NodeAt(current.hops, Len(current.hops))
  /\ stopReason \in {"none", "CANCELLED", "DEADLINE", "EXPANSION_LIMIT", "CANDIDATE_LIMIT"}

SearchIsBounded ==
  /\ examined \in 0..MaxExpansions
  /\ IsFiniteSet(paths) /\ Cardinality(paths) <= MaxCandidates
  /\ stopReason = "none" => Cardinality(paths) < MaxCandidates

\* SearchIsHonest is not inductive: while the search goes on, every route there is has
\* been found or is still ahead.
SearchInv ==
  /\ SearchTypes /\ SearchIsBounded
  /\ paths \subseteq RouteSet
  /\ stopReason = "none" => \A w \in RouteSet : w \in paths \/ Ahead(w)

-----------------------------------------------------------------------------
LEMMA SearchConstants ==
  /\ MaxDepth \in Nat \ {0} /\ MaxExpansions \in Nat \ {0} /\ MaxCandidates \in Nat \ {0}
  /\ Start \notin Guarded /\ Targets \cap Guarded = {}
BY QueryIsBounded

\* The graph and the reader stay what they are while a search goes on.
LEMMA GraphStays ==
  ASSUME graph' = graph, authorized' = authorized
  PROVE  /\ Steps' = Steps /\ RouteSet' = RouteSet /\ Partials' = Partials
         /\ \A node : StepsFrom(node)' = StepsFrom(node)
<1>1. Steps' = Steps
  BY DEF Steps, Step
<1>2. \A s : Allowed(s)' <=> Allowed(s)
  BY DEF Allowed
<1>3. \A w : IsWalk(w)' <=> IsWalk(w)
  BY <1>2 DEF IsWalk
<1>4. \A n : WalksUpTo(n)' = WalksUpTo(n)
  BY <1>1, <1>3 DEF WalksUpTo
<1>5. WalksUpTo(MaxDepth)' = WalksUpTo(MaxDepth)
  BY <1>4
<1>6. RouteSet' = RouteSet /\ Partials' = Partials
  BY <1>5 DEF RouteSet, Partials
<1>. QED
  BY <1>1, <1>6 DEF StepsFrom

LEMMA EmptyIsWalk ==
  /\ <<>> \in WalksUpTo(MaxDepth)
  /\ Partial(<<>>) = [hops |-> <<>>, nodes |-> <<Start>>]
<1>1. NodesOf(<<>>) = <<Start>>
  BY DEF NodesOf, NodeAt
<1>2. <<>> \in Seq(Steps) /\ IsWalk(<<>>) /\ Len(<<>>) = 0
  BY DEF IsWalk
<1>. QED
  BY <1>1, <1>2, SearchConstants DEF WalksUpTo, Partial

\* The nodes of a walk are its start and where its steps lead.
LEMMA NodesAre ==
  ASSUME NEW w \in Seq(Steps)
  PROVE  /\ Len(w) \in Nat /\ Len(NodesOf(w)) = Len(w) + 1
         /\ DOMAIN NodesOf(w) = 1..(Len(w) + 1)
         /\ ToSet(NodesOf(w)) = {NodeAt(w, j) : j \in 0..Len(w)}
         /\ Last(NodesOf(w)) = NodeAt(w, Len(w))
<1>1. Len(w) \in Nat
  OBVIOUS
<1>2. DOMAIN NodesOf(w) = 1..(Len(w) + 1) /\ Len(NodesOf(w)) = Len(w) + 1
  BY <1>1 DEF NodesOf
<1>3. \A i \in 1..(Len(w) + 1) : NodesOf(w)[i] = NodeAt(w, i - 1)
  BY DEF NodesOf
<1>4. ToSet(NodesOf(w)) = {NodeAt(w, j) : j \in 0..Len(w)}
  <2>1. \A i \in 1..(Len(w) + 1) : i - 1 \in 0..Len(w)
    BY <1>1
  <2>2. \A j \in 0..Len(w) : j + 1 \in 1..(Len(w) + 1) /\ (j + 1) - 1 = j
    BY <1>1
  <2>3. ASSUME NEW x \in ToSet(NodesOf(w))
        PROVE  x \in {NodeAt(w, j) : j \in 0..Len(w)}
    BY <1>2, <1>3, <2>1 DEF ToSet
  <2>4. ASSUME NEW j \in 0..Len(w)
        PROVE  NodeAt(w, j) \in ToSet(NodesOf(w))
    <3>1. NodesOf(w)[j + 1] = NodeAt(w, j)
      BY <1>3, <2>2
    <3>. QED
      BY <1>2, <2>2, <3>1 DEF ToSet
  <2>. QED
    BY <2>3, <2>4
<1>5. Last(NodesOf(w)) = NodeAt(w, Len(w))
  <2>1. Len(w) + 1 \in 1..(Len(w) + 1) /\ (Len(w) + 1) - 1 = Len(w)
    BY <1>1
  <2>. QED
    BY <1>2, <1>3, <2>1 DEF Last
<1>. QED
  BY <1>1, <1>2, <1>4, <1>5

LEMMA WalkGoesOn ==
  ASSUME NEW v \in Seq(Steps), NEW s \in Steps
  PROVE  /\ Append(v, s) \in Seq(Steps) /\ Len(Append(v, s)) = Len(v) + 1
         /\ \A k \in 1..Len(v) : Append(v, s)[k] = v[k]
         /\ Append(v, s)[Len(v) + 1] = s
         /\ \A j \in 0..Len(v) : NodeAt(Append(v, s), j) = NodeAt(v, j)
         /\ NodeAt(Append(v, s), Len(v) + 1) = s.to
         /\ IsWalk(Append(v, s)) <=>
              /\ IsWalk(v) /\ s.from = NodeAt(v, Len(v)) /\ Allowed(s)
              /\ \A j \in 0..Len(v) : s.to # NodeAt(v, j)
<1>. DEFINE w == Append(v, s)
            n == Len(v)
<1>1. n \in Nat /\ w \in Seq(Steps) /\ Len(w) = n + 1 /\ DOMAIN w = 1..(n + 1) /\ DOMAIN v = 1..n
  OBVIOUS
<1>2. (\A k \in 1..n : w[k] = v[k]) /\ w[n + 1] = s
  OBVIOUS
<1>. HIDE DEF w
<1>3. \A j \in 0..n : NodeAt(w, j) = NodeAt(v, j)
  <2>1. \A j \in 0..n : j # 0 => j \in 1..n
    BY <1>1
  <2>. QED
    BY <1>2, <2>1 DEF NodeAt
<1>4. NodeAt(w, n + 1) = s.to
  BY <1>1, <1>2 DEF NodeAt
<1>. DEFINE At(u, k) == /\ u[k].from = NodeAt(u, k - 1) /\ Allowed(u[k])
                        /\ \A j \in 0..(k - 1) : u[k].to # NodeAt(u, j)
<1>5. \A k \in 1..n : At(w, k) <=> At(v, k)
  <2>1. \A k \in 1..n : k - 1 \in 0..n /\ \A j \in 0..(k - 1) : j \in 0..n
    BY <1>1
  <2>. QED
    BY <1>2, <1>3, <2>1
<1>6. At(w, n + 1) <=> /\ s.from = NodeAt(v, n) /\ Allowed(s)
                       /\ \A j \in 0..n : s.to # NodeAt(v, j)
  <2>1. (n + 1) - 1 = n /\ n \in 0..n
    BY <1>1
  <2>. QED
    BY <1>2, <1>3, <2>1
<1>7. IsWalk(w) <=> \A k \in 1..(n + 1) : At(w, k)
  BY <1>1 DEF IsWalk
<1>8. IsWalk(v) <=> \A k \in 1..n : At(v, k)
  BY <1>1 DEF IsWalk
<1>9. \A k : k \in 1..(n + 1) <=> k \in 1..n \/ k = n + 1
  BY <1>1
<1>10. IsWalk(w) <=> /\ IsWalk(v) /\ s.from = NodeAt(v, n) /\ Allowed(s)
                     /\ \A j \in 0..n : s.to # NodeAt(v, j)
  <2>. HIDE DEF At
  <2>. QED
    BY <1>5, <1>6, <1>7, <1>8, <1>9
<1>. QED
  BY <1>1, <1>2, <1>3, <1>4, <1>10 DEF w

LEMMA PartialGoesOn ==
  ASSUME NEW v \in Seq(Steps), NEW s \in Steps
  PROVE  Partial(Append(v, s)) = [hops |-> Append(v, s), nodes |-> Append(NodesOf(v), s.to)]
<1>. DEFINE w == Append(v, s)
            n == Len(v)
<1>1. /\ w \in Seq(Steps) /\ Len(w) = n + 1 /\ n \in Nat
      /\ \A j \in 0..n : NodeAt(w, j) = NodeAt(v, j)
      /\ NodeAt(w, n + 1) = s.to
  BY WalkGoesOn, NodesAre
<1>2. NodesOf(w) = [i \in 1..(n + 2) |-> NodeAt(w, i - 1)]
  <2>1. Len(w) + 1 = n + 2
    BY <1>1
  <2>. QED
    BY <2>1 DEF NodesOf
<1>3. Append(NodesOf(v), s.to) = [i \in 1..(n + 2) |-> IF i = n + 2 THEN s.to ELSE NodesOf(v)[i]]
  <2>1. Len(NodesOf(v)) = n + 1 /\ (n + 1) + 1 = n + 2
    BY <1>1, NodesAre
  <2>. QED
    BY <2>1
<1>4. ASSUME NEW i \in 1..(n + 2)
      PROVE  NodeAt(w, i - 1) = IF i = n + 2 THEN s.to ELSE NodesOf(v)[i]
  <2>1. CASE i = n + 2
    <3>1. i - 1 = n + 1
      BY <1>1, <2>1
    <3>. QED
      BY <1>1, <2>1, <3>1
  <2>2. CASE i # n + 2
    <3>1. i \in 1..(n + 1) /\ i - 1 \in 0..n
      BY <1>1, <2>2
    <3>2. NodesOf(v)[i] = NodeAt(v, i - 1)
      BY <3>1 DEF NodesOf
    <3>. QED
      BY <1>1, <2>2, <3>1, <3>2
  <2>. QED
    BY <2>1, <2>2
<1>5. NodesOf(w) = Append(NodesOf(v), s.to)
  <2>. HIDE DEF w, n
  <2>. QED
    BY <1>2, <1>3, <1>4
<1>. QED
  BY <1>5 DEF Partial

LEMMA PrefixOf ==
  ASSUME NEW S, NEW s \in Seq(S), NEW t \in Seq(S), Len(s) <= Len(t),
         \A i \in 1..Len(s) : s[i] = t[i]
  PROVE  IsPrefix(s, t)
<1>1. Len(s) \in Nat /\ DOMAIN s = 1..Len(s) /\ DOMAIN t = 1..Len(t) /\ Len(t) \in Nat
  OBVIOUS
<1>2. \A u : SubSeq(u, 1, Len(s)) = [i \in 1..Len(s) |-> u[i]]
  BY <1>1
<1>. QED
  BY <1>2 DEF IsPrefix

-----------------------------------------------------------------------------
\* What the recursive definition of the walks computes: every walk of that length.
LEMMA OnwardIs ==
  ASSUME NEW v \in Seq(Steps), IsWalk(v), NEW s \in Steps
  PROVE  s \in Onward(v) <=> /\ s.from = NodeAt(v, Len(v)) /\ Allowed(s)
                             /\ \A j \in 0..Len(v) : s.to # NodeAt(v, j)
<1>. DEFINE n == Len(v)
            at == NodeAt(v, n)
<1>1. n \in Nat /\ DOMAIN v = 1..n
  OBVIOUS
<1>2. Visited(v) = {NodeAt(v, j) : j \in 0..n}
  <2>1. \A j \in 0..n : j = 0 \/ j \in 1..n
    BY <1>1
  <2>2. 0 \in 0..n /\ \A j \in 1..n : j \in 0..n /\ j # 0
    BY <1>1
  <2>. QED
    BY <1>1, <2>1, <2>2 DEF Visited, NodeAt
<1>3. (IF v = <<>> THEN Start ELSE Last(v).to) = at
  <2>1. v = <<>> <=> n = 0
    OBVIOUS
  <2>. QED
    BY <2>1 DEF NodeAt, Last
<1>4. at \notin Guarded \ authorized
  <2>1. CASE n = 0
    BY <2>1, SearchConstants DEF NodeAt
  <2>2. CASE n # 0
    <3>1. n \in DOMAIN v /\ at = v[n].to
      BY <1>1, <2>2 DEF NodeAt
    <3>2. Allowed(v[n])
      BY <3>1 DEF IsWalk
    <3>3. v[n].to \notin Guarded \ authorized
      BY <3>2 DEF Allowed
    <3>. QED
      BY <3>1, <3>3
  <2>. QED
    BY <2>1, <2>2
<1>5. s.from = at => (Allowed(s) <=> s.usable /\ s.to \notin Guarded \ authorized)
  <2>1. ASSUME s.from = at, s.to \notin Guarded \ authorized
        PROVE  {s.from, s.to} \cap Guarded \subseteq authorized
    BY <1>4, <2>1
  <2>2. ASSUME {s.from, s.to} \cap Guarded \subseteq authorized
        PROVE  s.to \notin Guarded \ authorized
    BY <2>2
  <2>. HIDE DEF at
  <2>. QED
    BY <2>1, <2>2, Zenon DEF Allowed
<1>6. s \in Onward(v) <=> s.usable /\ s.to \notin Visited(v) \cup (Guarded \ authorized) /\ s.from = at
  <2>. HIDE DEF at
  <2>. QED
    BY <1>3, Zenon DEF Onward
<1>7. s.to \notin Visited(v) \cup (Guarded \ authorized) <=>
        s.to \notin Guarded \ authorized /\ \A j \in 0..n : s.to # NodeAt(v, j)
  BY <1>2
<1>. HIDE DEF at, n
<1>8. s \in Onward(v) <=> s.from = at /\ Allowed(s) /\ \A j \in 0..n : s.to # NodeAt(v, j)
  BY <1>5, <1>6, <1>7, Zenon
<1>. QED
  BY <1>8 DEF at, n

WalksOfLength(n) == {w \in Seq(Steps) : Len(w) = n /\ IsWalk(w)}

LEMMA LongerWalks ==
  ASSUME NEW n \in Nat
  PROVE  WalksOfLength(n + 1) = UNION {{Append(w, s) : s \in Onward(w)} : w \in WalksOfLength(n)}
<1>1. ASSUME NEW v \in WalksOfLength(n), NEW s \in Onward(v)
      PROVE  Append(v, s) \in WalksOfLength(n + 1)
  <2>1. v \in Seq(Steps) /\ IsWalk(v) /\ Len(v) = n /\ s \in Steps
    BY DEF WalksOfLength, Onward
  <2>. QED
    BY <1>1, <2>1, OnwardIs, WalkGoesOn DEF WalksOfLength
<1>2. ASSUME NEW w \in WalksOfLength(n + 1)
      PROVE  \E v \in WalksOfLength(n) : \E s \in Onward(v) : w = Append(v, s)
  <2>. DEFINE v == [i \in 1..n |-> w[i]]
              s == w[n + 1]
  <2>1. w \in Seq(Steps) /\ Len(w) = n + 1 /\ IsWalk(w) /\ DOMAIN w = 1..(n + 1)
    BY DEF WalksOfLength
  <2>2. \A i \in 1..n : i \in 1..(n + 1)
    OBVIOUS
  <2>3. v \in Seq(Steps) /\ Len(v) = n /\ s \in Steps /\ DOMAIN v = 1..n
    BY <2>1, <2>2
  <2>4. Append(v, s) \in Seq(Steps) /\ Len(Append(v, s)) = n + 1
        /\ \A k \in 1..(n + 1) : Append(v, s)[k] = w[k]
    <3>1. \A k \in 1..(n + 1) : k = n + 1 \/ k \in 1..n
      OBVIOUS
    <3>2. \A k \in 1..n : v[k] = w[k]
      OBVIOUS
    <3>. HIDE DEF v, s
    <3>3. /\ Append(v, s) \in Seq(Steps) /\ Len(Append(v, s)) = n + 1
          /\ \A k \in 1..n : Append(v, s)[k] = v[k]
          /\ Append(v, s)[n + 1] = s
      BY <2>3, WalkGoesOn
    <3>. QED
      BY <3>1, <3>2, <3>3 DEF s
  <2>5. w = Append(v, s)
    <3>. HIDE DEF v, s
    <3>. QED
      BY <2>1, <2>4
  <2>6. IsWalk(v) /\ s.from = NodeAt(v, Len(v)) /\ Allowed(s)
        /\ \A j \in 0..Len(v) : s.to # NodeAt(v, j)
    <3>. HIDE DEF v, s
    <3>. QED
      BY <2>1, <2>3, <2>5, WalkGoesOn
  <2>7. v \in WalksOfLength(n)
    <3>. HIDE DEF v, s
    <3>. QED
      BY <2>3, <2>6 DEF WalksOfLength
  <2>8. s \in Onward(v)
    <3>. HIDE DEF v, s
    <3>. QED
      BY <2>3, <2>6, OnwardIs
  <2>. HIDE DEF v, s
  <2>. QED
    BY <2>5, <2>7, <2>8
<1>3. WalksOfLength(n + 1) \subseteq UNION {{Append(w, s) : s \in Onward(w)} : w \in WalksOfLength(n)}
  <2>1. ASSUME NEW w \in WalksOfLength(n + 1)
        PROVE  w \in UNION {{Append(u, s) : s \in Onward(u)} : u \in WalksOfLength(n)}
    <3>1. PICK v \in WalksOfLength(n) : \E s \in Onward(v) : w = Append(v, s)
      BY <1>2
    <3>2. w \in {Append(v, s) : s \in Onward(v)}
      BY <3>1
    <3>. QED
      BY <3>2
  <2>. QED
    BY <2>1
<1>4. UNION {{Append(w, s) : s \in Onward(w)} : w \in WalksOfLength(n)} \subseteq WalksOfLength(n + 1)
  <2>1. ASSUME NEW w \in UNION {{Append(u, s) : s \in Onward(u)} : u \in WalksOfLength(n)}
        PROVE  w \in WalksOfLength(n + 1)
    <3>1. PICK v \in WalksOfLength(n) : w \in {Append(v, s) : s \in Onward(v)}
      OBVIOUS
    <3>2. PICK s \in Onward(v) : w = Append(v, s)
      BY <3>1
    <3>. QED
      BY <1>1, <3>2
  <2>. QED
    BY <2>1
<1>. QED
  BY <1>3, <1>4

\* The definition is recursive: it has a solution, which it therefore is, and, by
\* induction on the length, no other.
LEMMA WalksAre ==
  ASSUME NEW n \in 0..MaxDepth
  PROVE  WalksOf[n] = WalksOfLength(n)
<1>. DEFINE F(f) == [m \in 0..MaxDepth |->
                       IF m = 0 THEN {<<>>}
                       ELSE UNION {{Append(w, s) : s \in Onward(w)} : w \in f[m - 1]}]
            g == [m \in 0..MaxDepth |-> WalksOfLength(m)]
<1>0. MaxDepth \in Nat
  BY SearchConstants
<1>1. WalksOfLength(0) = {<<>>}
  <2>1. <<>> \in Seq(Steps) /\ IsWalk(<<>>) /\ Len(<<>>) = 0
    BY DEF IsWalk
  <2>2. \A w \in Seq(Steps) : Len(w) = 0 => w = <<>>
    OBVIOUS
  <2>. QED
    BY <2>1, <2>2 DEF WalksOfLength
<1>2. \A m \in 0..MaxDepth : m # 0 => m - 1 \in 0..MaxDepth /\ m - 1 \in Nat /\ (m - 1) + 1 = m
  BY <1>0
<1>3. \A m \in 0..MaxDepth : m # 0 =>
        WalksOfLength(m) = UNION {{Append(w, s) : s \in Onward(w)} : w \in WalksOfLength(m - 1)}
  BY <1>2, LongerWalks
<1>4. g = F(g)
  <2>1. \A m \in 0..MaxDepth : m # 0 => g[m - 1] = WalksOfLength(m - 1)
    BY <1>2
  <2>2. \A m \in 0..MaxDepth : WalksOfLength(m) =
          IF m = 0 THEN {<<>>} ELSE UNION {{Append(w, s) : s \in Onward(w)} : w \in g[m - 1]}
    <3>. HIDE DEF g
    <3>. QED
      BY <1>1, <1>3, <2>1
  <2>. QED
    BY <2>2
<1>5. WalksOf = CHOOSE f : f = F(f)
  BY DEF WalksOf
<1>6. WalksOf = F(WalksOf)
  <2>. HIDE DEF F, g
  <2>. QED
    BY <1>4, <1>5, Zenon
<1>7. \A m \in 0..MaxDepth : WalksOf[m] =
        IF m = 0 THEN {<<>>} ELSE UNION {{Append(w, s) : s \in Onward(w)} : w \in WalksOf[m - 1]}
  BY <1>6, Zenon
<1>. HIDE DEF F, g
<1>. DEFINE wrong == {m \in 0..MaxDepth : WalksOf[m] # WalksOfLength(m)}
<1>8. wrong = {}
  <2>. SUFFICES ASSUME wrong # {} PROVE FALSE
    OBVIOUS
  <2>1. wrong \in SUBSET Nat
    BY <1>0
  <2>2. PICK m \in wrong : \A k \in wrong : m <= k
    <3>. HIDE DEF wrong
    <3>. QED
      BY <2>1, LeastThereIs
  <2>3. m # 0
    BY <1>1, <1>7
  <2>4. m \in 0..MaxDepth /\ m - 1 \in 0..MaxDepth /\ ~(m <= m - 1)
    BY <1>2, <2>3
  <2>5. WalksOf[m - 1] = WalksOfLength(m - 1)
    BY <2>2, <2>4
  <2>6. WalksOf[m] = WalksOfLength(m)
    BY <1>3, <1>7, <2>3, <2>4, <2>5
  <2>. QED
    BY <2>6
<1>. QED
  BY <1>8

LEMMA RoutesAre == RoutesThereAre = RouteSet
<1>1. MaxDepth \in Nat /\ MaxDepth # 0
  BY SearchConstants
<1>2. \A w : w \in Walks <=> \E n \in 1..MaxDepth : w \in WalksOfLength(n)
  <2>1. \A n \in 1..MaxDepth : n \in 0..MaxDepth
    BY <1>1
  <2>. QED
    BY <2>1, WalksAre DEF Walks
<1>3. \A w : w \in Walks <=> w \in WalksUpTo(MaxDepth) /\ w # <<>>
  <2>1. \A w \in Seq(Steps) : Len(w) \in Nat /\ (w = <<>> <=> Len(w) = 0)
    OBVIOUS
  <2>2. \A w \in Seq(Steps) : Len(w) <= MaxDepth /\ w # <<>> <=> Len(w) \in 1..MaxDepth
    BY <1>1, <2>1
  <2>. QED
    BY <1>2, <2>2 DEF WalksOfLength, WalksUpTo
<1>4. \A w \in Walks : Last(w).to = w[Len(w)].to
  BY DEF Last
<1>. QED
  BY <1>3, <1>4 DEF RoutesThereAre, RouteSet

-----------------------------------------------------------------------------
LEMMA PartialIs ==
  ASSUME NEW p \in Partials
  PROVE  /\ p.hops \in WalksUpTo(MaxDepth) /\ p.hops \in Seq(Steps) /\ IsWalk(p.hops)
         /\ Len(p.hops) \in Nat /\ Len(p.hops) <= MaxDepth
         /\ p = Partial(p.hops) /\ p.nodes = NodesOf(p.hops) /\ p # Idle
<1>1. PICK w \in WalksUpTo(MaxDepth) : p = Partial(w)
  BY DEF Partials
<1>2. p.hops = w /\ p.nodes = NodesOf(w)
  BY <1>1 DEF Partial
<1>3. w \in Seq(Steps) /\ IsWalk(w) /\ Len(w) \in Nat /\ Len(w) <= MaxDepth
  BY DEF WalksUpTo
<1>4. NodesOf(w) # <<>>
  BY <1>3, NodesAre
<1>5. Idle.nodes = <<>>
  BY DEF Idle
<1>. QED
  BY <1>1, <1>2, <1>3, <1>4, <1>5

LEMMA RouteIs ==
  ASSUME NEW w \in RouteSet
  PROVE  /\ w \in WalksUpTo(MaxDepth) /\ w \in Seq(Steps) /\ IsWalk(w)
         /\ Len(w) \in Nat \ {0} /\ Len(w) <= MaxDepth /\ DOMAIN w = 1..Len(w)
         /\ Tokens(w) \in Templates /\ w[Len(w)].to \in Targets
<1>1. w \in WalksUpTo(MaxDepth) /\ w # <<>> /\ Tokens(w) \in Templates /\ w[Len(w)].to \in Targets
  BY DEF RouteSet
<1>2. w \in Seq(Steps) /\ IsWalk(w) /\ Len(w) <= MaxDepth
  BY <1>1 DEF WalksUpTo
<1>3. Len(w) \in Nat \ {0} /\ DOMAIN w = 1..Len(w)
  BY <1>1, <1>2
<1>. QED
  BY <1>1, <1>2, <1>3

\* Where a partial route goes on as a route does, the next step of that route is out of
\* its last node, and may be followed.
LEMMA NextOfRoute ==
  ASSUME NEW w \in RouteSet, NEW p \in Partials, Begins(p, w)
  PROVE  LET n == Len(p.hops)
             s == w[n + 1]
         IN  /\ n + 1 \in 1..Len(w) /\ n < MaxDepth /\ s \in Steps
             /\ s.from = NodeAt(p.hops, n) /\ Allowed(s)
             /\ \A j \in 0..n : s.to # NodeAt(p.hops, j)
<1>. DEFINE v == p.hops
            n == Len(v)
            s == w[n + 1]
<1>1. w \in Seq(Steps) /\ IsWalk(w) /\ Len(w) \in Nat /\ Len(w) <= MaxDepth /\ DOMAIN w = 1..Len(w)
  BY RouteIs
<1>2. v \in Seq(Steps) /\ n \in Nat /\ DOMAIN v = 1..n
  BY PartialIs
<1>3. n < Len(w) /\ \A i \in 1..n : v[i] = w[i]
  BY <1>2 DEF Begins
<1>. HIDE DEF v
<1>4. n + 1 \in 1..Len(w) /\ n < MaxDepth /\ s \in Steps
  BY <1>1, <1>2, <1>3, SearchConstants
<1>5. \A j \in 0..n : NodeAt(v, j) = NodeAt(w, j)
  <2>1. \A j \in 0..n : j # 0 => j \in 1..n
    BY <1>2
  <2>. QED
    BY <1>3, <2>1 DEF NodeAt
<1>6. /\ s.from = NodeAt(w, n) /\ Allowed(s)
      /\ \A j \in 0..n : s.to # NodeAt(w, j)
  <2>1. (n + 1) - 1 = n
    BY <1>2
  <2>. QED
    BY <1>1, <1>4, <2>1 DEF IsWalk
<1>7. n \in 0..n
  BY <1>2
<1>8. s.from = NodeAt(v, n) /\ \A j \in 0..n : s.to # NodeAt(v, j)
  BY <1>5, <1>6, <1>7
<1>. QED
  BY <1>4, <1>6, <1>8 DEF v

LEMMA SearchBegins == SearchInit => SearchInv
<1>. SUFFICES ASSUME SearchInit PROVE SearchInv
  OBVIOUS
<1>. USE DEF SearchInit
<1>1. Partial(<<>>) \in Partials /\ Partial(<<>>) = [hops |-> <<>>, nodes |-> <<Start>>]
  BY EmptyIsWalk DEF Partials
<1>2. stack \in Seq(Partials)
  <2>1. CASE Targets = {}
    BY <2>1
  <2>2. CASE Targets # {}
    <3>1. stack = <<Partial(<<>>)>>
      BY <1>1, <2>2
    <3>. QED
      BY <1>1, <3>1
  <2>. QED
    BY <2>1, <2>2
<1>3. SearchTypes
  BY <1>2 DEF SearchTypes
<1>4. SearchIsBounded
  BY SearchConstants, FS_EmptySet DEF SearchIsBounded
<1>5. ASSUME NEW w \in RouteSet
      PROVE  Ahead(w)
  <2>1. Targets # {} /\ Len(w) \in Nat \ {0}
    BY RouteIs
  <2>2. stack = <<[hops |-> <<>>, nodes |-> <<Start>>]>>
    BY <2>1
  <2>3. stack[1].hops = <<>> /\ 1 \in DOMAIN stack
    BY <2>2
  <2>4. Begins(stack[1], w)
    BY <2>1, <2>3 DEF Begins
  <2>. QED
    BY <2>3, <2>4 DEF Ahead, InSome
<1>. QED
  BY <1>3, <1>4, <1>5 DEF SearchInv

\* What a step says of the invariant when the graph, what was found and the counters stay.
LEMMA SearchGoesOn ==
  ASSUME SearchInv, graph' = graph, authorized' = authorized,
         stack' \in Seq(Partials), children' \in Seq(Partials), current' \in Partials \cup {Idle},
         current' = Idle => pending' = {} /\ children' = <<>>,
         current' # Idle =>
           /\ Len(current'.hops) < MaxDepth /\ pending' \subseteq Steps
           /\ \A s \in pending' : s.from = NodeAt(current'.hops, Len(current'.hops)),
         stopReason' \in {"none", "CANCELLED", "DEADLINE", "EXPANSION_LIMIT", "CANDIDATE_LIMIT"},
         SearchIsBounded', paths' \subseteq RouteSet,
         ASSUME stopReason' = "none", NEW w \in RouteSet
         PROVE  \/ w \in paths'
                \/ InSome(stack', w) \/ InSome(children', w) \/ InStep(current', pending', w)
  PROVE  SearchInv'
<1>1. Steps' = Steps /\ RouteSet' = RouteSet /\ Partials' = Partials
  BY GraphStays
<1>2. SearchTypes'
  BY <1>1 DEF SearchTypes
<1>3. \A w : Ahead(w)' <=> InSome(stack', w) \/ InSome(children', w) \/ InStep(current', pending', w)
  BY DEF Ahead
<1>. QED
  BY <1>1, <1>2, <1>3 DEF SearchInv

LEMMA PopKeeps == SearchInv /\ Pop => SearchInv'
<1>. SUFFICES ASSUME SearchInv, Pop PROVE SearchInv'
  OBVIOUS
<1>. DEFINE p == Last(stack)
            m == Len(stack)
<1>1. /\ stopReason = "none" /\ current = Idle /\ stack # <<>> /\ stack' = Front(stack)
      /\ IF AtDepth(p) THEN current' = current /\ pending' = pending
         ELSE current' = p /\ pending' = StepsFrom(Last(p.nodes))
      /\ graph' = graph /\ authorized' = authorized /\ children' = children /\ paths' = paths
      /\ examined' = examined /\ stopReason' = stopReason
  BY DEF Pop
<1>2. stack \in Seq(Partials) /\ children = <<>> /\ pending = {}
  BY <1>1 DEF SearchInv, SearchTypes
<1>3. m \in Nat \ {0} /\ DOMAIN stack = 1..m /\ p = stack[m] /\ p \in Partials
  BY <1>1, <1>2 DEF Last
<1>4. Front(stack) \in Seq(Partials) /\ DOMAIN Front(stack) = 1..(m - 1)
      /\ \A i \in 1..(m - 1) : Front(stack)[i] = stack[i]
  <2>1. Front(stack) = [i \in 1..(m - 1) |-> stack[i]]
    BY <1>2, <1>3 DEF Front
  <2>2. \A i \in 1..(m - 1) : i \in 1..m
    BY <1>3
  <2>3. m - 1 \in Nat /\ \A i \in 1..(m - 1) : stack[i] \in Partials
    BY <1>2, <1>3, <2>2
  <2>. QED
    BY <2>1, <2>3
<1>5. SearchIsBounded'
  BY <1>1 DEF SearchInv, SearchIsBounded
<1>6. \A w : InSome(stack, w) => InSome(Front(stack), w) \/ Begins(p, w)
  <2>1. \A i \in 1..m : i = m \/ i \in 1..(m - 1)
    <3>1. m \in Nat \ {0}
      BY <1>3
    <3>. HIDE DEF m
    <3>. QED
      BY <3>1
  <2>. QED
    BY <1>3, <1>4, <2>1 DEF InSome
<1>7. ASSUME NEW w \in RouteSet
      PROVE  w \in paths \/ InSome(stack, w)
  BY <1>1, <1>2 DEF SearchInv, Ahead, InSome, InStep
<1>10. /\ stopReason' \in {"none", "CANCELLED", "DEADLINE", "EXPANSION_LIMIT", "CANDIDATE_LIMIT"}
       /\ paths' \subseteq RouteSet /\ children' = <<>> /\ children' \in Seq(Partials)
  BY <1>1, <1>2 DEF SearchInv, SearchTypes
<1>. HIDE DEF p
<1>8. CASE AtDepth(p)
  <2>1. ASSUME NEW w \in RouteSet
        PROVE  w \in paths \/ InSome(Front(stack), w)
    <3>1. ~Begins(p, w)
      <4>1. Len(w) \in Nat /\ Len(w) <= MaxDepth /\ Len(p.hops) \in Nat
        BY <1>3, RouteIs, PartialIs
      <4>. QED
        BY <1>8, <4>1, SearchConstants DEF AtDepth, Begins
    <3>. QED
      BY <1>6, <1>7, <3>1
  <2>2. current' = Idle /\ pending' = {}
    BY <1>1, <1>2, <1>8
  <2>. QED
    BY <1>1, <1>4, <1>5, <1>10, <2>1, <2>2, SearchGoesOn
<1>9. CASE ~AtDepth(p)
  <2>1. current' = p /\ pending' = StepsFrom(Last(p.nodes)) /\ p # Idle
    BY <1>1, <1>3, <1>9, PartialIs
  <2>2. Last(p.nodes) = NodeAt(p.hops, Len(p.hops))
    BY <1>3, PartialIs, NodesAre
  <2>3. pending' \subseteq Steps /\ \A s \in pending' : s.from = NodeAt(p.hops, Len(p.hops))
    BY <2>1, <2>2 DEF StepsFrom
  <2>4. Len(p.hops) < MaxDepth
    BY <1>3, <1>9, PartialIs, SearchConstants DEF AtDepth
  <2>5. ASSUME NEW w \in RouteSet
        PROVE  w \in paths \/ InSome(Front(stack), w) \/ InStep(p, pending', w)
    <3>1. Begins(p, w) => w[Len(p.hops) + 1] \in pending'
      BY <1>3, <2>1, <2>2, NextOfRoute DEF StepsFrom
    <3>. QED
      BY <1>6, <1>7, <2>1, <3>1 DEF InStep
  <2>. QED
    BY <1>1, <1>3, <1>4, <1>5, <1>10, <2>1, <2>3, <2>4, <2>5, SearchGoesOn
<1>. QED
  BY <1>8, <1>9

LEMMA StopKeeps ==
  ASSUME SearchInv, NEW reason \in {"CANCELLED", "DEADLINE", "EXPANSION_LIMIT"}, Stop(reason)
  PROVE  SearchInv'
<1>1. /\ graph' = graph /\ authorized' = authorized /\ stack' = stack /\ current' = current
      /\ pending' = pending /\ children' = children /\ paths' = paths /\ examined' = examined
      /\ stopReason' = reason
  BY DEF Stop
<1>2. SearchIsBounded'
  BY <1>1 DEF SearchInv, SearchIsBounded
<1>3. SearchTypes /\ paths \subseteq RouteSet
  BY DEF SearchInv
<1>. QED
  BY <1>1, <1>2, <1>3, SearchGoesOn DEF SearchTypes

LEMMA EndOfNodeKeeps == SearchInv /\ EndOfNode => SearchInv'
<1>. SUFFICES ASSUME SearchInv, EndOfNode PROVE SearchInv'
  OBVIOUS
<1>. DEFINE m == Len(stack)
            c == Len(children)
            longer == stack \o Reverse(children)
<1>1. /\ current # Idle /\ (pending = {} \/ stopReason # "none")
      /\ stack' = longer /\ current' = Idle /\ pending' = {} /\ children' = <<>>
      /\ graph' = graph /\ authorized' = authorized /\ paths' = paths
      /\ examined' = examined /\ stopReason' = stopReason
  BY DEF EndOfNode
<1>2. stack \in Seq(Partials) /\ children \in Seq(Partials)
  BY DEF SearchInv, SearchTypes
<1>3. /\ m \in Nat /\ c \in Nat /\ DOMAIN stack = 1..m /\ DOMAIN children = 1..c
  BY <1>2
<1>4. /\ Reverse(children) \in Seq(Partials) /\ Len(Reverse(children)) = c
      /\ \A i \in 1..c : Reverse(children)[i] = children[(c - i) + 1]
  <2>1. Reverse(children) = [i \in 1..c |-> children[(c - i) + 1]]
    BY DEF Reverse
  <2>2. \A i \in 1..c : (c - i) + 1 \in 1..c
    BY <1>3
  <2>. QED
    BY <1>2, <1>3, <2>1, <2>2
<1>5. /\ longer \in Seq(Partials) /\ DOMAIN longer = 1..(m + c)
      /\ \A i \in 1..m : longer[i] = stack[i]
      /\ \A i \in 1..c : longer[m + i] = Reverse(children)[i]
  BY <1>2, <1>3, <1>4
<1>. HIDE DEF longer
<1>6. \A w : InSome(stack, w) => InSome(longer, w)
  <2>1. \A i \in 1..m : i \in 1..(m + c)
    BY <1>3
  <2>. QED
    BY <1>3, <1>5, <2>1 DEF InSome
<1>7. \A w : InSome(children, w) => InSome(longer, w)
  <2>1. \A i \in 1..c : m + ((c - i) + 1) \in 1..(m + c) /\ (c - i) + 1 \in 1..c
                        /\ (c - ((c - i) + 1)) + 1 = i
    BY <1>3
  <2>2. \A i \in 1..c : longer[m + ((c - i) + 1)] = children[i]
    BY <1>4, <1>5, <2>1
  <2>. QED
    BY <1>3, <1>5, <2>1, <2>2 DEF InSome
<1>8. ASSUME stopReason = "none", NEW w \in RouteSet
      PROVE  w \in paths \/ InSome(longer, w)
  <2>1. ~InStep(current, pending, w)
    BY <1>1, <1>8 DEF InStep
  <2>. QED
    BY <1>6, <1>7, <1>8, <2>1 DEF SearchInv, Ahead
<1>9. SearchIsBounded'
  BY <1>1 DEF SearchInv, SearchIsBounded
<1>10. stopReason' \in {"none", "CANCELLED", "DEADLINE", "EXPANSION_LIMIT", "CANDIDATE_LIMIT"}
       /\ paths' \subseteq RouteSet /\ <<>> \in Seq(Partials)
  BY <1>1 DEF SearchInv, SearchTypes
<1>. QED
  BY <1>1, <1>5, <1>8, <1>9, <1>10, SearchGoesOn

LEMMA ExamineKeeps == SearchInv /\ Examine => SearchInv'
<1>. SUFFICES ASSUME SearchInv, Examine PROVE SearchInv'
  OBVIOUS
<1>. DEFINE v == current.hops
            n == Len(v)
            Going(s) == [hops |-> Append(v, s), nodes |-> Append(current.nodes, s.to)]
            Followed(s) == Extends(v, current.nodes, s) /\ Allowed(s)
            Found(s) == IF Followed(s) /\ IsRoute(Append(v, s)) THEN {Append(v, s)} ELSE {}
            Full(s) == Found(s) # {} /\ Cardinality(paths \cup Found(s)) >= MaxCandidates
<1>1. /\ stopReason = "none" /\ current # Idle /\ examined < MaxExpansions
      /\ examined' = examined + 1 /\ graph' = graph /\ authorized' = authorized
      /\ stack' = stack /\ current' = current
  BY DEF Examine
<1>2. PICK step \in pending :
        /\ paths' = paths \cup Found(step)
        /\ stopReason' = IF Full(step) THEN "CANDIDATE_LIMIT" ELSE "none"
        /\ children' = IF Followed(step) /\ ~Full(step) THEN Append(children, Going(step)) ELSE children
        /\ pending' = pending \ {step}
  BY Zenon DEF Examine
<1>3. /\ stack \in Seq(Partials) /\ children \in Seq(Partials) /\ current \in Partials
      /\ n < MaxDepth /\ pending \subseteq Steps
      /\ \A s \in pending : s.from = NodeAt(v, n)
  BY <1>1 DEF SearchInv, SearchTypes
<1>4. /\ v \in Seq(Steps) /\ IsWalk(v) /\ n \in Nat /\ current.nodes = NodesOf(v)
      /\ MaxDepth \in Nat
  BY <1>3, PartialIs, SearchConstants
<1>5. step \in Steps /\ step.from = NodeAt(v, n)
  BY <1>3
<1>6. Going(step) = Partial(Append(v, step))
  BY <1>4, <1>5, PartialGoesOn
<1>7. /\ Append(v, step) \in Seq(Steps) /\ Len(Append(v, step)) = n + 1
      /\ \A k \in 1..n : Append(v, step)[k] = v[k]
      /\ Append(v, step)[n + 1] = step
  BY <1>4, <1>5, WalkGoesOn
<1>8. ASSUME Followed(step)
      PROVE  Append(v, step) \in WalksUpTo(MaxDepth) /\ Going(step) \in Partials
  <2>1. step.to \notin ToSet(NodesOf(v)) /\ Allowed(step)
    BY <1>4, <1>8, Zenon DEF Extends
  <2>2. \A j \in 0..n : step.to # NodeAt(v, j)
    BY <1>4, <2>1, NodesAre
  <2>3. IsWalk(Append(v, step))
    BY <1>4, <1>5, <2>1, <2>2, WalkGoesOn
  <2>4. n + 1 <= MaxDepth
    BY <1>3, <1>4
  <2>5. Append(v, step) \in WalksUpTo(MaxDepth)
    BY <1>7, <2>3, <2>4 DEF WalksUpTo
  <2>. QED
    BY <1>6, <2>5 DEF Partials
<1>9. Found(step) \subseteq RouteSet
  <2>1. ASSUME Followed(step), IsRoute(Append(v, step))
        PROVE  Append(v, step) \in RouteSet
    <3>1. Append(v, step) # <<>>
      <4>1. \A r : Len(r) = n + 1 => r # <<>>
        <5>1. n \in Nat /\ Len(<<>>) = 0
          BY <1>4
        <5>. HIDE DEF n
        <5>. QED
          BY <5>1
      <4>. QED
        BY <1>7, <4>1
    <3>. HIDE DEF Going, Followed
    <3>. QED
      BY <1>8, <2>1, <3>1 DEF IsRoute, RouteSet
  <2>. HIDE DEF Followed
  <2>. QED
    BY <2>1
<1>10. paths' \subseteq RouteSet
  BY <1>2, <1>9 DEF SearchInv
<1>11. SearchIsBounded'
  <2>1. /\ IsFiniteSet(paths) /\ Cardinality(paths) \in Nat /\ Cardinality(paths) < MaxCandidates
        /\ MaxCandidates \in Nat /\ MaxExpansions \in Nat
    BY <1>1, FS_CardinalityType, SearchConstants DEF SearchInv, SearchIsBounded
  <2>2. examined' \in 0..MaxExpansions
    BY <1>1, <2>1 DEF SearchInv, SearchIsBounded
  <2>3. CASE Found(step) = {}
    <3>1. paths' = paths
      BY <1>2, <2>3
    <3>. QED
      BY <2>1, <2>2, <3>1 DEF SearchIsBounded
  <2>4. CASE Found(step) # {}
    <3>1. Found(step) = {Append(v, step)}
      BY <2>4
    <3>2. paths' = paths \cup {Append(v, step)}
      BY <1>2, <3>1
    <3>3. /\ IsFiniteSet(paths')
          /\ Cardinality(paths') \in Nat /\ Cardinality(paths') <= Cardinality(paths) + 1
      <4>1. \A x : /\ IsFiniteSet(paths \cup {x})
                   /\ Cardinality(paths \cup {x}) \in Nat
                   /\ Cardinality(paths \cup {x}) <= Cardinality(paths) + 1
        <5>1. ASSUME NEW x
              PROVE  /\ IsFiniteSet(paths \cup {x})
                     /\ Cardinality(paths \cup {x}) = Cardinality(paths)
                        \/ Cardinality(paths \cup {x}) = Cardinality(paths) + 1
          BY <2>1, FS_AddElement
        <5>2. Cardinality(paths) \in Nat /\ \A k \in Nat : k <= k + 1 /\ k <= k /\ k + 1 \in Nat
          BY <2>1
        <5>. QED
          BY <5>1, <5>2
      <4>. HIDE DEF v
      <4>. QED
        BY <3>2, <4>1
    <3>4. Full(step) <=> Cardinality(paths') >= MaxCandidates
      BY <1>2, <2>4
    <3>5. stopReason' = "none" => ~Full(step)
      BY <1>2
    <3>. HIDE DEF Full
    <3>. QED
      BY <2>1, <2>2, <3>3, <3>4, <3>5 DEF SearchIsBounded
  <2>. QED
    BY <2>3, <2>4
<1>12. /\ children' \in Seq(Partials)
       /\ \A w : InSome(children, w) => InSome(children', w)
       /\ Followed(step) /\ ~Full(step) =>
            \A w : Begins(Going(step), w) => InSome(children', w)
  <2>1. CASE Followed(step) /\ ~Full(step)
    <3>. HIDE DEF Going, Followed, Full
    <3>1. children' = Append(children, Going(step)) /\ Going(step) \in Partials
      BY <1>2, <1>8, <2>1
    <3>2. /\ children' \in Seq(Partials) /\ DOMAIN children' = 1..(Len(children) + 1)
          /\ Len(children) \in Nat /\ DOMAIN children = 1..Len(children)
          /\ \A i \in 1..Len(children) : children'[i] = children[i]
          /\ children'[Len(children) + 1] = Going(step)
      BY <1>3, <3>1
    <3>3. /\ \A i \in 1..Len(children) : i \in 1..(Len(children) + 1)
          /\ Len(children) + 1 \in 1..(Len(children) + 1)
      BY <3>2
    <3>. QED
      BY <3>2, <3>3 DEF InSome
  <2>2. CASE ~(Followed(step) /\ ~Full(step))
    <3>. HIDE DEF Going, Followed, Full
    <3>. QED
      BY <1>2, <1>3, <2>2
  <2>. QED
    BY <2>1, <2>2
<1>13. ASSUME stopReason' = "none", NEW w \in RouteSet
       PROVE  \/ w \in paths'
              \/ InSome(stack, w) \/ InSome(children', w) \/ InStep(current, pending', w)
  <2>1. ~Full(step)
    BY <1>2, <1>13
  <2>2. w \in paths \/ InSome(stack, w) \/ InSome(children, w) \/ InStep(current, pending, w)
    BY <1>1 DEF SearchInv, Ahead
  <2>3. CASE ~InStep(current, pending, w) \/ w[n + 1] # step
    <3>1. InStep(current, pending, w) => InStep(current, pending', w)
      BY <1>2, <2>3 DEF InStep
    <3>. QED
      BY <1>2, <1>12, <2>2, <3>1
  <2>4. CASE InStep(current, pending, w) /\ w[n + 1] = step
    <3>1. Begins(current, w)
      BY <2>4 DEF InStep
    <3>2. n + 1 \in 1..Len(w) /\ Allowed(step) /\ \A j \in 0..n : step.to # NodeAt(v, j)
      BY <1>3, <2>4, <3>1, NextOfRoute
    <3>3. n < Len(w) /\ \A i \in 1..n : w[i] = v[i]
      BY <1>4, <3>1 DEF Begins
    <3>4. /\ w \in Seq(Steps) /\ Len(w) \in Nat /\ DOMAIN w = 1..Len(w)
          /\ Tokens(w) \in Templates /\ w[Len(w)].to \in Targets
      BY RouteIs
    <3>5. Followed(step)
      <4>. DEFINE T == {s.token : s \in Steps}
                  a == Append(Tokens(v), step.token)
      <4>1. Tokens(v) = [i \in 1..n |-> v[i].token] /\ Tokens(w) = [i \in 1..Len(w) |-> w[i].token]
        BY <1>4, <3>4 DEF Tokens
      <4>2. /\ \A i \in 1..n : v[i] \in Steps
            /\ \A i \in 1..Len(w) : w[i] \in Steps
        BY <1>4, <3>4
      <4>3. \A s \in Steps : s.token \in T
        OBVIOUS
      <4>. HIDE DEF T
      <4>4. Tokens(v) \in Seq(T) /\ Len(Tokens(v)) = n /\ Tokens(w) \in Seq(T) /\ Len(Tokens(w)) = Len(w)
        BY <1>4, <3>4, <4>1, <4>2, <4>3
      <4>5. /\ a \in Seq(T) /\ Len(a) = n + 1 /\ a[n + 1] = step.token
            /\ \A i \in 1..n : a[i] = v[i].token
        BY <1>4, <1>5, <4>1, <4>3, <4>4
      <4>. HIDE DEF a
      <4>6. \A i \in 1..(n + 1) : a[i] = Tokens(w)[i]
        <5>1. \A i \in 1..(n + 1) : i \in 1..Len(w) /\ (i = n + 1 \/ i \in 1..n)
          BY <1>4, <3>2, <3>4
        <5>. QED
          BY <2>4, <3>3, <4>1, <4>5, <5>1
      <4>7. n + 1 <= Len(w)
        BY <3>2
      <4>8. IsPrefix(a, Tokens(w))
        BY <4>4, <4>5, <4>6, <4>7, PrefixOf
      <4>9. step.to \notin ToSet(NodesOf(v))
        BY <1>4, <3>2, NodesAre
      <4>. QED
        BY <1>4, <3>2, <3>4, <4>8, <4>9 DEF Extends, a
    <3>6. CASE Len(w) = n + 1
      <4>1. w = Append(v, step)
        <5>1. \A i \in 1..(n + 1) : i = n + 1 \/ i \in 1..n
          BY <1>4
        <5>2. \A i \in 1..(n + 1) : w[i] = Append(v, step)[i]
          BY <1>7, <2>4, <3>3, <5>1
        <5>. HIDE DEF v, n
        <5>. QED
          BY <1>7, <3>4, <3>6, <5>2
      <4>2. IsRoute(Append(v, step))
        BY <3>4, <4>1 DEF IsRoute
      <4>3. Found(step) = {w}
        <5>. HIDE DEF Followed
        <5>. QED
          BY <3>5, <4>1, <4>2
      <4>. QED
        BY <1>2, <4>3
    <3>7. CASE Len(w) # n + 1
      <4>1. Begins(Going(step), w)
        <5>1. n + 1 < Len(w) /\ DOMAIN Append(v, step) = 1..(n + 1)
          <6>1. n \in Nat /\ Len(w) \in Nat /\ n < Len(w) /\ Len(w) # n + 1
            BY <1>4, <3>3, <3>4, <3>7
          <6>. HIDE DEF n, v
          <6>. QED
            BY <1>7, <6>1
        <5>2. \A i \in 1..(n + 1) : i = n + 1 \/ i \in 1..n
          BY <1>4
        <5>3. \A i \in 1..(n + 1) : Append(v, step)[i] = w[i]
          BY <1>7, <2>4, <3>3, <5>2
        <5>4. Going(step).hops = Append(v, step)
          OBVIOUS
        <5>. HIDE DEF Going
        <5>. QED
          BY <1>7, <5>1, <5>3, <5>4 DEF Begins
      <4>. HIDE DEF Going, Followed, Full
      <4>. QED
        BY <1>12, <2>1, <3>5, <4>1
    <3>. QED
      BY <3>6, <3>7
  <2>. QED
    BY <2>3, <2>4
<1>14. stopReason' \in {"none", "CANCELLED", "DEADLINE", "EXPANSION_LIMIT", "CANDIDATE_LIMIT"}
  BY <1>2
<1>15. /\ Len(current'.hops) < MaxDepth /\ pending' \subseteq Steps
       /\ \A s \in pending' : s.from = NodeAt(current'.hops, Len(current'.hops))
  BY <1>1, <1>2, <1>3
<1>16. /\ stack' \in Seq(Partials) /\ current' \in Partials \cup {Idle} /\ current' # Idle
  BY <1>1, <1>3
<1>17. children' \in Seq(Partials)
  BY <1>12
<1>. HIDE DEF v, n, Going, Followed, Found, Full
<1>. QED
  BY <1>1, <1>10, <1>11, <1>13, <1>14, <1>15, <1>16, <1>17, SearchGoesOn

LEMMA SearchStepKeeps == SearchInv /\ [SearchNext]_searchVars => SearchInv'
<1>. SUFFICES ASSUME SearchInv, [SearchNext]_searchVars PROVE SearchInv'
  OBVIOUS
<1>1. CASE Pop
  BY <1>1, PopKeeps
<1>2. CASE Interrupted
  BY <1>2, StopKeeps DEF Interrupted
<1>3. CASE ExpansionLimit
  BY <1>3, StopKeeps DEF ExpansionLimit
<1>4. CASE Examine
  BY <1>4, ExamineKeeps
<1>5. CASE EndOfNode
  BY <1>5, EndOfNodeKeeps
<1>6. CASE UNCHANGED searchVars
  <2>1. /\ graph' = graph /\ authorized' = authorized /\ stack' = stack /\ current' = current
        /\ pending' = pending /\ children' = children /\ paths' = paths /\ examined' = examined
        /\ stopReason' = stopReason
    BY <1>6 DEF searchVars
  <2>2. SearchIsBounded'
    BY <2>1 DEF SearchInv, SearchIsBounded
  <2>3. SearchTypes /\ paths \subseteq RouteSet
    BY DEF SearchInv
  <2>4. \A w \in RouteSet : stopReason = "none" =>
          w \in paths \/ InSome(stack, w) \/ InSome(children, w) \/ InStep(current, pending, w)
    BY DEF SearchInv, Ahead
  <2>. QED
    BY <2>1, <2>2, <2>3, <2>4, SearchGoesOn DEF SearchTypes
<1>. QED
  BY <1>1, <1>2, <1>3, <1>4, <1>5, <1>6 DEF SearchNext

LEMMA HonestInTheEnd == SearchInv => SearchIsHonest
<1>. SUFFICES ASSUME SearchInv PROVE SearchIsHonest
  OBVIOUS
<1>1. examined <= MaxExpansions /\ Cardinality(paths) <= MaxCandidates
  BY SearchConstants DEF SearchInv, SearchIsBounded
<1>2. paths \subseteq RoutesThereAre
  BY RoutesAre DEF SearchInv
<1>3. ASSUME ~Searching, stopReason = "none"
      PROVE  RoutesThereAre \subseteq paths
  <2>1. stack = <<>> /\ current = Idle /\ children = <<>>
    BY <1>3 DEF Searching, SearchInv, SearchTypes
  <2>2. \A w : ~Ahead(w)
    BY <2>1 DEF Ahead, InSome, InStep
  <2>. QED
    BY <1>3, <2>2, RoutesAre DEF SearchInv
<1>. QED
  BY <1>1, <1>2, <1>3 DEF SearchIsHonest

(* A search that says it is complete has found every simple route of a       *)
(* template that the reader may see, and wherever it stops, what it has are  *)
(* such routes: for every graph and every bound.                             *)
THEOREM SearchesAreHonest == SearchSpec => []SearchIsHonest
<1>1. SearchSpec => []SearchInv
  BY SearchBegins, SearchStepKeeps, PTL DEF SearchSpec
<1>. QED
  BY <1>1, HonestInTheEnd, PTL

-----------------------------------------------------------------------------
(***************************************************************************)
(* The risk of a customer.                                                 *)
(***************************************************************************)
UpTo(n) == {x \in Nat : x <= n}
Severity == UpTo(100)
RiskEvent == [id : Nat \ {0}, severity : Severity, domain : Domains \cup {Unclassified}]

\* Events are of different identities, and the next one has an identity of its own.
Distinct(es) ==
  /\ es \subseteq RiskEvent /\ IsFiniteSet(es)
  /\ \A e \in es : e.id <= Cardinality(es)
  /\ \A e \in es, o \in es : e.id = o.id => e = o

RiskInv ==
  /\ factor \in [Factors -> Severity \cup {Unknown}]
  /\ age \in {"fresh", "over two days", "over thirty days"}
  /\ monitored \in BOOLEAN /\ converging \in BOOLEAN /\ overridden \in BOOLEAN
  /\ Distinct(events)

-----------------------------------------------------------------------------
\* The weights add up to 100: the index is monotone in each factor, from 0 to 100 points.
LEMMA FactorsAre ==
  Factors = {"commercial_momentum", "pipeline", "backlog", "engagement", "concentration", "friction"}
<1>1. Factors = {Family[i].factor : i \in 1..6}
  BY DEF Factors, Family
<1>2. /\ Family[1].factor = "commercial_momentum" /\ Family[2].factor = "pipeline"
      /\ Family[3].factor = "backlog" /\ Family[4].factor = "engagement"
      /\ Family[5].factor = "concentration" /\ Family[6].factor = "friction"
  BY DEF Family
<1>3. 1..6 = {1, 2, 3, 4, 5, 6}
  OBVIOUS
<1>. QED
  BY <1>1, <1>2, <1>3

LEMMA WeightedIs ==
  ASSUME NEW p
  PROVE  Weighted(p) = 30 * p["commercial_momentum"] + 20 * p["pipeline"] + 15 * p["backlog"]
                       + 15 * p["engagement"] + 10 * p["concentration"] + 10 * p["friction"]
BY DEF Weighted, Family

LEMMA WeightedGrows ==
  ASSUME NEW p \in [Factors -> Severity], NEW q \in [Factors -> Severity],
         \A f \in Factors : p[f] <= q[f]
  PROVE  Weighted(p) \in UpTo(10000) /\ Weighted(q) \in UpTo(10000) /\ Weighted(p) <= Weighted(q)
<1>1. \A f \in Factors : p[f] \in Nat /\ p[f] <= 100 /\ q[f] \in Nat /\ q[f] <= 100
  BY DEF Severity, UpTo
<1>. QED
  BY <1>1, FactorsAre, WeightedIs DEF UpTo

-----------------------------------------------------------------------------
\* Combine, of what it reads.
Greatest(S) == CHOOSE most \in S : \A other \in S : other <= most

Raised(i, p, conv) == IF i >= 6000 /\ p >= 6000 /\ conv THEN 500 ELSE 0
RawOf(i, p, conv) == (6 * i + 4 * p + 10 * Raised(i, p, conv) + 5) \div 10
FloorsOf(i, p, block) ==
  (IF p >= 8500 THEN {7500} ELSE {}) \cup (IF i >= 8500 THEN {8000} ELSE {})
    \cup (IF block THEN {8500} ELSE {})
Overall(i, p, conv, block) == Least(10000, Greatest({RawOf(i, p, conv)} \cup FloorsOf(i, p, block)))

LEMMA GreatestIs ==
  ASSUME NEW S \in SUBSET UpTo(20000), S # {}
  PROVE  Greatest(S) \in S /\ Greatest(S) \in UpTo(20000) /\ \A y \in S : y <= Greatest(S)
<1>. DEFINE T == {20000 - x : x \in S}
<1>0. \A x \in S : x \in UpTo(20000) /\ 20000 - x \in Nat
  BY DEF UpTo
<1>1. T \in SUBSET Nat /\ T # {}
  BY <1>0
<1>2. PICK t \in T : \A u \in T : t <= u
  <2>. HIDE DEF T
  <2>. QED
    BY <1>1, LeastThereIs
<1>3. PICK x \in S : t = 20000 - x
  BY <1>2
<1>4. \A y \in S : 20000 - x <= 20000 - y
  BY <1>2, <1>3
<1>5. \A y \in S : y <= x
  BY <1>0, <1>4 DEF UpTo
<1>6. Greatest(S) \in S /\ \A y \in S : y <= Greatest(S)
  <2>. DEFINE Tops(c) == \A other \in S : other <= c
  <2>1. \E c \in S : Tops(c)
    BY <1>5
  <2>2. Greatest(S) = CHOOSE c \in S : Tops(c)
    BY DEF Greatest
  <2>3. Greatest(S) \in S /\ Tops(Greatest(S))
    <3>. HIDE DEF Tops
    <3>. QED
      BY <2>1, <2>2
  <2>. QED
    BY <2>3
<1>. QED
  BY <1>0, <1>6

LEMMA GreatestGrows ==
  ASSUME NEW S \in SUBSET UpTo(20000), S # {}, NEW T \in SUBSET UpTo(20000), T # {},
         \A x \in S : \E y \in T : x <= y
  PROVE  Greatest(S) <= Greatest(T)
<1>1. PICK y \in T : Greatest(S) <= y
  BY GreatestIs
<1>2. y <= Greatest(T) /\ y \in UpTo(20000) /\ Greatest(S) \in UpTo(20000) /\ Greatest(T) \in UpTo(20000)
  BY GreatestIs
<1>. QED
  BY <1>1, <1>2 DEF UpTo

LEMMA FloorsAre ==
  ASSUME NEW i, NEW p, NEW block, NEW x
  PROVE  x \in FloorsOf(i, p, block) <=>
           \/ x = 7500 /\ p >= 8500
           \/ x = 8000 /\ i >= 8500
           \/ x = 8500 /\ block
BY DEF FloorsOf

LEMMA RawGrows ==
  ASSUME NEW i \in UpTo(10000), NEW p \in UpTo(10000), NEW j \in UpTo(10000), NEW q \in UpTo(10000),
         NEW conv, i <= j, p <= q
  PROVE  /\ RawOf(i, p, conv) \in UpTo(20000) /\ RawOf(j, q, conv) \in UpTo(20000)
         /\ RawOf(i, p, conv) <= RawOf(j, q, conv)
<1>1. Raised(i, p, conv) \in {0, 500} /\ Raised(j, q, conv) \in {0, 500}
  BY DEF Raised
<1>2. Raised(i, p, conv) <= Raised(j, q, conv)
  BY DEF Raised, UpTo
<1>. QED
  BY <1>1, <1>2 DEF RawOf, UpTo

LEMMA OverallGrows ==
  ASSUME NEW i \in UpTo(10000), NEW p \in UpTo(10000), NEW j \in UpTo(10000), NEW q \in UpTo(10000),
         NEW conv, NEW block, i <= j, p <= q
  PROVE  Overall(i, p, conv, block) <= Overall(j, q, conv, block)
<1>. DEFINE S == {RawOf(i, p, conv)} \cup FloorsOf(i, p, block)
            T == {RawOf(j, q, conv)} \cup FloorsOf(j, q, block)
<1>1. S \in SUBSET UpTo(20000) /\ T \in SUBSET UpTo(20000) /\ S # {} /\ T # {}
  <2>1. FloorsOf(i, p, block) \subseteq UpTo(20000) /\ FloorsOf(j, q, block) \subseteq UpTo(20000)
    BY FloorsAre DEF UpTo
  <2>. QED
    BY <2>1, RawGrows
<1>2. ASSUME NEW x \in S
      PROVE  \E y \in T : x <= y
  <2>1. CASE x = RawOf(i, p, conv)
    BY <2>1, RawGrows
  <2>2. CASE x \in FloorsOf(i, p, block)
    <3>1. x \in FloorsOf(j, q, block)
      BY <2>2, FloorsAre DEF UpTo
    <3>2. x <= x
      BY <2>2, FloorsAre
    <3>. QED
      BY <3>1, <3>2
  <2>. QED
    BY <2>1, <2>2
<1>. HIDE DEF S, T
<1>3. Greatest(S) <= Greatest(T) /\ Greatest(S) \in UpTo(20000) /\ Greatest(T) \in UpTo(20000)
  BY <1>1, <1>2, GreatestIs, GreatestGrows
<1>4. Overall(i, p, conv, block) = Least(10000, Greatest(S))
      /\ Overall(j, q, conv, block) = Least(10000, Greatest(T))
  BY DEF Overall, S, T
<1>. QED
  BY <1>3, <1>4 DEF Least, UpTo

-----------------------------------------------------------------------------
\* The worst event, and what the roll-up makes of a set of events.
IsWorst(es, e) ==
  e \in es /\ \A other \in es :
    other.severity < e.severity \/ (other.severity = e.severity /\ e.id <= other.id)

WorstOf(es) ==
  CHOOSE e \in es : \A other \in es :
    other.severity < e.severity \/ (other.severity = e.severity /\ e.id <= other.id)

DomainsOf(es) == {e.domain : e \in {other \in es : other.severity >= 40 /\ other.domain \in Domains}}
UpliftOf(A) == IF Cardinality(A) >= 2 THEN 10 ELSE IF A # {} THEN 5 ELSE 0
RollUp(es) == Least(100, WorstOf(es).severity + UpliftOf(DomainsOf(es) \ {WorstOf(es).domain}))

LEMMA EventIs ==
  ASSUME NEW e \in RiskEvent
  PROVE  /\ e.id \in Nat \ {0} /\ e.severity \in Nat /\ e.severity <= 100
         /\ e.domain \in Domains \cup {Unclassified}
BY DEF RiskEvent, Severity, UpTo

LEMMA WorstIs ==
  ASSUME NEW es, Distinct(es), es # {}
  PROVE  /\ IsWorst(es, WorstOf(es)) /\ WorstOf(es) \in es
         /\ \A e : IsWorst(es, e) => e = WorstOf(es)
<1>. DEFINE Gaps == {100 - e.severity : e \in es}
<1>1. \A e \in es : e \in RiskEvent /\ e.id \in Nat /\ e.severity \in Nat /\ e.severity <= 100
  BY EventIs DEF Distinct
<1>2. PICK top \in es : \A e \in es : e.severity <= top.severity
  <2>1. Gaps \in SUBSET Nat /\ Gaps # {}
    BY <1>1
  <2>2. PICK g \in Gaps : \A h \in Gaps : g <= h
    <3>. HIDE DEF Gaps
    <3>. QED
      BY <2>1, LeastThereIs
  <2>3. PICK top \in es : g = 100 - top.severity
    BY <2>2
  <2>4. \A e \in es : 100 - top.severity <= 100 - e.severity
    BY <2>2, <2>3
  <2>5. \A e \in es : e.severity <= top.severity
    BY <1>1, <2>4
  <2>. QED
    BY <2>5
<1>. DEFINE Ids == {e.id : e \in {o \in es : o.severity = top.severity}}
<1>3. PICK first \in es : /\ first.severity = top.severity
                          /\ \A e \in es : e.severity = top.severity => first.id <= e.id
  <2>1. Ids \in SUBSET Nat /\ Ids # {}
    BY <1>1
  <2>2. PICK i \in Ids : \A k \in Ids : i <= k
    <3>. HIDE DEF Ids
    <3>. QED
      BY <2>1, LeastThereIs
  <2>3. PICK first \in es : first.severity = top.severity /\ i = first.id
    BY <2>2
  <2>4. \A e \in es : e.severity = top.severity => e.id \in Ids
    OBVIOUS
  <2>. QED
    BY <2>2, <2>3, <2>4
<1>4. \A e \in es : e.severity < top.severity \/ e.severity = top.severity
  BY <1>1, <1>2
<1>5. IsWorst(es, first)
  BY <1>3, <1>4 DEF IsWorst
<1>6. WorstOf(es) = CHOOSE e : IsWorst(es, e)
  BY DEF WorstOf, IsWorst
<1>7. IsWorst(es, WorstOf(es))
  BY <1>5, <1>6
<1>8. ASSUME NEW e, IsWorst(es, e)
      PROVE  e = WorstOf(es)
  <2>. DEFINE w == WorstOf(es)
  <2>1. e \in es /\ w \in es
    BY <1>7, <1>8 DEF IsWorst
  <2>2. w.severity < e.severity \/ (w.severity = e.severity /\ e.id <= w.id)
    BY <1>8, <2>1 DEF IsWorst
  <2>3. e.severity < w.severity \/ (e.severity = w.severity /\ w.id <= e.id)
    BY <1>7, <2>1 DEF IsWorst
  <2>4. e.id = w.id
    <3>. HIDE DEF w
    <3>. QED
      BY <1>1, <2>1, <2>2, <2>3
  <2>. QED
    BY <2>1, <2>4 DEF Distinct
<1>. QED
  BY <1>7, <1>8 DEF IsWorst

LEMMA UpliftIs ==
  ASSUME NEW A \in SUBSET Domains
  PROVE  /\ UpliftOf(A) \in {0, 5, 10}
         /\ UpliftOf(A) >= 5 <=> A # {}
         /\ UpliftOf(A) = 10 <=> \E x \in A, y \in A : x # y
<1>1. IsFiniteSet(A) /\ Cardinality(A) \in Nat
  BY FS_Subset, FS_CardinalityType, RubricIsBounded
<1>2. ASSUME NEW x \in A
      PROVE  IsFiniteSet(A \ {x}) /\ Cardinality(A \ {x}) = Cardinality(A) - 1
  BY <1>1, FS_RemoveElement
<1>3. ASSUME NEW x \in A
      PROVE  Cardinality(A) >= 2 <=> A \ {x} # {}
  <2>1. Cardinality(A \ {x}) = 0 <=> A \ {x} = {}
    BY <1>2, FS_EmptySet
  <2>2. Cardinality(A \ {x}) \in Nat
    BY <1>2, FS_CardinalityType
  <2>. QED
    BY <1>1, <1>2, <2>1, <2>2
<1>4. A = {} => Cardinality(A) = 0
  BY FS_EmptySet
<1>5. Cardinality(A) >= 2 <=> \E x \in A, y \in A : x # y
  <2>1. CASE A = {}
    BY <1>4, <2>1
  <2>2. CASE A # {}
    <3>1. ASSUME Cardinality(A) >= 2
          PROVE  \E x \in A, y \in A : x # y
      BY <1>3, <2>2, <3>1
    <3>2. ASSUME NEW x \in A, NEW y \in A, x # y
          PROVE  Cardinality(A) >= 2
      BY <1>3, <3>2
    <3>. QED
      BY <3>1, <3>2
  <2>. QED
    BY <2>1, <2>2
<1>. QED
  BY <1>4, <1>5 DEF UpliftOf

LEMMA UpliftGrows ==
  ASSUME NEW A \in SUBSET Domains, NEW B \in SUBSET Domains,
         A # {} => B # {},
         (\E x \in A, y \in A : x # y) => \E x \in B, y \in B : x # y
  PROVE  UpliftOf(A) <= UpliftOf(B)
<1>1. /\ UpliftOf(A) \in {0, 5, 10} /\ UpliftOf(B) \in {0, 5, 10}
      /\ UpliftOf(A) >= 5 => UpliftOf(B) >= 5
      /\ UpliftOf(A) = 10 => UpliftOf(B) = 10
  BY UpliftIs
<1>. QED
  BY <1>1

LEMMA RollUpIs ==
  ASSUME NEW es, Distinct(es), es # {}
  PROVE  RollUp(es) \in Nat /\ RollUp(es) <= 100
<1>1. WorstOf(es).severity \in Nat
  BY WorstIs, EventIs DEF Distinct
<1>2. UpliftOf(DomainsOf(es) \ {WorstOf(es).domain}) \in {0, 5, 10}
  <2>1. DomainsOf(es) \ {WorstOf(es).domain} \in SUBSET Domains
    BY DEF DomainsOf
  <2>. QED
    BY <2>1, UpliftIs
<1>. QED
  BY <1>1, <1>2 DEF RollUp, Least

LEMMA OneMore ==
  ASSUME NEW es, Distinct(es), NEW new \in RiskEvent, new.id = Cardinality(es) + 1
  PROVE  /\ Distinct(es \cup {new}) /\ \A e \in es : e.id < new.id
         /\ new \notin es
<1>1. IsFiniteSet(es) /\ Cardinality(es) \in Nat /\ \A e \in es : e \in RiskEvent /\ e.id \in Nat
  BY FS_CardinalityType, EventIs DEF Distinct
<1>2. \A e \in es : e.id <= Cardinality(es)
  BY DEF Distinct
<1>3. \A e \in es : e.id < new.id /\ e.id # new.id
  BY <1>1, <1>2
<1>4. new \notin es
  BY <1>3
<1>5. IsFiniteSet(es \cup {new}) /\ Cardinality(es \cup {new}) = Cardinality(es) + 1
  BY <1>1, <1>4, FS_AddElement
<1>6. \A e \in es \cup {new} : e.id <= Cardinality(es \cup {new})
  BY <1>1, <1>2, <1>5
<1>. QED
  BY <1>1, <1>3, <1>4, <1>5, <1>6 DEF Distinct

LEMMA OneLess ==
  ASSUME NEW es, Distinct(es), NEW last \in es, last.id = Cardinality(es)
  PROVE  Distinct(es \ {last})
<1>1. IsFiniteSet(es) /\ Cardinality(es) \in Nat /\ \A e \in es : e \in RiskEvent /\ e.id \in Nat
  BY FS_CardinalityType, EventIs DEF Distinct
<1>2. IsFiniteSet(es \ {last}) /\ Cardinality(es \ {last}) = Cardinality(es) - 1
  BY <1>1, FS_RemoveElement
<1>3. \A e \in es \ {last} : e.id <= Cardinality(es) /\ e.id # last.id
  BY DEF Distinct
<1>4. \A e \in es \ {last} : e.id <= Cardinality(es) - 1
  BY <1>1, <1>3
<1>. QED
  BY <1>1, <1>2, <1>4 DEF Distinct

\* Another event, of a known domain, among events of known domains: the worst is the same
\* one, or the new one, which is worse.
LEMMA RollUpGrows ==
  ASSUME NEW es, Distinct(es), es # {}, NEW new \in RiskEvent, new.id = Cardinality(es) + 1,
         \A e \in es \cup {new} : e.domain \in Domains
  PROVE  RollUp(es) <= RollUp(es \cup {new})
<1>. DEFINE more == es \cup {new}
            w == WorstOf(es)
            v == WorstOf(more)
            D == DomainsOf(es)
            E == DomainsOf(more)
<1>1. Distinct(more) /\ more # {} /\ \A e \in es : e.id < new.id
  BY OneMore
<1>2. /\ \A e \in more : /\ e.id \in Nat /\ e.severity \in Nat /\ e.severity <= 100
                         /\ e.domain \in Domains
      /\ w \in es /\ IsWorst(es, w)
  BY WorstIs, EventIs DEF Distinct
<1>3. D \in SUBSET Domains /\ E \in SUBSET Domains /\ D \subseteq E
  BY DEF DomainsOf
<1>. DEFINE U == UpliftOf(D \ {w.domain})
            V == UpliftOf(E \ {v.domain})
<1>4. U \in {0, 5, 10} /\ V \in {0, 5, 10}
  BY <1>3, UpliftIs
<1>5. CASE new.severity <= w.severity
  <2>1. IsWorst(more, w)
    <3>1. new.severity < w.severity \/ (new.severity = w.severity /\ w.id <= new.id)
      BY <1>1, <1>2, <1>5
    <3>. QED
      BY <1>2, <3>1 DEF IsWorst
  <2>2. v = w
    BY <1>1, <2>1, WorstIs
  <2>3. U <= V
    <3>. DEFINE A == D \ {w.domain}
                B == E \ {v.domain}
    <3>1. A \subseteq B /\ A \in SUBSET Domains /\ B \in SUBSET Domains
      BY <1>3, <2>2
    <3>. HIDE DEF A, B
    <3>2. UpliftOf(A) <= UpliftOf(B)
      BY <3>1, UpliftGrows
    <3>. QED
      BY <3>2 DEF A, B
  <2>. HIDE DEF U, V, w, v
  <2>4. w.severity + U <= v.severity + V
    BY <1>2, <1>4, <2>2, <2>3
  <2>. QED
    BY <1>2, <1>4, <2>2, <2>4 DEF RollUp, Least, U, V, w, v
<1>6. CASE w.severity < new.severity
  <2>1. IsWorst(more, new)
    <3>1. \A e \in es : e.severity <= w.severity
      BY <1>2 DEF IsWorst
    <3>2. \A e \in es : e.severity < new.severity
      BY <1>2, <1>6, <3>1
    <3>. QED
      BY <1>2, <3>2 DEF IsWorst
  <2>2. v = new
    BY <1>1, <2>1, WorstIs
  <2>3. D # {} => w.domain \in D
    <3>1. ASSUME NEW d \in D
          PROVE  w.domain \in D
      <4>1. PICK e \in es : e.severity >= 40
        BY DEF DomainsOf
      <4>2. e.severity <= w.severity
        BY <1>2, <4>1 DEF IsWorst
      <4>3. w.severity >= 40
        BY <1>2, <4>1, <4>2
      <4>. QED
        BY <1>2, <4>3 DEF DomainsOf
    <3>. QED
      BY <3>1
  <2>4. D \ {w.domain} # {} => E \ {v.domain} # {}
    BY <1>3, <2>3
  <2>5. (\E x \in D \ {w.domain}, y \in D \ {w.domain} : x # y)
          => \E x \in E \ {v.domain}, y \in E \ {v.domain} : x # y
    BY <1>3, <2>3
  <2>6. U <= V
    <3>. DEFINE A == D \ {w.domain}
                B == E \ {v.domain}
    <3>1. A \in SUBSET Domains /\ B \in SUBSET Domains /\ (A # {} => B # {})
          /\ ((\E x \in A, y \in A : x # y) => \E x \in B, y \in B : x # y)
      BY <1>3, <2>4, <2>5
    <3>. HIDE DEF A, B
    <3>2. UpliftOf(A) <= UpliftOf(B)
      BY <3>1, UpliftGrows
    <3>. QED
      BY <3>2 DEF A, B
  <2>7. w.severity \in Nat /\ v.severity \in Nat /\ w.severity < v.severity
    BY <1>2, <1>6, <2>2
  <2>. HIDE DEF U, V, w, v
  <2>8. w.severity + U <= v.severity + V
    BY <1>4, <2>6, <2>7
  <2>. QED
    BY <1>4, <2>7, <2>8 DEF RollUp, Least, U, V, w, v
<1>. QED
  BY <1>2, <1>5, <1>6

-----------------------------------------------------------------------------
Floors == [f \in Factors |-> Floor(f)]
Ceilings == [f \in Factors |-> Ceiling(f)]
PublicOf(es, complete) == IF es # {} THEN 100 * RollUp(es) ELSE IF complete THEN 0 ELSE NoScore
PublicLow == IF PublicConfirmed THEN PublicScore ELSE 0
PublicHigh == IF PublicConfirmed THEN PublicScore ELSE 10000

\* What is made of what is known, as functions of it.
RiskFacts ==
  /\ Floors \in [Factors -> Severity] /\ Ceilings \in [Factors -> Severity]
  /\ \A f \in Factors : Floors[f] <= Ceilings[f]
  /\ PublicScore = PublicOf(events, monitored)
  /\ PublicLow \in UpTo(10000) /\ PublicHigh \in UpTo(10000) /\ PublicLow <= PublicHigh
  /\ OverallRange = [low  |-> Overall(Weighted(Floors), PublicLow, converging, Blocked),
                     high |-> Overall(Weighted(Ceilings), PublicHigh, converging, Blocked)]
  /\ OverallScore # NoScore => OverallRange.low = OverallScore /\ OverallRange.high = OverallScore

LEMMA CombineIs ==
  ASSUME NEW i, NEW p
  PROVE  Combine(i, p) = Overall(i, p, converging, Blocked)
BY DEF Combine, Overall, Greatest, RawOf, Raised, FloorsOf

LEMMA RiskIsKnown == RiskInv => RiskFacts
<1>. SUFFICES ASSUME RiskInv PROVE RiskFacts
  OBVIOUS
<1>1. ASSUME NEW f \in Factors
      PROVE  /\ Floor(f) \in Severity /\ Ceiling(f) \in Severity /\ Floor(f) <= Ceiling(f)
             /\ factor[f] # Unknown /\ EvidenceIsCurrent(f) => Floor(f) = Ceiling(f)
  <2>1. factor[f] \in Severity \cup {Unknown}
    BY DEF RiskInv
  <2>2. 0 \in Severity /\ 100 \in Severity /\ 0 <= 100
    BY DEF Severity, UpTo
  <2>3. \A x \in Severity : x <= x
    BY DEF Severity, UpTo
  <2>4. CASE factor[f] # Unknown /\ EvidenceIsCurrent(f)
    BY <2>1, <2>3, <2>4 DEF Floor, Ceiling
  <2>5. CASE ~(factor[f] # Unknown /\ EvidenceIsCurrent(f))
    BY <2>2, <2>5 DEF Floor, Ceiling
  <2>. QED
    BY <2>4, <2>5
<1>2. /\ Floors \in [Factors -> Severity] /\ Ceilings \in [Factors -> Severity]
      /\ \A f \in Factors : Floors[f] <= Ceilings[f]
  BY <1>1 DEF Floors, Ceilings
<1>3. Low = Weighted(Floors) /\ High = Weighted(Ceilings)
  BY DEF Low, High, Floors, Ceilings
<1>4. Low \in UpTo(10000) /\ High \in UpTo(10000) /\ NoScore \notin UpTo(10000)
  <2>1. NoScore \notin UpTo(10000)
    BY DEF NoScore, UpTo
  <2>. QED
    BY <1>2, <1>3, <2>1, WeightedGrows
<1>5. \/ InternalScore = NoScore
      \/ InternalScore = Low /\ Low = High
  <2>1. ASSUME \A f \in Factors : factor[f] # Unknown /\ EvidenceIsCurrent(f)
        PROVE  Low = High
    <3>1. Floors = Ceilings
      BY <1>1, <2>1 DEF Floors, Ceilings
    <3>. QED
      BY <1>3, <3>1
  <2>. QED
    BY <2>1 DEF InternalScore
<1>6. PublicScore = PublicOf(events, monitored)
  BY DEF PublicScore, PublicOf, RollUp, Worst, WorstOf, AdditionalDomains, DomainsOf, Uplift, UpliftOf
<1>7. PublicConfirmed => PublicScore \in UpTo(10000)
  <2>1. CASE events = {}
    BY <1>6, <2>1 DEF PublicOf, PublicConfirmed, UpTo
  <2>2. CASE events # {}
    <3>1. RollUp(events) \in Nat /\ RollUp(events) <= 100
      BY <2>2, RollUpIs DEF RiskInv
    <3>. QED
      BY <1>6, <2>2, <3>1 DEF PublicOf, UpTo
  <2>. QED
    BY <2>1, <2>2
<1>8. PublicLow \in UpTo(10000) /\ PublicHigh \in UpTo(10000) /\ PublicLow <= PublicHigh
  <2>1. 0 \in UpTo(10000) /\ 10000 \in UpTo(10000) /\ 0 <= 10000
    BY DEF UpTo
  <2>2. \A x \in UpTo(10000) : x <= x
    BY DEF UpTo
  <2>. QED
    BY <1>7, <2>1, <2>2 DEF PublicLow, PublicHigh
<1>9. OverallRange = [low |-> Combine(Low, PublicLow), high |-> Combine(High, PublicHigh)]
  <2>1. (IF InternalScore = NoScore THEN Low ELSE InternalScore) = Low
        /\ (IF InternalScore = NoScore THEN High ELSE InternalScore) = High
    BY <1>5
  <2>2. CASE PublicConfirmed
    <3>1. PublicScore # NoScore /\ PublicLow = PublicScore /\ PublicHigh = PublicScore
      BY <1>4, <1>7, <2>2 DEF PublicLow, PublicHigh
    <3>. QED
      BY <2>1, <2>2, <3>1 DEF OverallRange
  <2>3. CASE ~PublicConfirmed
    BY <2>1, <2>3 DEF OverallRange, PublicLow, PublicHigh
  <2>. QED
    BY <2>2, <2>3
<1>10. OverallScore # NoScore => OverallRange.low = OverallScore /\ OverallRange.high = OverallScore
  <2>. SUFFICES ASSUME OverallScore # NoScore
                PROVE  OverallRange.low = OverallScore /\ OverallRange.high = OverallScore
    OBVIOUS
  <2>1. InternalScore # NoScore /\ PublicConfirmed /\ OverallScore = Combine(InternalScore, PublicScore)
    BY DEF OverallScore
  <2>2. InternalScore = Low /\ Low = High /\ PublicLow = PublicScore /\ PublicHigh = PublicScore
    BY <1>5, <2>1 DEF PublicLow, PublicHigh
  <2>. QED
    BY <1>9, <2>1, <2>2
<1>11. OverallRange = [low  |-> Overall(Weighted(Floors), PublicLow, converging, Blocked),
                       high |-> Overall(Weighted(Ceilings), PublicHigh, converging, Blocked)]
  BY <1>3, <1>9, CombineIs
<1>. QED
  BY <1>2, <1>6, <1>8, <1>10, <1>11 DEF RiskFacts

LEMMA RiskBegins == RiskInit => RiskInv
<1>. SUFFICES ASSUME RiskInit PROVE RiskInv
  OBVIOUS
<1>1. Settled \in Severity
  BY RubricIsBounded DEF Severity, UpTo
<1>2. factor \in [Factors -> Severity \cup {Unknown}]
  BY <1>1 DEF RiskInit
<1>3. Distinct(events)
  BY FS_EmptySet DEF RiskInit, Distinct
<1>. QED
  BY <1>2, <1>3 DEF RiskInit, RiskInv

LEMMA RiskStepKeeps == RiskInv /\ [RiskNext]_riskVars => RiskInv'
<1>. SUFFICES ASSUME RiskInv, [RiskNext]_riskVars PROVE RiskInv'
  OBVIOUS
<1>1. ASSUME NEW f \in Watched, NEW points \in Points \cup {Unknown}, Imported(f, points)
      PROVE  RiskInv'
  <2>1. points \in Severity \cup {Unknown}
    BY RubricIsBounded DEF Severity, UpTo
  <2>. QED
    BY <1>1, <2>1 DEF Imported, RiskInv
<1>2. CASE Ages
  BY <1>2 DEF Ages, RiskInv
<1>3. ASSUME NEW s \in Severities, NEW d \in Domains \cup {Unclassified}, EventFound(s, d)
      PROVE  RiskInv'
  <2>. DEFINE new == [id |-> Cardinality(events) + 1, severity |-> s, domain |-> d]
  <2>1. new \in RiskEvent /\ new.id = Cardinality(events) + 1
    <3>1. Cardinality(events) \in Nat
      BY FS_CardinalityType DEF RiskInv, Distinct
    <3>2. s \in Severity
      BY RubricIsBounded DEF Severity, UpTo
    <3>. QED
      BY <3>1, <3>2 DEF RiskEvent
  <2>2. events' = events \cup {new}
    BY <1>3 DEF EventFound
  <2>3. Distinct(events')
    <3>. HIDE DEF new
    <3>. QED
      BY <2>1, <2>2, OneMore DEF RiskInv
  <2>. QED
    BY <1>3, <2>3 DEF EventFound, RiskInv
<1>4. ASSUME NEW e \in events, EventEnds(e)
      PROVE  RiskInv'
  <2>1. Distinct(events')
    BY <1>4, OneLess DEF EventEnds, RiskInv
  <2>. QED
    BY <1>4, <2>1 DEF EventEnds, RiskInv
<1>5. CASE MonitoringCompletes
  BY <1>5 DEF MonitoringCompletes, RiskInv
<1>6. CASE OverrideFound
  BY <1>6 DEF OverrideFound, RiskInv
<1>7. CASE UNCHANGED riskVars
  BY <1>7 DEF riskVars, RiskInv
<1>. QED
  BY <1>1, <1>2, <1>3, <1>4, <1>5, <1>6, <1>7 DEF RiskNext

\* What a step says of the two scores, when every event is of a known domain.
LEMMA AnotherEvent ==
  ASSUME RiskInv, RiskNext, RiskFacts, RiskFacts', PublicConfirmed, events \subseteq events',
         \A e \in events' : e.domain \in Domains
  PROVE  PublicScore' >= PublicScore
<1>1. PublicScore = PublicOf(events, monitored) /\ PublicScore' = PublicOf(events', monitored')
  BY DEF RiskFacts
<1>2. Distinct(events) /\ (events # {} => RollUp(events) \in Nat)
  BY RollUpIs DEF RiskInv
<1>3. CASE events' = events /\ (monitored => monitored')
  <2>1. CASE events = {}
    BY <1>1, <1>3, <2>1 DEF PublicOf, PublicConfirmed
  <2>2. CASE events # {}
    BY <1>1, <1>2, <1>3, <2>2 DEF PublicOf
  <2>. QED
    BY <2>1, <2>2
<1>4. ASSUME NEW s \in Severities, NEW d \in Domains \cup {Unclassified}, EventFound(s, d)
      PROVE  PublicScore' >= PublicScore
  <2>. DEFINE new == [id |-> Cardinality(events) + 1, severity |-> s, domain |-> d]
  <2>1. new \in RiskEvent /\ new.id = Cardinality(events) + 1
    <3>1. Cardinality(events) \in Nat
      BY <1>2, FS_CardinalityType DEF Distinct
    <3>2. s \in Severity
      BY RubricIsBounded DEF Severity, UpTo
    <3>. QED
      BY <3>1, <3>2 DEF RiskEvent
  <2>2. events' = events \cup {new}
    BY <1>4 DEF EventFound
  <2>. HIDE DEF new
  <2>3. RollUp(events') \in Nat /\ events' # {}
    BY <1>2, <2>1, <2>2, OneMore, RollUpIs
  <2>4. CASE events = {}
    BY <1>1, <2>3, <2>4 DEF PublicOf, PublicConfirmed
  <2>5. CASE events # {}
    <3>1. RollUp(events) <= RollUp(events')
      BY <1>2, <2>1, <2>2, <2>5, RollUpGrows
    <3>. QED
      BY <1>1, <1>2, <2>3, <2>5, <3>1 DEF PublicOf
  <2>. QED
    BY <2>4, <2>5
<1>5. ASSUME NEW e \in events, EventEnds(e)
      PROVE  FALSE
  BY <1>5 DEF EventEnds
<1>6. \/ events' = events /\ (monitored => monitored')
      \/ \E s \in Severities, d \in Domains \cup {Unclassified} : EventFound(s, d)
      \/ \E e \in events : EventEnds(e)
  BY DEF RiskNext, Imported, Ages, MonitoringCompletes, OverrideFound
<1>. QED
  BY <1>3, <1>4, <1>5, <1>6

LEMMA LearningNarrows ==
  ASSUME RiskFacts, RiskFacts', OnlyLearnt
  PROVE  OverallRange.low <= OverallRange'.low /\ OverallRange'.high <= OverallRange.high
<1>1. /\ Floors \in [Factors -> Severity] /\ Ceilings \in [Factors -> Severity]
      /\ PublicScore = PublicOf(events, monitored)
      /\ PublicLow \in UpTo(10000) /\ PublicHigh \in UpTo(10000)
      /\ OverallRange = [low  |-> Overall(Weighted(Floors), PublicLow, converging, Blocked),
                         high |-> Overall(Weighted(Ceilings), PublicHigh, converging, Blocked)]
  BY DEF RiskFacts
<1>2. /\ Floors' \in [Factors -> Severity] /\ Ceilings' \in [Factors -> Severity]
      /\ PublicScore' = PublicOf(events', monitored')
      /\ PublicLow' \in UpTo(10000) /\ PublicHigh' \in UpTo(10000)
      /\ OverallRange' = [low  |-> Overall(Weighted(Floors'), PublicLow', converging', Blocked'),
                          high |-> Overall(Weighted(Ceilings'), PublicHigh', converging', Blocked')]
  BY DEF RiskFacts
<1>3. /\ \A f \in Factors : Floor(f) <= Floor(f)' /\ Ceiling(f)' <= Ceiling(f)
      /\ PublicConfirmed => events' = events /\ monitored' = monitored
      /\ converging' = converging /\ Blocked' = Blocked
  BY DEF OnlyLearnt
<1>4. /\ Floors = [f \in Factors |-> Floor(f)] /\ Floors' = [f \in Factors |-> Floor(f)']
      /\ Ceilings = [f \in Factors |-> Ceiling(f)] /\ Ceilings' = [f \in Factors |-> Ceiling(f)']
  BY DEF Floors, Ceilings
<1>5. /\ \A f \in Factors : Floors[f] <= Floors'[f] /\ Ceilings'[f] <= Ceilings[f]
  BY <1>3, <1>4
<1>6. PublicLow <= PublicLow' /\ PublicHigh' <= PublicHigh
  <2>1. CASE PublicConfirmed
    <3>1. PublicConfirmed' /\ PublicScore' = PublicScore
      BY <1>1, <1>2, <1>3, <2>1 DEF PublicConfirmed
    <3>2. PublicLow' = PublicLow /\ PublicHigh' = PublicHigh
      BY <2>1, <3>1 DEF PublicLow, PublicHigh
    <3>. QED
      BY <1>1, <3>2 DEF UpTo
  <2>2. CASE ~PublicConfirmed
    BY <1>2, <2>2 DEF PublicLow, PublicHigh, UpTo
  <2>. QED
    BY <2>1, <2>2
<1>7. /\ Weighted(Floors) \in UpTo(10000) /\ Weighted(Floors') \in UpTo(10000)
      /\ Weighted(Floors) <= Weighted(Floors')
  BY <1>1, <1>2, <1>5, WeightedGrows
<1>8. /\ Weighted(Ceilings) \in UpTo(10000) /\ Weighted(Ceilings') \in UpTo(10000)
      /\ Weighted(Ceilings') <= Weighted(Ceilings)
  BY <1>1, <1>2, <1>5, WeightedGrows
<1>9. Overall(Weighted(Floors), PublicLow, converging, Blocked)
        <= Overall(Weighted(Floors'), PublicLow', converging, Blocked)
  BY <1>1, <1>2, <1>6, <1>7, OverallGrows
<1>10. Overall(Weighted(Ceilings'), PublicHigh', converging, Blocked)
         <= Overall(Weighted(Ceilings), PublicHigh, converging, Blocked)
  BY <1>1, <1>2, <1>6, <1>8, OverallGrows
<1>. QED
  BY <1>1, <1>2, <1>3, <1>9, <1>10

LEMMA RangeIsRight == RiskFacts => OverallRange.low <= OverallRange.high
<1>. SUFFICES ASSUME RiskFacts PROVE OverallRange.low <= OverallRange.high
  OBVIOUS
<1>1. /\ Floors \in [Factors -> Severity] /\ Ceilings \in [Factors -> Severity]
      /\ \A f \in Factors : Floors[f] <= Ceilings[f]
      /\ PublicLow \in UpTo(10000) /\ PublicHigh \in UpTo(10000) /\ PublicLow <= PublicHigh
      /\ OverallRange = [low  |-> Overall(Weighted(Floors), PublicLow, converging, Blocked),
                         high |-> Overall(Weighted(Ceilings), PublicHigh, converging, Blocked)]
  BY DEF RiskFacts
<1>2. /\ Weighted(Floors) \in UpTo(10000) /\ Weighted(Ceilings) \in UpTo(10000)
      /\ Weighted(Floors) <= Weighted(Ceilings)
  BY <1>1, WeightedGrows
<1>3. Overall(Weighted(Floors), PublicLow, converging, Blocked)
        <= Overall(Weighted(Ceilings), PublicHigh, converging, Blocked)
  BY <1>1, <1>2, OverallGrows
<1>. QED
  BY <1>1, <1>3

(* What is not known is neither good nor bad: as more is learnt the range of *)
(* the overall risk only narrows, to the score once everything is known; and *)
(* another confirmed event never lowers the public risk, as long as every     *)
(* event has a known domain: beside a worst event of none, all the domains    *)
(* count as further ones.                                                     *)
THEOREM RisksAreHonest == RiskSpec => RiskIsHonest
<1>1. RiskInv /\ [RiskNext]_riskVars => RiskInv'
  BY RiskStepKeeps
<1>2. (RiskInv => RiskFacts /\ OverallRange.low <= OverallRange.high)'
  BY RiskIsKnown, RangeIsRight, PTL
<1>3. ASSUME RiskInv, [RiskNext]_riskVars
      PROVE  [ riskVars' # riskVars =>
                 \A before \in {OverallRange}, after \in {OverallRange'}, score \in {OverallScore'} :
                   /\ OnlyLearnt => before.low <= after.low /\ after.high <= before.high
                   /\ score # NoScore => after.low = score /\ after.high = score
                   /\ after.low <= after.high
                   /\ PublicConfirmed /\ events \subseteq events' /\ (\A e \in events' : e.domain \in Domains)
                        => PublicScore' >= PublicScore ]_riskVars
  <2>1. RiskFacts /\ RiskInv' /\ RiskFacts' /\ OverallRange'.low <= OverallRange'.high
    BY <1>1, <1>2, <1>3, RiskIsKnown
  <2>2. OnlyLearnt => OverallRange.low <= OverallRange'.low /\ OverallRange'.high <= OverallRange.high
    BY <2>1, LearningNarrows
  <2>3. OverallScore' # NoScore => OverallRange'.low = OverallScore' /\ OverallRange'.high = OverallScore'
    BY <2>1 DEF RiskFacts
  <2>4. riskVars' # riskVars =>
          (PublicConfirmed /\ events \subseteq events' /\ (\A e \in events' : e.domain \in Domains)
             => PublicScore' >= PublicScore)
    BY <1>3, <2>1, AnotherEvent
  <2>. QED
    BY <2>1, <2>2, <2>3, <2>4
<1>. QED
  BY <1>1, <1>3, RiskBegins, PTL DEF RiskSpec, RiskIsHonest

-----------------------------------------------------------------------------
(***************************************************************************)
(* The queue of a seller's day.                                            *)
(***************************************************************************)
ScoreOrNone == Scores \cup {Unscored}

SignalRecord ==
  [published : Nat, reviewed : BOOLEAN, actionable : BOOLEAN, base : Bases, score : ScoreOrNone]

TodayInv ==
  /\ today \in Nat
  /\ opened \in [Quotes -> Nat \cup {NoDay}]
  /\ promised \in [Orders -> Nat \cup {NoDay}]
  /\ signal \in [Briefs -> SignalRecord \cup {NoSignal}]
  /\ \A q \in Quotes : opened[q] <= today
  /\ \A b \in Briefs : signal[b].published <= today

-----------------------------------------------------------------------------
\* Candidate, of what it reads: the kind of an alert; a signal and its age.
Alert(kind) ==
  IF kind = "QUOTE_FOLLOW_UP"
  THEN [nature |-> "OPPORTUNITY", band |-> "MEDIUM", score |-> Unscored, ceiling |-> Unscored, confidence |-> "HIGH"]
  ELSE [nature |-> "RISK", band |-> "HIGH", score |-> Unscored, ceiling |-> Unscored, confidence |-> "HIGH"]

PointsAt(days) ==
  IF 4 * days <= Window THEN 100 ELSE IF 2 * days <= Window THEN 75
  ELSE IF days <= Window THEN 50 ELSE 0

ConfidenceAt(s, days) ==
  IF ~(days <= Window) THEN "NONE" ELSE IF s.base + PointsAt(days) >= 700 THEN "HIGH" ELSE "MEDIUM"

ScoreAt(b, s, days) == IF b \in RiskEvents /\ ~(days <= Window) THEN Unscored ELSE s.score
CeilingAt(b, days) == IF b \in RiskEvents /\ ~(days <= Window) THEN 100 ELSE PartialCeiling

SignalAt(b, s, days) ==
  [nature |-> IF b \in RiskEvents THEN "RISK" ELSE "OPPORTUNITY",
   band |-> IF ScoreAt(b, s, days) = Unscored THEN "NONE" ELSE IF ScoreAt(b, s, days) >= 70 THEN "HIGH" ELSE "MEDIUM",
   score |-> ScoreAt(b, s, days),
   ceiling |-> IF ScoreAt(b, s, days) = Unscored THEN CeilingAt(b, days) ELSE ScoreAt(b, s, days),
   confidence |-> ConfidenceAt(s, days)]

Whole(c) == IF Complete(c) THEN 0 ELSE 1

RankOf(c) == <<Triage(c), Whole(c), 100 - OrderingScore(c)>>
LexBefore(r, s) == \E i \in 1..3 : r[i] < s[i] /\ \A j \in 1..i - 1 : r[j] = s[j]

RanksBefore(a, b) ==
  \/ Triage(a) < Triage(b)
  \/ Triage(a) = Triage(b) /\ Whole(a) < Whole(b)
  \/ Triage(a) = Triage(b) /\ Whole(a) = Whole(b) /\ OrderingScore(b) < OrderingScore(a)

Matters == {"STALE_QUOTE", "OVERDUE_ORDER", "QUOTE_FOLLOW_UP"}

CandidatesAre ==
  /\ \A x : x.kind \in Matters => Candidate(x) = Alert(x.kind)
  /\ \A x : x.kind = "PUBLIC_SIGNAL" =>
       Candidate(x) = SignalAt(x.subject, signal[x.subject], Age(x.subject))
  /\ \A x, z : x.kind \in Matters /\ z.kind = "PUBLIC_SIGNAL" =>
       (IsBefore(x, z) <=>
          \/ LexBefore(RankOf(Candidate(x)), RankOf(Candidate(z)))
          \/ /\ RankOf(Candidate(x)) = RankOf(Candidate(z))
             /\ today < signal[z.subject].published)

LEMMA CandidatesRead == CandidatesAre
<1>1. ASSUME NEW x, x.kind \in Matters
      PROVE  Candidate(x) = Alert(x.kind)
  <2>1. CASE x.kind = "QUOTE_FOLLOW_UP"
    BY <2>1 DEF Candidate, Alert
  <2>2. CASE x.kind \in {"STALE_QUOTE", "OVERDUE_ORDER"}
    BY <2>2 DEF Candidate, Alert
  <2>. QED
    BY <1>1, <2>1, <2>2 DEF Matters
<1>2. ASSUME NEW x, x.kind = "PUBLIC_SIGNAL"
      PROVE  Candidate(x) = SignalAt(x.subject, signal[x.subject], Age(x.subject))
  BY <1>2 DEF Candidate, SignalAt, Score, RangeHigh, Confidence, EvidenceCounts, Fresh, FreshnessPoints,
              ScoreAt, CeilingAt, ConfidenceAt, PointsAt
<1>3. ASSUME NEW x, NEW z, x.kind \in Matters, z.kind = "PUBLIC_SIGNAL"
      PROVE  IsBefore(x, z) <=>
               \/ LexBefore(RankOf(Candidate(x)), RankOf(Candidate(z)))
               \/ /\ RankOf(Candidate(x)) = RankOf(Candidate(z))
                  /\ today < signal[z.subject].published
  <2>1. x.kind # "PUBLIC_SIGNAL"
    BY <1>3 DEF Matters
  <2>. QED
    BY <1>3, <2>1, Zenon DEF IsBefore, Whole, RankOf, LexBefore
<1>. QED
  BY <1>1, <1>2, <1>3 DEF CandidatesAre

LEMMA RanksAre ==
  ASSUME NEW a, NEW b, OrderingScore(a) \in Int, OrderingScore(b) \in Int
  PROVE  /\ LexBefore(RankOf(a), RankOf(b)) <=> RanksBefore(a, b)
         /\ Triage(a) \in {1, 2, 3} /\ Whole(a) \in {0, 1}
<1>1. /\ Triage(a) \in {1, 2, 3} /\ Triage(b) \in {1, 2, 3}
      /\ Whole(a) \in {0, 1} /\ Whole(b) \in {0, 1}
  BY DEF Triage, Whole
<1>2. LexBefore(RankOf(a), RankOf(b)) <=>
        \/ RankOf(a)[1] < RankOf(b)[1]
        \/ RankOf(a)[1] = RankOf(b)[1] /\ RankOf(a)[2] < RankOf(b)[2]
        \/ RankOf(a)[1] = RankOf(b)[1] /\ RankOf(a)[2] = RankOf(b)[2] /\ RankOf(a)[3] < RankOf(b)[3]
  <2>1. 1..3 = {1, 2, 3} /\ 1..(1 - 1) = {} /\ 1..(2 - 1) = {1} /\ 1..(3 - 1) = {1, 2}
    OBVIOUS
  <2>. QED
    BY <2>1 DEF LexBefore
<1>3. /\ RankOf(a)[1] = Triage(a) /\ RankOf(a)[2] = Whole(a) /\ RankOf(a)[3] = 100 - OrderingScore(a)
      /\ RankOf(b)[1] = Triage(b) /\ RankOf(b)[2] = Whole(b) /\ RankOf(b)[3] = 100 - OrderingScore(b)
  BY DEF RankOf
<1>4. 100 - OrderingScore(a) < 100 - OrderingScore(b) <=> OrderingScore(b) < OrderingScore(a)
  OBVIOUS
<1>. QED
  BY <1>1, <1>2, <1>3, <1>4 DEF RanksBefore

LEMMA AlertsAre ==
  /\ \A kind \in Matters : Complete(Alert(kind))
  /\ \A kind \in {"STALE_QUOTE", "OVERDUE_ORDER"} :
       Triage(Alert(kind)) = 1 /\ OrderingScore(Alert(kind)) = 75
  /\ Triage(Alert("QUOTE_FOLLOW_UP")) = 3 /\ OrderingScore(Alert("QUOTE_FOLLOW_UP")) = 50
<1>1. ASSUME NEW kind \in {"STALE_QUOTE", "OVERDUE_ORDER"}
      PROVE  /\ Complete(Alert(kind)) /\ Triage(Alert(kind)) = 1 /\ OrderingScore(Alert(kind)) = 75
  <2>1. Alert(kind) = [nature |-> "RISK", band |-> "HIGH", score |-> Unscored, ceiling |-> Unscored,
                       confidence |-> "HIGH"]
    BY DEF Alert
  <2>. QED
    BY <2>1 DEF Complete, Triage, OrderingScore
<1>2. /\ Complete(Alert("QUOTE_FOLLOW_UP")) /\ Triage(Alert("QUOTE_FOLLOW_UP")) = 3
      /\ OrderingScore(Alert("QUOTE_FOLLOW_UP")) = 50
  <2>1. Alert("QUOTE_FOLLOW_UP") = [nature |-> "OPPORTUNITY", band |-> "MEDIUM", score |-> Unscored,
                                    ceiling |-> Unscored, confidence |-> "HIGH"]
    BY DEF Alert
  <2>. QED
    BY <2>1 DEF Complete, Triage, OrderingScore
<1>. QED
  BY <1>1, <1>2 DEF Matters

LEMMA ThresholdsAre ==
  /\ FollowUpDays \in Nat /\ StaleQuoteDays \in Nat /\ Window \in Nat /\ SavedDays \in Nat
  /\ FollowUpDays < StaleQuoteDays /\ Window < SavedDays
  /\ RiskEvents \subseteq Briefs
  /\ \A s \in Scores : s \in Nat /\ s # Unscored
  /\ \A s \in ScoreOrNone : s \in Int
  /\ Bases \subseteq Nat /\ PartialCeiling \in Nat /\ PartialCeiling # Unscored
BY ThresholdsAreOrdered DEF Unscored, ScoreOrNone

\* What one more day makes of a signal: it is no more urgent, and where it is still complete
\* its score is the same.
LEMMA SignalAges ==
  ASSUME NEW b \in Briefs, NEW s \in SignalRecord, NEW days \in Nat
  PROVE  LET a == SignalAt(b, s, days)
             c == SignalAt(b, s, days + 1)
         IN  /\ Triage(a) \in {1, 2, 3} /\ Triage(c) \in {1, 2, 3} /\ Triage(a) <= Triage(c)
             /\ OrderingScore(a) \in Int /\ OrderingScore(c) \in Int
             /\ Complete(c) => Complete(a) /\ OrderingScore(c) = OrderingScore(a)
             /\ Triage(a) < 3 => b \in RiskEvents /\ days <= Window /\ s.score >= 70
<1>. DEFINE a == SignalAt(b, s, days)
            c == SignalAt(b, s, days + 1)
<1>1. s.base \in Nat /\ s.score \in ScoreOrNone /\ s.score \in Int /\ (s.score # Unscored => s.score \in Nat)
  BY ThresholdsAre DEF SignalRecord, ScoreOrNone
<1>2. Window \in Nat /\ (days + 1 <= Window => days <= Window)
  BY ThresholdsAre
<1>3. PointsAt(days) \in Nat /\ PointsAt(days + 1) \in Nat /\ PointsAt(days + 1) <= PointsAt(days)
  BY <1>2 DEF PointsAt
<1>4. /\ ConfidenceAt(s, days) \in {"NONE", "HIGH", "MEDIUM"}
      /\ ConfidenceAt(s, days + 1) = "HIGH" => ConfidenceAt(s, days) = "HIGH"
      /\ ConfidenceAt(s, days + 1) # "NONE" => ConfidenceAt(s, days) # "NONE"
      /\ ConfidenceAt(s, days) # "NONE" => days <= Window
      /\ ConfidenceAt(s, days + 1) # "NONE" => days + 1 <= Window
  BY <1>1, <1>2, <1>3 DEF ConfidenceAt
<1>5. /\ days <= Window => ScoreAt(b, s, days) = s.score
      /\ days + 1 <= Window => ScoreAt(b, s, days + 1) = s.score
      /\ ScoreAt(b, s, days) \in {s.score, Unscored} /\ ScoreAt(b, s, days + 1) \in {s.score, Unscored}
      /\ CeilingAt(b, days) \in {100, PartialCeiling} /\ CeilingAt(b, days + 1) \in {100, PartialCeiling}
  BY DEF ScoreAt, CeilingAt
<1>6. /\ a.nature = (IF b \in RiskEvents THEN "RISK" ELSE "OPPORTUNITY") /\ c.nature = a.nature
      /\ a.score = ScoreAt(b, s, days) /\ c.score = ScoreAt(b, s, days + 1)
      /\ a.confidence = ConfidenceAt(s, days) /\ c.confidence = ConfidenceAt(s, days + 1)
      /\ a.ceiling = (IF a.score = Unscored THEN CeilingAt(b, days) ELSE a.score)
      /\ c.ceiling = (IF c.score = Unscored THEN CeilingAt(b, days + 1) ELSE c.score)
      /\ a.band = (IF a.score = Unscored THEN "NONE" ELSE IF a.score >= 70 THEN "HIGH" ELSE "MEDIUM")
      /\ c.band = (IF c.score = Unscored THEN "NONE" ELSE IF c.score >= 70 THEN "HIGH" ELSE "MEDIUM")
  BY DEF SignalAt
<1>. HIDE DEF a, c
<1>7. Unscored \in Int /\ PartialCeiling \in Int /\ PartialCeiling # Unscored /\ 100 # Unscored
  BY ThresholdsAre DEF Unscored
<1>8. OrderingScore(a) \in Int
  BY <1>1, <1>5, <1>6, <1>7 DEF OrderingScore
<1>9. OrderingScore(c) \in Int
  BY <1>1, <1>5, <1>6, <1>7 DEF OrderingScore
<1>10. Triage(a) \in {1, 2, 3} /\ Triage(c) \in {1, 2, 3}
  BY DEF Triage
<1>11. ASSUME c.confidence # "NONE"
       PROVE  a.score = s.score /\ c.score = s.score /\ a.band = c.band /\ a.confidence # "NONE"
  BY <1>2, <1>4, <1>5, <1>6, <1>11
<1>12. Triage(a) <= Triage(c)
  <2>1. CASE c.confidence = "NONE"
    BY <1>10, <2>1 DEF Triage
  <2>2. CASE c.confidence # "NONE"
    BY <1>4, <1>6, <1>10, <1>11, <2>2 DEF Triage
  <2>. QED
    BY <2>1, <2>2
<1>13. Complete(c) => Complete(a) /\ OrderingScore(c) = OrderingScore(a)
  BY <1>6, <1>11 DEF Complete, OrderingScore
<1>14. Triage(a) < 3 => b \in RiskEvents /\ days <= Window /\ s.score >= 70
  <2>. SUFFICES ASSUME Triage(a) < 3
                PROVE  b \in RiskEvents /\ days <= Window /\ s.score >= 70
    OBVIOUS
  <2>1. a.nature = "RISK" /\ a.band = "HIGH" /\ a.confidence \in {"HIGH", "MEDIUM"}
    BY DEF Triage
  <2>2. days <= Window /\ b \in RiskEvents
    BY <1>4, <1>6, <2>1
  <2>3. a.score >= 70
    BY <1>6, <2>1
  <2>. QED
    BY <1>5, <1>6, <2>2, <2>3
<1>. QED
  BY <1>8, <1>9, <1>10, <1>12, <1>13, <1>14 DEF a, c

\* A matter before a signal stays before it, if it is what it was or more urgent.
LEMMA StaysBefore ==
  ASSUME NEW x \in Matters, NEW y \in Matters,
         y = x \/ Triage(Alert(y)) < Triage(Alert(x)),
         NEW b \in Briefs, NEW s \in SignalRecord, NEW days \in Nat,
         RanksBefore(Alert(x), SignalAt(b, s, days))
  PROVE  RanksBefore(Alert(y), SignalAt(b, s, days + 1))
<1>. DEFINE p == Alert(x)
            q == Alert(y)
            a == SignalAt(b, s, days)
            c == SignalAt(b, s, days + 1)
<1>1. /\ Triage(a) \in {1, 2, 3} /\ Triage(c) \in {1, 2, 3} /\ Triage(a) <= Triage(c)
      /\ OrderingScore(a) \in Int /\ OrderingScore(c) \in Int
      /\ Complete(c) => Complete(a) /\ OrderingScore(c) = OrderingScore(a)
  BY SignalAges
<1>2. /\ Complete(p) /\ Complete(q) /\ Triage(p) \in {1, 3} /\ Triage(q) \in {1, 3}
      /\ OrderingScore(p) \in Int
  BY AlertsAre DEF Matters
<1>3. (q = p \/ Triage(q) < Triage(p)) /\ RanksBefore(p, a)
  OBVIOUS
<1>. SUFFICES RanksBefore(q, c)
  OBVIOUS
<1>. HIDE DEF p, q, a, c
<1>4. CASE Triage(q) < Triage(p)
  BY <1>1, <1>2, <1>3, <1>4 DEF RanksBefore
<1>5. CASE q = p
  <2>1. CASE Complete(c)
    BY <1>1, <1>2, <1>3, <1>5, <2>1 DEF RanksBefore, Whole
  <2>2. CASE ~Complete(c)
    BY <1>1, <1>2, <1>3, <1>5, <2>2 DEF RanksBefore, Whole
  <2>. QED
    BY <2>1, <2>2
<1>. QED
  BY <1>3, <1>4, <1>5

-----------------------------------------------------------------------------
\* The queue, of what it reads.
QuotesAt(open, date) == {q \in Quotes : open[q] # NoDay /\ date - open[q] >= FollowUpDays}
KindAt(open, q, date) == IF date - open[q] >= StaleQuoteDays THEN "STALE_QUOTE" ELSE "QUOTE_FOLLOW_UP"
OrdersAt(due, date) == {o \in Orders : due[o] # NoDay /\ due[o] < date}
ShownAt(s, date) ==
  /\ s # NoSignal /\ s.actionable
  /\ \/ ~s.reviewed /\ date - s.published <= Window
     \/ ~(date - s.published <= Window) /\ date - s.published <= SavedDays

QueueIs ==
  \A x : x \in Queue <=>
    \/ \E q \in QuotesAt(opened, today), u \in Units : x = Item(KindAt(opened, q, today), q, u)
    \/ \E o \in OrdersAt(promised, today) : x = Item("OVERDUE_ORDER", o, 0)
    \/ \E b \in Briefs : ShownAt(signal[b], today) /\ x = Item("PUBLIC_SIGNAL", b, 0)

LEMMA QueueReads == QueueIs
<1>1. \A x : x \in QuoteAlerts <=>
        \E q \in QuotesAt(opened, today), u \in Units : x = Item(KindAt(opened, q, today), q, u)
  <2>1. QuoteAlerts = UNION {{Item(KindAt(opened, q, today), q, u) : u \in Units}
                             : q \in QuotesAt(opened, today)}
    BY DEF QuoteAlerts, QuotesAt, KindAt
  <2>. QED
    BY <2>1
<1>2. \A x : x \in OverdueOrders <=> \E o \in OrdersAt(promised, today) : x = Item("OVERDUE_ORDER", o, 0)
  BY DEF OverdueOrders, OrdersAt
<1>3. \A b \in Briefs : b \in ActionLane <=> ShownAt(signal[b], today)
  BY DEF ActionLane, IsCurrent, IsSaved, Known, Fresh, Age, ShownAt
<1>4. \A x : x \in {Item("PUBLIC_SIGNAL", b, 0) : b \in ActionLane} <=>
               \E b \in Briefs : ShownAt(signal[b], today) /\ x = Item("PUBLIC_SIGNAL", b, 0)
  BY <1>3 DEF ActionLane
<1>. HIDE DEF QuoteAlerts, OverdueOrders
<1>5. \A x : x \in Queue <=>
        \/ x \in QuoteAlerts \/ x \in OverdueOrders
        \/ x \in {Item("PUBLIC_SIGNAL", b, 0) : b \in ActionLane}
  BY DEF Queue
<1>. QED
  BY <1>1, <1>2, <1>4, <1>5 DEF QueueIs

LEMMA ItemsAre ==
  ASSUME NEW kind, NEW subject, NEW unit
  PROVE  /\ Item(kind, subject, unit).kind = kind /\ Item(kind, subject, unit).subject = subject
         /\ Item(kind, subject, unit).unit = unit
BY DEF Item

LEMMA TodayBegins == TodayInit => TodayInv
<1>. SUFFICES ASSUME TodayInit PROVE TodayInv
  OBVIOUS
<1>1. NoSignal.published = NoDay
  BY DEF NoSignal
<1>. QED
  BY <1>1 DEF TodayInit, TodayInv, NoDay

LEMMA TodayStepKeeps == TodayInv /\ [TodayNext]_todayVars => TodayInv'
<1>. SUFFICES ASSUME TodayInv, [TodayNext]_todayVars PROVE TodayInv'
  OBVIOUS
<1>0. NoDay \in Int /\ NoDay <= today
  BY DEF NoDay, TodayInv
<1>1. ASSUME NEW q \in Quotes, QuoteOpens(q) \/ QuoteSettles(q)
      PROVE  TodayInv'
  <2>1. PICK date \in {today, NoDay} : opened' = [opened EXCEPT ![q] = date]
    BY <1>1 DEF QuoteOpens, QuoteSettles
  <2>2. today' = today /\ promised' = promised /\ signal' = signal
    BY <1>1 DEF QuoteOpens, QuoteSettles
  <2>3. opened' \in [Quotes -> Nat \cup {NoDay}] /\ \A p \in Quotes : opened'[p] <= today
    BY <1>0, <2>1 DEF TodayInv
  <2>. QED
    BY <2>2, <2>3 DEF TodayInv
<1>2. ASSUME NEW o \in Orders, OrderShips(o) \/ \E date \in {today, today + 1} : OrderIsPromised(o, date)
      PROVE  TodayInv'
  <2>1. PICK date \in {today, today + 1, NoDay} : promised' = [promised EXCEPT ![o] = date]
    BY <1>2 DEF OrderShips, OrderIsPromised
  <2>2. today' = today /\ opened' = opened /\ signal' = signal
    BY <1>2 DEF OrderShips, OrderIsPromised
  <2>3. promised' \in [Orders -> Nat \cup {NoDay}]
    BY <2>1 DEF TodayInv
  <2>. QED
    BY <2>2, <2>3 DEF TodayInv
<1>3. ASSUME NEW b \in Briefs, NEW assessment \in Assessments, SignalIsAssessed(b, assessment)
      PROVE  TodayInv'
  <2>. DEFINE now == [published |-> IF Known(b) THEN signal[b].published ELSE today,
                      reviewed |-> assessment.reviewed, actionable |-> assessment.actionable,
                      base |-> assessment.base, score |-> assessment.score]
  <2>1. signal' = [signal EXCEPT ![b] = now] /\ today' = today /\ opened' = opened /\ promised' = promised
    BY <1>3 DEF SignalIsAssessed
  <2>2. now.published \in Nat /\ now.published <= today
    BY DEF TodayInv, Known, SignalRecord
  <2>3. now \in SignalRecord
    BY <2>2 DEF SignalRecord, Assessments, ScoreOrNone
  <2>. HIDE DEF now
  <2>4. /\ signal' \in [Briefs -> SignalRecord \cup {NoSignal}]
        /\ \A c \in Briefs : signal'[c].published <= today
    BY <2>1, <2>2, <2>3 DEF TodayInv
  <2>. QED
    BY <2>1, <2>4 DEF TodayInv
<1>4. CASE DayPasses
  <2>1. today' = today + 1 /\ opened' = opened /\ promised' = promised /\ signal' = signal
    BY <1>4 DEF DayPasses
  <2>2. \A x \in Nat \cup {NoDay} : x <= today => x <= today + 1
    BY <1>0 DEF TodayInv, NoDay
  <2>3. \A b \in Briefs : signal[b].published \in Nat \cup {NoDay}
    <3>1. NoSignal.published = NoDay
      BY DEF NoSignal
    <3>2. \A s \in SignalRecord : s.published \in Nat
      BY DEF SignalRecord
    <3>. QED
      BY <3>1, <3>2 DEF TodayInv
  <2>4. \A q \in Quotes : opened[q] \in Nat \cup {NoDay}
    BY DEF TodayInv
  <2>5. \A q \in Quotes : opened[q] <= today + 1
    BY <2>2, <2>4 DEF TodayInv
  <2>6. \A b \in Briefs : signal[b].published <= today + 1
    BY <2>2, <2>3 DEF TodayInv
  <2>. QED
    BY <2>1, <2>5, <2>6 DEF TodayInv
<1>5. CASE UNCHANGED todayVars
  BY <1>5 DEF todayVars, TodayInv
<1>. QED
  BY <1>1, <1>2, <1>3, <1>4, <1>5 DEF TodayNext

\* Only a day that passes changes the day.
LEMMA OneDayAtATime ==
  ASSUME TodayInv, TodayNext, today' > today
  PROVE  today' = today + 1 /\ opened' = opened /\ promised' = promised /\ signal' = signal
<1>1. ~(today > today)
  BY DEF TodayInv
<1>2. today' # today
  BY <1>1
<1>3. DayPasses
  BY <1>2 DEF TodayNext, QuoteOpens, QuoteSettles, OrderShips, OrderIsPromised, SignalIsAssessed
<1>. QED
  BY <1>3 DEF DayPasses

ADayOn ==
  /\ today' = today + 1 /\ opened' = opened /\ promised' = promised /\ signal' = signal
  /\ TodayInv /\ CandidatesAre /\ CandidatesAre' /\ QueueIs /\ QueueIs'

LEMMA DayIs ==
  ASSUME ADayOn
  PROVE  /\ today \in Nat /\ \A q \in Quotes : opened[q] \in Int
         /\ \A o \in Orders : promised[o] \in Int
         /\ \A b \in Briefs : signal[b] # NoSignal => signal[b] \in SignalRecord
         /\ \A b \in Briefs : signal[b].published <= today
         /\ \A x \in Queue : x.kind # "PUBLIC_SIGNAL" => x.kind \in Matters
<1>1. today \in Nat /\ QueueIs /\ NoDay \in Int
  BY DEF ADayOn, TodayInv, NoDay
<1>2. /\ \A q \in Quotes : opened[q] \in Int
      /\ \A o \in Orders : promised[o] \in Int
  BY <1>1 DEF ADayOn, TodayInv
<1>3. /\ \A b \in Briefs : signal[b] # NoSignal => signal[b] \in SignalRecord
      /\ \A b \in Briefs : signal[b].published <= today
  BY DEF ADayOn, TodayInv
<1>4. \A x \in Queue : x.kind # "PUBLIC_SIGNAL" => x.kind \in Matters
  BY <1>1, ItemsAre DEF QueueIs, KindAt, Matters
<1>. QED
  BY <1>1, <1>2, <1>3, <1>4

\* A signal of the queue, and the day after.
LEMMA SignalOf ==
  ASSUME ADayOn, NEW z \in Queue, z.kind = "PUBLIC_SIGNAL"
  PROVE  LET b == z.subject
             days == today - signal[b].published
         IN  /\ b \in Briefs /\ z = Item("PUBLIC_SIGNAL", b, 0) /\ ShownAt(signal[b], today)
             /\ signal[b] \in SignalRecord /\ days \in Nat /\ signal[b].published \in Nat
             /\ Candidate(z) = SignalAt(b, signal[b], days)
             /\ Candidate(z)' = SignalAt(b, signal[b], days + 1)
<1>1. PICK b \in Briefs : ShownAt(signal[b], today) /\ z = Item("PUBLIC_SIGNAL", b, 0)
  BY ItemsAre DEF ADayOn, QueueIs, KindAt
<1>2. z.subject = b
  BY <1>1, ItemsAre
<1>3. signal[b] \in SignalRecord
  BY <1>1, DayIs DEF ShownAt
<1>4. signal[b].published \in Nat /\ signal[b].published <= today /\ today \in Nat
  BY <1>3, DayIs DEF SignalRecord
<1>5. today - signal[b].published \in Nat
  BY <1>4
<1>6. Candidate(z) = SignalAt(b, signal[b], today - signal[b].published)
  BY <1>2 DEF ADayOn, CandidatesAre, Age
<1>7. Candidate(z)' = SignalAt(b, signal'[b], today' - signal'[b].published)
  BY <1>2 DEF ADayOn, CandidatesAre, Age
<1>8. today' - signal'[b].published = (today - signal[b].published) + 1 /\ signal'[b] = signal[b]
  BY <1>4 DEF ADayOn
<1>9. Candidate(z)' = SignalAt(b, signal[b], (today - signal[b].published) + 1)
  BY <1>7, <1>8
<1>. QED
  BY <1>1, <1>2, <1>3, <1>4, <1>5, <1>6, <1>9

LEMMA StillBefore ==
  ASSUME ADayOn, NEW x, NEW y, x.kind \in Matters, y.kind \in Matters,
         y.kind = x.kind \/ Triage(Alert(y.kind)) < Triage(Alert(x.kind)),
         NEW z \in Queue, z.kind = "PUBLIC_SIGNAL", IsBefore(x, z)
  PROVE  IsBefore(y, z)'
<1>. DEFINE b == z.subject
            days == today - signal[b].published
            a == SignalAt(b, signal[b], days)
            c == SignalAt(b, signal[b], days + 1)
<1>1. /\ b \in Briefs /\ signal[b] \in SignalRecord /\ days \in Nat /\ signal[b].published \in Nat
      /\ Candidate(z) = a /\ Candidate(z)' = c
  BY SignalOf
<1>2. Candidate(x) = Alert(x.kind) /\ Candidate(y)' = Alert(y.kind)
  BY DEF ADayOn, CandidatesAre
<1>3. OrderingScore(a) \in Int /\ OrderingScore(c) \in Int
  BY <1>1, SignalAges
<1>4. OrderingScore(Alert(x.kind)) \in Int /\ OrderingScore(Alert(y.kind)) \in Int
  BY AlertsAre DEF Matters
<1>5. ~(today < signal[b].published)
  BY <1>1, DayIs
<1>6. LexBefore(RankOf(Candidate(x)), RankOf(Candidate(z)))
  <2>1. IsBefore(x, z) <=>
          \/ LexBefore(RankOf(Candidate(x)), RankOf(Candidate(z)))
          \/ RankOf(Candidate(x)) = RankOf(Candidate(z)) /\ today < signal[b].published
    BY DEF ADayOn, CandidatesAre
  <2>. QED
    BY <1>5, <2>1
<1>7. RanksBefore(Alert(x.kind), a)
  <2>. HIDE DEF a
  <2>. QED
    BY <1>1, <1>2, <1>3, <1>4, <1>6, RanksAre
<1>8. RanksBefore(Alert(y.kind), c)
  <2>1. y.kind = x.kind \/ Triage(Alert(y.kind)) < Triage(Alert(x.kind))
    OBVIOUS
  <2>. HIDE DEF b, days
  <2>. QED
    BY <1>1, <1>7, <2>1, StaysBefore
<1>9. LexBefore(RankOf(Candidate(y)'), RankOf(Candidate(z)'))
  <2>. HIDE DEF c
  <2>. QED
    BY <1>1, <1>2, <1>3, <1>4, <1>8, RanksAre
<1>10. IsBefore(y, z)' <=>
         \/ LexBefore(RankOf(Candidate(y)'), RankOf(Candidate(z)'))
         \/ RankOf(Candidate(y)') = RankOf(Candidate(z)') /\ today' < signal'[z.subject].published
  BY DEF ADayOn, CandidatesAre
<1>. QED
  BY <1>9, <1>10

\* A commercial matter a day later: it is there, once, as it was or escalated.
LEMMA MattersStay ==
  ASSUME ADayOn, NEW x \in Queue, x.kind # "PUBLIC_SIGNAL"
  PROVE  \E y \in Queue' :
           /\ SameMatter(x, y) /\ Triage(Candidate(y)') <= Triage(Candidate(x))
           /\ \A z \in Queue' : z.kind # "PUBLIC_SIGNAL" /\ SameMatter(x, z) => z = y
           /\ \A z \in Queue \cap Queue' : z.kind = "PUBLIC_SIGNAL" /\ IsBefore(x, z) => IsBefore(y, z)'
<1>1. \A z : z \in Queue' <=>
        \/ \E q \in QuotesAt(opened, today + 1), u \in Units : z = Item(KindAt(opened, q, today + 1), q, u)
        \/ \E o \in OrdersAt(promised, today + 1) : z = Item("OVERDUE_ORDER", o, 0)
        \/ \E b \in Briefs : ShownAt(signal[b], today + 1) /\ z = Item("PUBLIC_SIGNAL", b, 0)
  BY DEF ADayOn, QueueIs
<1>2. \A q, date : KindAt(opened, q, date) \in {"STALE_QUOTE", "QUOTE_FOLLOW_UP"}
  BY DEF KindAt
<1>3. ASSUME NEW y \in Queue', SameMatter(x, y), y.kind \in Matters,
             y.kind = x.kind \/ (x.kind = "QUOTE_FOLLOW_UP" /\ y.kind = "STALE_QUOTE"),
             \A z \in Queue' : z.kind # "PUBLIC_SIGNAL" /\ SameMatter(x, z) => z = y
      PROVE  \E w \in Queue' :
               /\ SameMatter(x, w) /\ Triage(Candidate(w)') <= Triage(Candidate(x))
               /\ \A z \in Queue' : z.kind # "PUBLIC_SIGNAL" /\ SameMatter(x, z) => z = w
               /\ \A z \in Queue \cap Queue' : z.kind = "PUBLIC_SIGNAL" /\ IsBefore(x, z) => IsBefore(w, z)'
  <2>1. x.kind \in Matters
    BY DayIs
  <2>2. y.kind = x.kind \/ Triage(Alert(y.kind)) < Triage(Alert(x.kind))
    BY <1>3, AlertsAre
  <2>3. Triage(Alert(y.kind)) <= Triage(Alert(x.kind))
    BY <1>3, <2>1, AlertsAre DEF Matters
  <2>4. Candidate(x) = Alert(x.kind) /\ Candidate(y)' = Alert(y.kind)
    BY <1>3, <2>1 DEF ADayOn, CandidatesAre
  <2>5. Triage(Candidate(y)') <= Triage(Candidate(x))
    BY <2>3, <2>4
  <2>6. \A z \in Queue \cap Queue' : z.kind = "PUBLIC_SIGNAL" /\ IsBefore(x, z) => IsBefore(y, z)'
    BY <1>3, <2>1, <2>2, StillBefore
  <2>. QED
    BY <1>3, <2>5, <2>6
<1>4. ASSUME NEW q \in QuotesAt(opened, today), NEW u \in Units, x = Item(KindAt(opened, q, today), q, u)
      PROVE  \E y \in Queue' :
               /\ SameMatter(x, y) /\ y.kind \in Matters
               /\ y.kind = x.kind \/ (x.kind = "QUOTE_FOLLOW_UP" /\ y.kind = "STALE_QUOTE")
               /\ \A z \in Queue' : z.kind # "PUBLIC_SIGNAL" /\ SameMatter(x, z) => z = y
  <2>1. PICK y : y = Item(KindAt(opened, q, today + 1), q, u)
    OBVIOUS
  <2>2. q \in QuotesAt(opened, today + 1)
    BY DayIs, ThresholdsAre DEF QuotesAt
  <2>3. y \in Queue'
    BY <1>1, <2>1, <2>2
  <2>4. /\ y.kind = KindAt(opened, q, today + 1) /\ y.subject = q /\ y.unit = u
        /\ x.kind = KindAt(opened, q, today) /\ x.subject = q /\ x.unit = u
    BY <1>4, <2>1, ItemsAre
  <2>5. KindAt(opened, q, today) = "STALE_QUOTE" => KindAt(opened, q, today + 1) = "STALE_QUOTE"
    <3>1. q \in Quotes
      BY DEF QuotesAt
    <3>. QED
      BY <3>1, DayIs, ThresholdsAre DEF KindAt
  <2>6. y.kind = x.kind \/ (x.kind = "QUOTE_FOLLOW_UP" /\ y.kind = "STALE_QUOTE")
    BY <1>2, <2>4, <2>5
  <2>7. SameMatter(x, y) /\ y.kind \in Matters
    BY <1>2, <2>4, <2>6 DEF SameMatter, Matters
  <2>8. ASSUME NEW z \in Queue', z.kind # "PUBLIC_SIGNAL", SameMatter(x, z)
        PROVE  z = y
    <3>1. z.kind # "OVERDUE_ORDER" /\ z.subject = q /\ z.unit = u
      BY <1>2, <2>4, <2>8 DEF SameMatter
    <3>2. PICK p \in QuotesAt(opened, today + 1), v \in Units : z = Item(KindAt(opened, p, today + 1), p, v)
      BY <1>1, <2>8, <3>1, ItemsAre
    <3>3. p = q /\ v = u
      BY <3>1, <3>2, ItemsAre
    <3>. QED
      BY <2>1, <3>2, <3>3
  <2>. QED
    BY <2>3, <2>6, <2>7, <2>8
<1>5. ASSUME NEW o \in OrdersAt(promised, today), x = Item("OVERDUE_ORDER", o, 0)
      PROVE  /\ x \in Queue' /\ SameMatter(x, x) /\ x.kind \in Matters
             /\ \A z \in Queue' : z.kind # "PUBLIC_SIGNAL" /\ SameMatter(x, z) => z = x
  <2>1. o \in OrdersAt(promised, today + 1)
    BY DayIs DEF OrdersAt
  <2>2. x.kind = "OVERDUE_ORDER" /\ x.subject = o /\ x.unit = 0
    BY <1>5, ItemsAre
  <2>3. ASSUME NEW z \in Queue', z.kind # "PUBLIC_SIGNAL", SameMatter(x, z)
        PROVE  z = x
    <3>1. z.kind = "OVERDUE_ORDER" /\ z.subject = o
      BY <2>2, <2>3 DEF SameMatter
    <3>2. PICK p \in OrdersAt(promised, today + 1) : z = Item("OVERDUE_ORDER", p, 0)
      BY <1>1, <1>2, <3>1, ItemsAre
    <3>. QED
      BY <1>5, <3>1, <3>2, ItemsAre
  <2>. QED
    BY <1>1, <1>5, <2>1, <2>2, <2>3 DEF SameMatter, Matters
<1>6. \/ \E q \in QuotesAt(opened, today), u \in Units : x = Item(KindAt(opened, q, today), q, u)
      \/ \E o \in OrdersAt(promised, today) : x = Item("OVERDUE_ORDER", o, 0)
  BY ItemsAre DEF ADayOn, QueueIs
<1>. QED
  BY <1>3, <1>4, <1>5, <1>6

LEMMA SignalsWane ==
  ASSUME ADayOn, NEW x \in Queue, x.kind = "PUBLIC_SIGNAL"
  PROVE  IF x \in Queue' THEN Triage(Candidate(x)') >= Triage(Candidate(x))
         ELSE signal[x.subject].published + SavedDays < today'
<1>. DEFINE b == x.subject
            days == today - signal[b].published
<1>1. /\ b \in Briefs /\ x = Item("PUBLIC_SIGNAL", b, 0) /\ ShownAt(signal[b], today)
      /\ signal[b] \in SignalRecord /\ days \in Nat /\ signal[b].published \in Nat
      /\ Candidate(x) = SignalAt(b, signal[b], days)
      /\ Candidate(x)' = SignalAt(b, signal[b], days + 1)
  BY SignalOf
<1>2. Triage(Candidate(x)') >= Triage(Candidate(x))
  <2>. HIDE DEF b, days
  <2>1. LET a == SignalAt(b, signal[b], days)
            c == SignalAt(b, signal[b], days + 1)
        IN  Triage(a) \in {1, 2, 3} /\ Triage(c) \in {1, 2, 3} /\ Triage(a) <= Triage(c)
    BY <1>1, SignalAges
  <2>. QED
    BY <1>1, <2>1
<1>3. ASSUME x \notin Queue'
      PROVE  signal[b].published + SavedDays < today'
  <2>1. ~ShownAt(signal[b], today + 1)
    BY <1>1, <1>3 DEF ADayOn, QueueIs
  <2>2. today' = today + 1 /\ today \in Nat
    BY DayIs DEF ADayOn
  <2>. HIDE DEF b
  <2>3. ~(today + 1 - signal[b].published <= SavedDays)
    BY <1>1, <2>1, <2>2, ThresholdsAre DEF ShownAt
  <2>. QED
    BY <1>1, <2>2, <2>3, ThresholdsAre
<1>. QED
  BY <1>2, <1>3

LEMMA InterruptsWhileCurrent ==
  ASSUME ADayOn, TodayInv', NEW x \in Queue', x.kind = "PUBLIC_SIGNAL", Triage(Candidate(x)') < 3
  PROVE  Fresh(x.subject)' /\ signal'[x.subject].score >= 70
<1>1. PICK b \in Briefs : ShownAt(signal'[b], today') /\ x = Item("PUBLIC_SIGNAL", b, 0)
  BY ItemsAre DEF ADayOn, QueueIs, KindAt
<1>2. x.subject = b
  BY <1>1, ItemsAre
<1>3. signal'[b] \in SignalRecord /\ signal'[b].published <= today' /\ today' \in Nat
  BY <1>1 DEF TodayInv, ShownAt
<1>4. signal'[b].published \in Nat
  BY <1>3 DEF SignalRecord
<1>5. today' - signal'[b].published \in Nat
  BY <1>3, <1>4
<1>6. Candidate(x)' = SignalAt(b, signal'[b], today' - signal'[b].published)
  BY <1>2 DEF ADayOn, CandidatesAre, Age
<1>7. today' - signal'[b].published <= Window /\ signal'[b].score >= 70
  <2>1. Triage(SignalAt(b, signal'[b], today' - signal'[b].published)) < 3
    BY <1>6
  <2>2. \A s \in SignalRecord, days \in Nat :
          Triage(SignalAt(b, s, days)) < 3 => days <= Window /\ s.score >= 70
    BY SignalAges
  <2>. QED
    BY <1>3, <1>5, <2>1, <2>2
<1>. QED
  BY <1>2, <1>7 DEF Fresh, Age

(* What a day alone does to the queue: a commercial matter stays, once, is   *)
(* never less urgent and is not overtaken by a public signal; a signal never *)
(* becomes more urgent, is in a class that interrupts the seller only while  *)
(* it is current and was measured, and leaves only when its time is over.    *)
THEOREM DaysOnlyAge == TodaySpec => TimeOnlyAges
<1>1. TodayInv /\ [TodayNext]_todayVars => TodayInv'
  BY TodayStepKeeps
<1>2. CandidatesAre' /\ QueueIs'
  BY CandidatesRead, QueueReads, PTL
<1>3. ASSUME TodayInv, [TodayNext]_todayVars
      PROVE  [today' > today =>
               /\ \A x \in Queue : x.kind # "PUBLIC_SIGNAL" =>
                    \E y \in Queue' :
                       /\ SameMatter(x, y) /\ Triage(Candidate(y)') <= Triage(Candidate(x))
                       /\ \A z \in Queue' : z.kind # "PUBLIC_SIGNAL" /\ SameMatter(x, z) => z = y
                       /\ \A z \in Queue \cap Queue' : z.kind = "PUBLIC_SIGNAL" /\ IsBefore(x, z) => IsBefore(y, z)'
               /\ \A x \in Queue : x.kind = "PUBLIC_SIGNAL" =>
                    IF x \in Queue' THEN Triage(Candidate(x)') >= Triage(Candidate(x))
                    ELSE signal[x.subject].published + SavedDays < today'
               /\ \A x \in Queue' : x.kind = "PUBLIC_SIGNAL" /\ Triage(Candidate(x)') < 3 =>
                    Fresh(x.subject)' /\ signal'[x.subject].score >= 70]_todayVars
  <2>1. ASSUME TodayNext, today' > today
        PROVE  ADayOn /\ TodayInv'
    BY <1>1, <1>2, <1>3, <2>1, OneDayAtATime, CandidatesRead, QueueReads DEF ADayOn
  <2>. QED
    BY <1>3, <2>1, MattersStay, SignalsWane, InterruptsWhileCurrent
<1>. QED
  BY <1>1, <1>3, TodayBegins, PTL DEF TodaySpec, TimeOnlyAges
=============================================================================
