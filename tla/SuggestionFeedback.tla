-------------------------- MODULE SuggestionFeedback --------------------------
(***************************************************************************)
(* What one user has said of the suggested actions: an immutable chain of  *)
(* feedback for each suggestion, which hides it or shows it again.         *)
(*   SuggestionFeedbackRepository   persistence/work_feedback.py           *)
(*   dismiss_suggestion, record_suggestion_feedback, undo_feedback_receipt *)
(*                                  api/actions.py                         *)
(*                                                                         *)
(* append runs under an advisory lock of the user, but what it is given    *)
(* was read earlier: the feedback that the user looked at, the evidence    *)
(* that the user reviewed, and the evidence that the endpoint found.       *)
(* Requests of several tabs overlap, and a request may be repeated.        *)
(***************************************************************************)
EXTENDS Naturals, Sequences, FiniteSets

CONSTANTS
  Suggestions,
  Forms,           \* what a user fills in or presses, in any tab
  Keys,            \* idempotency keys; that of a dismissal is computed from what it follows
  Legacy,          \* suggestions the user dismissed before feedback had versions
  FeedbackLimit,   \* 1000 in the code
  MaxEvidence,     \* bound on how often the evidence of a suggestion changes
  MaxHour          \* bound on time

VARIABLES
  hour,
  evidence,        \* the revision of each suggestion
  said,            \* work_suggestion_feedback, the oldest row first
  form             \* what each form holds, and the evidence its endpoint found

feedbackVars == <<hour, evidence, said, form>>

Nothing == 0                    \* no row; otherwise a row is its place in said
NoRevision == MaxEvidence + 1   \* the undo of a receipt reviews no evidence
NoForm == [key |-> "none"]
Reasons == {"NOT_RELEVANT", "SNOOZE", "UNDO"}   \* the other two hide as NOT_RELEVANT does

RowsOf(s, n) == {i \in 1..n : said[i].suggestion = s}

\* _latest, among the first n rows
LatestOf(s, n) ==
  IF RowsOf(s, n) = {} THEN Nothing
  ELSE CHOOSE i \in RowsOf(s, n) : \A j \in RowsOf(s, n) : j <= i

Latest(s) == LatestOf(s, Len(said))

\* current: hidden, on the evidence that the user reviewed.
Hidden(s) ==
  /\ Latest(s) # Nothing
  /\ LET row == said[Latest(s)]
     IN  /\ row.reason = "NOT_RELEVANT" \/ (row.reason = "SNOOZE" /\ row.until > hour)
         /\ row.reviewed = evidence[s]

-----------------------------------------------------------------------------
Fill(f, content) ==
  /\ form[f] = NoForm
  /\ form' = [form EXCEPT ![f] = content]
  /\ UNCHANGED <<hour, evidence, said>>

\* The user looks at a suggestion and fills in a form.
Open(f, key, s, reason) ==
  Fill(f, [key |-> key, suggestion |-> s, reason |-> reason,
           until |-> IF reason = "SNOOZE" THEN hour + 1 ELSE 0,
           expected |-> Latest(s), reviewed |-> evidence[s], found |-> Nothing])

\* The user looks at the history: a receipt is undone whatever the evidence is.
OpenReceipt(f, key, i) ==
  Fill(f, [key |-> key, suggestion |-> said[i].suggestion, reason |-> "UNDO", until |-> 0,
           expected |-> i, reviewed |-> NoRevision, found |-> NoRevision])

\* The endpoint reads the evidence of the suggestion, before append takes its lock.
FindEvidence(f) ==
  /\ form[f] # NoForm
  /\ form[f].reviewed # NoRevision
  /\ form' = [form EXCEPT ![f].found = evidence[form[f].suggestion]]
  /\ UNCHANGED <<hour, evidence, said>>

Content(row) == <<row.suggestion, row.reason, row.until, row.expected, row.reviewed>>

\* The row of this request key, if there is one.
Replays(key) == {i \in DOMAIN said : said[i].key = key}

\* Mutant: the feedback that the user looked at is not compared.
AnyFeedback(request) == TRUE

FollowsLatest(request) == request.expected = Latest(request.suggestion)

HasRoom(request) == Len(said) < FeedbackLimit \/ request.reason = "UNDO"

\* What append accepts, after it has looked for a replay.
Accepts(request) ==
  /\ request.reviewed = request.found
  /\ request.reason = "SNOOZE" => hour < request.until
  /\ FollowsLatest(request)
  /\ request.reason = "UNDO" =>
       IF Latest(request.suggestion) = Nothing THEN request.suggestion \in Legacy
       ELSE said[Latest(request.suggestion)].reason # "UNDO"
  /\ HasRoom(request)

IsNew(request) == Replays(request.key) = {}

\* append.  A replay returns its row, and a conflict is an error: neither changes
\* anything, and the request may be repeated at any time.
AppendFeedback(f) ==
  /\ form[f] # NoForm
  /\ form[f].found # Nothing
  /\ IsNew(form[f])
  /\ Accepts(form[f])
  /\ said' = Append(said, form[f])
  /\ UNCHANGED <<hour, evidence, form>>

-----------------------------------------------------------------------------
\* The alert behind a suggestion changes, and may change back.
EvidenceChanges(s, revision) ==
  /\ revision # evidence[s]
  /\ evidence' = [evidence EXCEPT ![s] = revision]
  /\ UNCHANGED <<hour, said, form>>

HourPasses ==
  /\ hour < MaxHour
  /\ hour' = hour + 1
  /\ UNCHANGED <<evidence, said, form>>

FeedbackInit ==
  /\ hour = 0
  /\ evidence = [s \in Suggestions |-> 1]
  /\ said = <<>>
  /\ form = [f \in Forms |-> NoForm]

FeedbackNext ==
  \/ \E f \in Forms :
       \/ \E key \in Keys, s \in Suggestions, reason \in Reasons : Open(f, key, s, reason)
       \/ \E key \in Keys, i \in DOMAIN said : OpenReceipt(f, key, i)
       \/ FindEvidence(f)
       \/ AppendFeedback(f)
  \/ \E s \in Suggestions, revision \in 1..MaxEvidence : EvidenceChanges(s, revision)
  \/ HourPasses

FeedbackSpec == FeedbackInit /\ [][FeedbackNext]_feedbackVars

-----------------------------------------------------------------------------
\* However often requests are repeated and however late they arrive, each was
\* recorded once, and by a user who had seen all that was said of the suggestion.
SaidOnceInOrder ==
  \A i \in DOMAIN said :
    /\ said[i].expected = LatestOf(said[i].suggestion, i - 1)
    /\ \A j \in DOMAIN said : said[j].key = said[i].key => i = j
=============================================================================
