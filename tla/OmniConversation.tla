--------------------------- MODULE OmniConversation ---------------------------
(***************************************************************************)
(* A private saved conversation, its answer receipts and its feedback.     *)
(*   ConversationRepository   persistence/omni_conversations.py            *)
(*   OmniRunRepository        persistence/omni_runs.py                     *)
(*   stream_chat and the other endpoints   api/omni_chat.py                *)
(*                                                                         *)
(* Every endpoint reads the conversation in one transaction and changes it *)
(* in another; a chat reads it, answers for as long as the provider takes, *)
(* and reads it again before it appends.  The requests of one principal    *)
(* (several tabs, retries) overlap.                                        *)
(***************************************************************************)
EXTENDS Naturals, Sequences, SequencesExt

CONSTANTS
  Requests,     \* each is one call of one endpoint
  Absent,
  Retention,    \* how long a conversation is kept after it changes
  MaxConversationClock      \* bound on time

ASSUME RetentionAssumption == Retention \in Nat \ {0} /\ MaxConversationClock \in Nat

VARIABLES
  conversationClock,
  conversation, \* the row of omni_conversations, None once it is removed
  runs,         \* omni_runs: the receipt of the answer of a request
  feedback,     \* omni_chat_feedback: <<the request that rates, what it rates>>
  request       \* what each request has in memory

conversationVars == <<conversationClock, conversation, runs, feedback, request>>

\* A question with its answer.  seen is history: the turns its author was shown.
Turn == [run : Requests, seen : Nat]
Title == {"New conversation", "first question", "renamed"}
Conversation == [turns : Seq(Turn), title : Title, version : Nat, expires : Nat]

\* idle, and what a request does next:
Step == {"idle", "start", "finish", "read", "append", "rename", "delete", "rate",
         "prune", "done"}
Request == [next : Step, now : Nat,
            thread : Conversation \cup {Absent},   \* the row as it last read it
            version : Nat,                       \* of the row it answers to
            seen : Nat,
            rates : Requests \cup {Absent}]
Idle == [next |-> "idle", now |-> 0, thread |-> Absent, version |-> 0, seen |-> 0,
         rates |-> Absent]

ConversationTypeOK ==
  /\ conversationClock \in 0..MaxConversationClock
  /\ conversation \in Conversation \cup {Absent}
  /\ conversation # Absent => conversation.version = Len(conversation.turns) + 1
  /\ runs \in [Requests -> {"RUNNING", "ANSWER_RECORDED", Absent}]
  /\ feedback \subseteq Requests \X Requests
  /\ request \in [Requests -> Request]

-----------------------------------------------------------------------------
\* get: a conversation is there until it expires.
Readable(now) == conversation # Absent /\ conversation.expires > now

AnswersOf(thread) == {thread.turns[i].run : i \in DOMAIN thread.turns}

Becomes(r, fields) == request' = [request EXCEPT ![r] = fields]
GoOn(r, step) == [request[r] EXCEPT !.next = step]
Done(r) == Becomes(r, [Idle EXCEPT !.next = "done"])

\* Every endpoint begins with get; when it finds nothing it changes nothing.
Look(r, step) ==
  /\ request[r].next = "idle"
  /\ Readable(conversationClock)
  /\ Becomes(r, [Idle EXCEPT !.next = step, !.now = conversationClock, !.thread = conversation,
                             !.version = conversation.version,
                             !.seen = Len(conversation.turns)])
  /\ UNCHANGED <<conversationClock, conversation, runs, feedback>>

-----------------------------------------------------------------------------
\* stream_chat
AskQuestion(r) == Look(r, "start")

StartRun(r) ==
  /\ request[r].next = "start"
  /\ runs' = [runs EXCEPT ![r] = "RUNNING"]
  /\ Becomes(r, GoOn(r, "finish"))
  /\ UNCHANGED <<conversationClock, conversation, feedback>>

\* The provider has answered, and the receipt of the answer is saved.
FinishRun(r) ==
  /\ request[r].next = "finish"
  /\ runs[r] = "RUNNING"
  /\ runs' = [runs EXCEPT ![r] = "ANSWER_RECORDED"]
  /\ Becomes(r, GoOn(r, "read"))
  /\ UNCHANGED <<conversationClock, conversation, feedback>>

\* The version that append is given: that of the thread that was answered.
VersionOf(r) == request[r].version

\* append reads the conversation again.
ReadAgain(r) ==
  /\ request[r].next = "read"
  /\ IF Readable(conversationClock)
       THEN Becomes(r, [GoOn(r, "append") EXCEPT !.now = conversationClock, !.thread = conversation,
                                                  !.version = VersionOf(r)])
       ELSE Done(r)
  /\ UNCHANGED <<conversationClock, conversation, runs, feedback>>

\* Mutant: the update does not compare versions.
Exists(r) == Readable(request[r].now)

SameVersion(r) == Readable(request[r].now) /\ conversation.version = request[r].version

\* The turns and the title it read, and its own; or an error to the user.
AppendTurns(r) ==
  LET me == request[r]
      turn == [run |-> r, seen |-> me.seen]
  IN  /\ me.next = "append"
      /\ conversation' =
           IF SameVersion(r)
             THEN [turns |-> Append(me.thread.turns, turn),
                   title |-> IF me.thread.title = "New conversation"
                               THEN "first question" ELSE me.thread.title,
                   version |-> me.version + 1,
                   expires |-> me.now + Retention]
             ELSE conversation
      /\ Done(r)
      /\ UNCHANGED <<conversationClock, runs, feedback>>

-----------------------------------------------------------------------------
\* rename: neither the version nor the expiry is looked at, or changed.
Rename(r) ==
  /\ request[r].next = "rename"
  /\ conversation' = IF conversation = Absent THEN Absent
                     ELSE [conversation EXCEPT !.title = "renamed"]
  /\ Done(r)
  /\ UNCHANGED <<conversationClock, runs, feedback>>

\* _remove, of the row as it was read: the receipts of its answers, its
\* feedback and the row of that identifier.
RemoveThread(thread) ==
  /\ runs' = [q \in Requests |-> IF q \in AnswersOf(thread) THEN Absent ELSE runs[q]]
  /\ feedback' = {}
  /\ conversation' = Absent

\* delete locks the row and reads it again.
DeleteConversation(r) ==
  /\ request[r].next = "delete"
  /\ IF conversation = Absent THEN UNCHANGED <<conversation, runs, feedback>>
     ELSE RemoveThread(conversation)
  /\ Done(r)
  /\ UNCHANGED conversationClock

\* rate: an answer of this conversation
LookToRate(r, answer) ==
  /\ request[r].next = "idle"
  /\ Readable(conversationClock)
  /\ answer \in AnswersOf(conversation)
  /\ Becomes(r, [Idle EXCEPT !.next = "rate", !.rates = answer])
  /\ UNCHANGED <<conversationClock, conversation, runs, feedback>>

Rate(r) ==
  /\ request[r].next = "rate"
  /\ feedback' = feedback \cup {<<r, request[r].rates>>}
  /\ Done(r)
  /\ UNCHANGED <<conversationClock, conversation, runs>>

\* list removes the conversations that have expired, in one transaction that
\* reads and deletes without a lock between.
LookToPrune(r) ==
  /\ request[r].next = "idle"
  /\ conversation # Absent /\ conversation.expires <= conversationClock
  /\ Becomes(r, [Idle EXCEPT !.next = "prune", !.thread = conversation])
  /\ UNCHANGED <<conversationClock, conversation, runs, feedback>>

Prune(r) ==
  /\ request[r].next = "prune"
  /\ RemoveThread(request[r].thread)
  /\ Done(r)
  /\ UNCHANGED conversationClock

-----------------------------------------------------------------------------
\* A failed transaction, an error of the provider, a client that disconnects, or
\* the end of the process.
Fail(r) ==
  /\ request[r].next \notin {"idle", "done"}
  /\ Done(r)
  /\ UNCHANGED <<conversationClock, conversation, runs, feedback>>

ConversationTick ==
  /\ conversationClock < MaxConversationClock
  /\ conversationClock' = conversationClock + 1
  /\ UNCHANGED <<conversation, runs, feedback, request>>

\* create: a chat without a conversation begins one.
ConversationInit ==
  /\ conversationClock = 0
  /\ conversation = [turns |-> <<>>, title |-> "New conversation", version |-> 1,
                     expires |-> Retention]
  /\ runs = [r \in Requests |-> Absent]
  /\ feedback = {}
  /\ request = [r \in Requests |-> Idle]

ConversationNext ==
  \/ \E r \in Requests :
       \/ AskQuestion(r) \/ StartRun(r) \/ FinishRun(r) \/ ReadAgain(r) \/ AppendTurns(r)
       \/ Look(r, "rename") \/ Rename(r)
       \/ Look(r, "delete") \/ DeleteConversation(r)
       \/ \E answer \in Requests : LookToRate(r, answer)
       \/ Rate(r)
       \/ LookToPrune(r) \/ Prune(r)
       \/ Fail(r)
  \/ ConversationTick

ConversationSpec == ConversationInit /\ [][ConversationNext]_conversationVars

-----------------------------------------------------------------------------
\* No turn is lost: what an append writes extends what is there, although it is
\* the list that it read before.
TurnsStep ==
  conversation # Absent /\ conversation' # Absent
    => IsPrefix(conversation.turns, conversation'.turns)

TurnsAreKept == [][TurnsStep]_conversationVars

\* "Conversations support resume, rename and deletion" (README.md:77): only the
\* user changes a title that the user gave.
RenameIsKept ==
  [][conversation # Absent /\ conversation.title = "renamed" /\ conversation' # Absent
       => conversation'.title = "renamed"]_conversationVars
=============================================================================
