-------------------------- MODULE AssistantProofs ---------------------------
(***************************************************************************)
(* Theorems about the assistant's state: the budget of provider calls, the *)
(* conversations, the records of one user that several tabs change (the    *)
(* preferences Omni remembers and what was said of suggestions), the       *)
(* conversational agent and the turns that refer to earlier ones.  They    *)
(* hold for any calls, users, limits, requests, presses, forms, preferences,*)
(* suggestions, questions and models' answers, however long requests take  *)
(* between transactions.                                                   *)
(***************************************************************************)
EXTENDS AiBudget, OmniConversation, OmniMemory, SuggestionFeedback, ChatAgent, OmniRouting,
        FiniteSetTheorems, TLAPS

-----------------------------------------------------------------------------
(***************************************************************************)
(* The call budget.                                                        *)
(***************************************************************************)
Reserved == {c \in Calls : receipt[c] # NoCall}

\* DailyBudget at every time there is.
DayLimits ==
  \A t \in Nat :
    /\ Cardinality(Counted(t)) <= DailyCalls
    /\ \A a \in Actors : Cardinality(Of(a, Counted(t))) <= DailyActorCalls

\* The limits that reserve enforces, at the present.
LeaseLimits ==
  /\ Cardinality(Active(budgetClock)) <= Leases
  /\ \A a \in Actors : Cardinality(Of(a, Active(budgetClock))) <= ActorLeases

\* The receipt of a call in flight is active until the call must have ended: its
\* lease was drawn on a reading that was at most Skew old, and Skew < Margin.
LeasesOutliveCalls ==
  \A c \in InFlight :
    /\ receipt[c] # NoCall
    /\ receipt[c].status = "RESERVED"
    /\ calling[c] <= budgetClock
    /\ budgetClock <= calling[c] + Timeout
    /\ calling[c] + Timeout < receipt[c].lease

\* The inductive invariant.  InFlightBudget is not inductive: nothing in it says
\* that the calls in flight are among those that reserve counts.
BudgetInv ==
  /\ BudgetTypeOK
  /\ IsFiniteSet(Reserved)
  /\ DayLimits
  /\ LeaseLimits
  /\ LeasesOutliveCalls

-----------------------------------------------------------------------------
LEMMA LimitsAreNat ==
  /\ DailyCalls \in Nat /\ DailyActorCalls \in Nat
  /\ Leases \in Nat /\ ActorLeases \in Nat
BY BudgetAssumption

\* What counting needs: a set within its limit has subsets within it.
LEMMA Fewer ==
  ASSUME NEW S, NEW T, NEW n \in Nat, IsFiniteSet(S), Cardinality(S) <= n, T \subseteq S
  PROVE  Cardinality(T) <= n
<1>1. IsFiniteSet(T) /\ Cardinality(T) <= Cardinality(S)
  BY FS_Subset
<1>2. Cardinality(S) \in Nat /\ Cardinality(T) \in Nat
  BY <1>1, FS_CardinalityType
<1>. QED
  BY <1>1, <1>2

\* And one below its limit may get one more member.
LEMMA OneMore ==
  ASSUME NEW S, NEW T, NEW x, NEW n \in Nat,
         IsFiniteSet(S), Cardinality(S) < n, T \subseteq S \cup {x}
  PROVE  Cardinality(T) <= n
<1>1. Cardinality(S) \in Nat
  BY FS_CardinalityType
<1>2. /\ IsFiniteSet(S \cup {x})
      /\ Cardinality(S \cup {x}) = IF x \in S THEN Cardinality(S) ELSE Cardinality(S) + 1
  BY FS_AddElement
<1>3. Cardinality(S \cup {x}) <= n
  BY <1>1, <1>2
<1>. QED
  BY <1>2, <1>3, Fewer

\* Only calls that have a receipt are counted.
LEMMA CountedAreFinite ==
  ASSUME IsFiniteSet(Reserved)
  PROVE  /\ \A t : IsFiniteSet(Counted(t)) /\ IsFiniteSet(Active(t))
         /\ \A a, t : IsFiniteSet(Of(a, Counted(t))) /\ IsFiniteSet(Of(a, Active(t)))
<1>1. \A S \in SUBSET Reserved : IsFiniteSet(S)
  BY FS_Subset
<1>2. \A t : Counted(t) \subseteq Reserved /\ Active(t) \subseteq Reserved
  BY DEF Counted, Active, Reserved
<1>3. \A a, S : Of(a, S) \subseteq S
  BY DEF Of
<1>. QED
  BY <1>1, <1>2, <1>3

\* A call in flight is active.
LEMMA InFlightIsActive ==
  ASSUME BudgetTypeOK, LeasesOutliveCalls
  PROVE  InFlight \subseteq Active(budgetClock)
<1>. SUFFICES ASSUME NEW c \in InFlight PROVE c \in Active(budgetClock)
  OBVIOUS
<1>1. /\ receipt[c] \in Receipt
      /\ calling[c] \in Nat
      /\ budgetClock \in Nat
      /\ c \in Calls
  BY DEF BudgetTypeOK, InFlight, LeasesOutliveCalls
<1>2. budgetClock < receipt[c].lease
  BY <1>1, BudgetAssumption DEF LeasesOutliveCalls, Receipt
<1>. QED
  BY <1>1, <1>2 DEF Active, LeasesOutliveCalls

-----------------------------------------------------------------------------
LEMMA InitBudget == BudgetInit => BudgetInv
<1>. SUFFICES ASSUME BudgetInit PROVE BudgetInv
  OBVIOUS
<1>. USE BudgetAssumption, NoneAssumption DEF BudgetInit
<1>1. BudgetTypeOK
  BY DEF BudgetTypeOK
<1>2. Reserved = {} /\ \A t : Counted(t) = {} /\ Active(t) = {}
  BY DEF Reserved, Counted, Active
<1>3. \A a, t : Of(a, Counted(t)) = {} /\ Of(a, Active(t)) = {}
  BY <1>2 DEF Of
<1>4. IsFiniteSet({}) /\ Cardinality({}) = 0
  BY FS_EmptySet
<1>5. DayLimits /\ LeaseLimits
  BY <1>2, <1>3, <1>4, LimitsAreNat DEF DayLimits, LeaseLimits
<1>6. LeasesOutliveCalls
  BY DEF LeasesOutliveCalls, InFlight
<1>. QED
  BY <1>1, <1>2, <1>4, <1>5, <1>6 DEF BudgetInv

LEMMA ReserveKeepsBudget ==
  ASSUME BudgetInv, NEW c \in Calls, NEW a \in Actors, NEW t \in Readings, Reserve(c, a, t)
  PROVE  BudgetInv'
<1>. USE DEF BudgetInv
<1>1. /\ budgetClock \in Nat /\ budgetClock' = budgetClock
      /\ t \in Nat /\ t <= budgetClock /\ budgetClock <= t + Skew
      /\ LeaseSeconds \in Nat /\ t + LeaseSeconds \in Nat
  BY BudgetAssumption DEF BudgetTypeOK, Readings, Reserve, LeaseSeconds
<1>2. /\ receipt[c] = NoCall
      /\ receipt'[c] = [actor |-> a, started |-> t, lease |-> t + LeaseSeconds,
                        status |-> "RESERVED"]
      /\ receipt'[c] \in Receipt /\ receipt'[c] # NoCall
  BY <1>1, NoneAssumption DEF Reserve, Receipt, Status
<1>3. \A d \in Calls \ {c} :
        /\ receipt[d] = NoCall => receipt'[d] = NoCall
        /\ receipt[d] # NoCall =>
             /\ receipt'[d] \in Receipt /\ receipt'[d] # NoCall
             /\ receipt'[d].actor = receipt[d].actor
             /\ receipt'[d].started = receipt[d].started
             /\ receipt'[d].lease = receipt[d].lease
             /\ receipt'[d].status = "RESERVED" => receipt[d].status = "RESERVED"
             /\ ~Lapsed(d, t) => receipt'[d].status = receipt[d].status
  <2>. TAKE d \in Calls \ {c}
  <2>1. receipt'[d] = IF Lapsed(d, t)
                        THEN [receipt[d] EXCEPT !.status = "EXPIRED_OUTCOME_UNKNOWN"]
                        ELSE receipt[d]
    BY DEF Reserve
  <2>2. receipt[d] \in Receipt \cup {NoCall}
    BY DEF BudgetTypeOK
  <2>. QED
    BY <2>1, <2>2, NoneAssumption DEF Lapsed, Receipt, Status
<1>4. BudgetTypeOK'
  <2>1. receipt' \in [Calls -> Receipt \cup {NoCall}]
    BY <1>2, <1>3 DEF Reserve, BudgetTypeOK
  <2>2. calling' \in [Calls -> Nat \cup {NoCall}]
    BY <1>1 DEF Reserve, BudgetTypeOK
  <2>3. \A d \in Calls : calling'[d] # NoCall => receipt'[d] # NoCall
    BY <1>2, <1>3 DEF Reserve, BudgetTypeOK
  <2>. QED
    BY <1>1, <2>1, <2>2, <2>3 DEF BudgetTypeOK
<1>5. IsFiniteSet(Reserved')
  <2>1. Reserved' = Reserved \cup {c}
    BY <1>2, <1>3 DEF Reserved
  <2>. QED
    BY <2>1, FS_AddElement
<1>6. DayLimits'
  <2>. SUFFICES ASSUME NEW u \in Nat
                PROVE  /\ Cardinality(Counted(u)') <= DailyCalls
                       /\ \A b \in Actors : Cardinality(Of(b, Counted(u))') <= DailyActorCalls
    BY DEF DayLimits
  <2>1. CASE Day(u) = Day(t)
    <3>1. Counted(u)' = Counted(t) \cup {c}
      BY <2>1, <1>2, <1>3 DEF Counted, Day
    <3>2. Of(a, Counted(u))' = Of(a, Counted(t)) \cup {c}
      BY <3>1, <1>2, <1>3 DEF Of, Counted
    <3>3. \A b \in Actors \ {a} : Of(b, Counted(u))' = Of(b, Counted(t))
      BY <3>1, <1>2, <1>3 DEF Of, Counted
    <3>4. Cardinality(Counted(u)') <= DailyCalls
      BY <3>1, OneMore, CountedAreFinite, LimitsAreNat DEF Reserve, WithinDay
    <3>5. Cardinality(Of(a, Counted(u))') <= DailyActorCalls
      BY <3>2, OneMore, CountedAreFinite, LimitsAreNat DEF Reserve, WithinDay
    <3>. QED
      BY <3>3, <3>4, <3>5, <1>1 DEF DayLimits
  <2>2. CASE Day(u) # Day(t)
    <3>1. Counted(u)' = Counted(u)
      BY <2>2, <1>2, <1>3 DEF Counted, Day
    <3>2. \A b \in Actors : Of(b, Counted(u))' = Of(b, Counted(u))
      BY <3>1, <1>2, <1>3 DEF Of, Counted
    <3>. QED
      BY <3>1, <3>2 DEF DayLimits
  <2>. QED
    BY <2>1, <2>2
<1>7. LeaseLimits'
  <2>1. Active(budgetClock)' \subseteq Active(t) \cup {c}
    <3>. SUFFICES ASSUME NEW d \in Calls \ {c}, d \in Active(budgetClock)' PROVE d \in Active(t)
      BY DEF Active
    <3>1. /\ receipt[d] \in Receipt
          /\ receipt[d].status = "RESERVED"
          /\ receipt[d].lease > budgetClock
      BY <1>1, <1>3 DEF Active, BudgetTypeOK
    <3>2. receipt[d].lease > t
      BY <3>1, <1>1 DEF Receipt
    <3>. QED
      BY <3>1, <3>2, NoneAssumption DEF Active
  <2>2. Of(a, Active(budgetClock))' \subseteq Of(a, Active(t)) \cup {c}
    BY <2>1, <1>3 DEF Of, Active
  <2>3. \A b \in Actors \ {a} : Of(b, Active(budgetClock))' \subseteq Of(b, Active(budgetClock))
    BY <1>1, <1>2, <1>3 DEF Of, Active
  <2>4. Cardinality(Active(budgetClock)') <= Leases
    BY <2>1, OneMore, CountedAreFinite, LimitsAreNat DEF Reserve, WithinLeases
  <2>5. Cardinality(Of(a, Active(budgetClock))') <= ActorLeases
    BY <2>2, OneMore, CountedAreFinite, LimitsAreNat DEF Reserve, WithinLeases
  <2>6. \A b \in Actors \ {a} : Cardinality(Of(b, Active(budgetClock))') <= ActorLeases
    BY <2>3, Fewer, CountedAreFinite, LimitsAreNat DEF LeaseLimits
  <2>. QED
    BY <2>4, <2>5, <2>6 DEF LeaseLimits
<1>8. LeasesOutliveCalls'
  <2>. SUFFICES ASSUME NEW d \in InFlight'
                PROVE  /\ receipt'[d] # NoCall
                       /\ receipt'[d].status = "RESERVED"
                       /\ calling'[d] <= budgetClock'
                       /\ budgetClock' <= calling'[d] + Timeout
                       /\ calling'[d] + Timeout < receipt'[d].lease
    BY DEF LeasesOutliveCalls
  <2>1. CASE d = c
    <3>1. calling'[c] = budgetClock
      BY DEF Reserve, BudgetTypeOK
    <3>2. budgetClock + Timeout < t + LeaseSeconds
      BY <1>1, BudgetAssumption DEF LeaseSeconds
    <3>. QED
      BY <2>1, <3>1, <3>2, <1>1, <1>2, BudgetAssumption
  <2>2. CASE d # c
    <3>1. d \in Calls \ {c} /\ d \in InFlight /\ calling'[d] = calling[d]
      BY <2>2 DEF InFlight, Reserve, BudgetTypeOK
    <3>2. receipt[d] \in Receipt /\ receipt[d] # NoCall /\ calling[d] \in Nat
      BY <3>1 DEF BudgetTypeOK, InFlight, LeasesOutliveCalls
    <3>3. budgetClock < receipt[d].lease
      BY <3>1, InFlightIsActive DEF Active
    <3>4. ~Lapsed(d, t)
      BY <3>2, <3>3, <1>1 DEF Lapsed, Receipt
    <3>. QED
      BY <3>1, <3>2, <3>4, <1>1, <1>3 DEF LeasesOutliveCalls
  <2>. QED
    BY <2>1, <2>2
<1>. QED
  BY <1>4, <1>5, <1>6, <1>7, <1>8

LEMMA CompleteKeepsBudget ==
  ASSUME BudgetInv, NEW c \in Calls, NEW s \in {"RESPONSE_RECEIVED", "FAILED"}, Complete(c, s)
  PROVE  BudgetInv'
<1>. USE DEF BudgetInv
<1>1. receipt[c] \in Receipt /\ receipt[c] # NoCall
  BY NoneAssumption DEF BudgetTypeOK, Complete
<1>2. /\ receipt'[c] \in Receipt /\ receipt'[c] # NoCall
      /\ receipt'[c].actor = receipt[c].actor
      /\ receipt'[c].started = receipt[c].started
      /\ receipt'[c].status # "RESERVED"
  BY <1>1, NoneAssumption DEF Complete, BudgetTypeOK, Receipt, Status
<1>3. \A d \in Calls \ {c} : receipt'[d] = receipt[d] /\ calling'[d] = calling[d]
  BY DEF Complete, BudgetTypeOK
<1>4. BudgetTypeOK'
  BY <1>2, <1>3 DEF BudgetTypeOK, Complete
<1>5. Reserved' = Reserved
  BY <1>1, <1>2, <1>3 DEF Reserved
<1>6. /\ \A u \in Nat : Counted(u)' = Counted(u)
      /\ \A u \in Nat, a \in Actors : Of(a, Counted(u))' = Of(a, Counted(u))
  BY <1>1, <1>2, <1>3 DEF Counted, Of
<1>7. /\ Active(budgetClock)' \subseteq Active(budgetClock)
      /\ \A a \in Actors : Of(a, Active(budgetClock))' \subseteq Of(a, Active(budgetClock))
  BY <1>2, <1>3 DEF Active, Of, Complete
<1>8. LeaseLimits'
  BY <1>7, Fewer, CountedAreFinite, LimitsAreNat DEF LeaseLimits
<1>9. LeasesOutliveCalls'
  <2>. SUFFICES ASSUME NEW d \in InFlight' PROVE d \in Calls \ {c} /\ d \in InFlight
    BY <1>3 DEF LeasesOutliveCalls, Complete
  <2>. QED
    BY <1>3 DEF InFlight, Complete, BudgetTypeOK
<1>. QED
  BY <1>4, <1>5, <1>6, <1>8, <1>9 DEF DayLimits

LEMMA LoseKeepsBudget ==
  ASSUME BudgetInv, NEW c \in Calls, Lose(c)
  PROVE  BudgetInv'
<1>. USE DEF BudgetInv
<1>1. BudgetTypeOK'
  BY DEF BudgetTypeOK, Lose
<1>2. InFlight' \subseteq InFlight \ {c} /\ \A d \in InFlight' : calling'[d] = calling[d]
  BY DEF InFlight, Lose, BudgetTypeOK
<1>3. LeasesOutliveCalls'
  BY <1>2 DEF LeasesOutliveCalls, Lose
<1>4. UNCHANGED <<Reserved, budgetClock>>
  BY DEF Reserved, Lose
<1>5. DayLimits' /\ LeaseLimits'
  BY DEF DayLimits, LeaseLimits, Counted, Active, Of, Lose
<1>. QED
  BY <1>1, <1>3, <1>4, <1>5

LEMMA TickKeepsBudget ==
  ASSUME BudgetInv, BudgetTick
  PROVE  BudgetInv'
<1>. USE DEF BudgetInv
<1>1. BudgetTypeOK' /\ budgetClock \in Nat /\ budgetClock' = budgetClock + 1
  BY DEF BudgetTypeOK, BudgetTick
<1>2. Reserved' = Reserved
  BY DEF Reserved, BudgetTick
<1>3. DayLimits'
  BY DEF DayLimits, Counted, Of, BudgetTick
<1>4. /\ Active(budgetClock)' \subseteq Active(budgetClock)
      /\ \A a \in Actors : Of(a, Active(budgetClock))' \subseteq Of(a, Active(budgetClock))
  BY <1>1, NoneAssumption DEF Active, Of, BudgetTick, BudgetTypeOK, Receipt
<1>5. LeaseLimits'
  BY <1>4, Fewer, CountedAreFinite, LimitsAreNat DEF LeaseLimits
<1>6. LeasesOutliveCalls'
  <2>. SUFFICES ASSUME NEW c \in InFlight
                PROVE  calling[c] <= budgetClock + 1 /\ budgetClock + 1 <= calling[c] + Timeout
    BY <1>1 DEF LeasesOutliveCalls, InFlight, BudgetTick
  <2>1. c \in Calls /\ calling[c] \in Nat /\ calling[c] <= budgetClock
    BY DEF LeasesOutliveCalls, InFlight, BudgetTypeOK
  <2>2. budgetClock < calling[c] + Timeout
    BY <2>1 DEF BudgetTick, InFlight
  <2>. QED
    BY <1>1, <2>1, <2>2, BudgetAssumption
<1>. QED
  BY <1>1, <1>2, <1>3, <1>5, <1>6

LEMMA StutterKeepsBudget ==
  ASSUME BudgetInv, UNCHANGED budgetVars
  PROVE  BudgetInv'
BY DEF BudgetInv, budgetVars, BudgetTypeOK, Reserved, DayLimits, LeaseLimits, LeasesOutliveCalls,
       Counted, Active, Of, InFlight

\* BudgetInv holds in every state of every behaviour of the budget.
THEOREM BudgetInvariant == BudgetSpec => []BudgetInv
<1>1. BudgetInit => BudgetInv
  BY InitBudget
<1>2. BudgetInv /\ [BudgetNext]_budgetVars => BudgetInv'
  BY ReserveKeepsBudget, CompleteKeepsBudget, LoseKeepsBudget, TickKeepsBudget, StutterKeepsBudget
     DEF BudgetNext
<1>. QED
  BY <1>1, <1>2, PTL DEF BudgetSpec

\* Receipts keep their types, and no call is made without one.
THEOREM BudgetTypeCorrect == BudgetSpec => []BudgetTypeOK
<1>1. BudgetInv => BudgetTypeOK
  BY DEF BudgetInv
<1>. QED
  BY <1>1, BudgetInvariant, PTL

\* The limits of a day hold for the workspace and each user, without refunds.
THEOREM DailyLimitsHold == BudgetSpec => []DailyBudget
<1>1. BudgetInv => DailyBudget
  BY DEF BudgetInv, DayLimits, DailyBudget, BudgetTypeOK
<1>. QED
  BY <1>1, BudgetInvariant, PTL

\* The calls that wait for the provider stay within the limits of concurrent
\* calls, although nothing is locked while they wait.
THEOREM InFlightLimitsHold == BudgetSpec => []InFlightBudget
<1>1. BudgetInv => InFlightBudget
  <2>. SUFFICES ASSUME BudgetInv PROVE InFlightBudget
    OBVIOUS
  <2>1. InFlight \subseteq Active(budgetClock)
    BY InFlightIsActive DEF BudgetInv
  <2>2. \A a \in Actors : Of(a, InFlight) \subseteq Of(a, Active(budgetClock))
    BY <2>1 DEF Of
  <2>. QED
    BY <2>1, <2>2, Fewer, CountedAreFinite, LimitsAreNat DEF BudgetInv, LeaseLimits, InFlightBudget
<1>. QED
  BY <1>1, BudgetInvariant, PTL

\* A closed receipt is not changed again: only what is reserved lapses, and only
\* what is reserved or lapsed is completed.
THEOREM ClosedReceiptsStayClosed == BudgetSpec => ClosedReceiptsStay
<1>1. ASSUME BudgetInv, [BudgetNext]_budgetVars PROVE KeepsClosed
  <2>. SUFFICES ASSUME NEW c \in Calls, Closed(c) PROVE receipt'[c] = receipt[c]
    BY DEF KeepsClosed
  <2>1. ASSUME NEW d \in Calls, NEW a \in Actors, NEW t \in Readings, Reserve(d, a, t)
        PROVE  receipt'[c] = receipt[c]
    BY <2>1 DEF Reserve, Lapsed, Closed
  <2>2. ASSUME NEW d \in Calls, NEW s \in {"RESPONSE_RECEIVED", "FAILED"}, Complete(d, s)
        PROVE  receipt'[c] = receipt[c]
    BY <1>1, <2>2 DEF Complete, BudgetInv, BudgetTypeOK, Closed
  <2>. QED
    BY <1>1, <2>1, <2>2 DEF BudgetNext, Lose, BudgetTick, budgetVars
<1>. QED
  BY <1>1, BudgetInvariant, PTL DEF BudgetSpec, ClosedReceiptsStay

-----------------------------------------------------------------------------
(***************************************************************************)
(* Conversations.                                                          *)
(***************************************************************************)
\* A request that has a version to answer to.
Chatting(r) == request[r].next \in {"start", "finish", "read", "append"}

Extends(longer, shorter) ==
  /\ Len(shorter) <= Len(longer)
  /\ \A i \in 1..Len(shorter) : longer[i] = shorter[i]

\* A row of the conversation: its version counts its turns.
NumberedByTurns(thread) == thread \in Conversation /\ thread.version = Len(thread.turns) + 1

\* What a chat has read is older than what is there, and no other conversation.
ReadsAreOlder ==
  \A r \in Requests :
    /\ Chatting(r) /\ conversation # Absent => request[r].version <= conversation.version
    /\ request[r].next = "append" =>
         /\ NumberedByTurns(request[r].thread)
         /\ request[r].version <= request[r].thread.version
         /\ conversation # Absent => Extends(conversation.turns, request[r].thread.turns)

RatesAnAnswer == \A r \in Requests : request[r].next = "rate" => request[r].rates \in Requests

ConversationInv == ConversationTypeOK /\ ReadsAreOlder /\ RatesAnAnswer

-----------------------------------------------------------------------------
LEMMA ThreadTypes ==
  ASSUME NEW thread \in Conversation
  PROVE  /\ thread.turns \in Seq(Turn) /\ Len(thread.turns) \in Nat
         /\ thread.title \in Title /\ thread.version \in Nat /\ thread.expires \in Nat
BY DEF Conversation

LEMMA RequestTypes ==
  ASSUME ConversationTypeOK, NEW r \in Requests
  PROVE  /\ request[r].next \in Step /\ request[r].now \in Nat
         /\ request[r].thread \in Conversation \cup {Absent}
         /\ request[r].version \in Nat /\ request[r].seen \in Nat
         /\ request[r].rates \in Requests \cup {Absent}
BY DEF ConversationTypeOK, Request

LEMMA ConversationIsCounted ==
  ASSUME ConversationTypeOK, conversation # Absent PROVE NumberedByTurns(conversation)
BY DEF ConversationTypeOK, NumberedByTurns

LEMMA IdleType == Idle \in Request /\ [Idle EXCEPT !.next = "done"] \in Request
BY DEF Idle, Request, Step

\* A step of one request that leaves the conversation alone.
LEMMA RequestKeeps ==
  ASSUME ConversationInv, NEW r \in Requests, NEW new \in Request, Becomes(r, new),
         UNCHANGED <<conversationClock, conversation>>,
         runs' \in [Requests -> {"RUNNING", "ANSWER_RECORDED", Absent}],
         feedback' \subseteq Requests \X Requests,
         new.next = "rate" => new.rates \in Requests,
         new.next \in {"start", "finish", "read", "append"} /\ conversation # Absent
           => new.version <= conversation.version,
         new.next = "append" =>
           /\ NumberedByTurns(new.thread) /\ new.version <= new.thread.version
           /\ conversation # Absent => Extends(conversation.turns, new.thread.turns)
  PROVE  ConversationInv'
<1>1. /\ request' \in [Requests -> Request]
      /\ \A p \in Requests : request'[p] = IF p = r THEN new ELSE request[p]
  BY DEF Becomes, ConversationInv, ConversationTypeOK
<1>2. ConversationTypeOK'
  BY <1>1 DEF ConversationInv, ConversationTypeOK
<1>3. ReadsAreOlder'
  BY <1>1 DEF ConversationInv, ReadsAreOlder, Chatting
<1>4. RatesAnAnswer'
  BY <1>1 DEF ConversationInv, RatesAnAnswer
<1>. QED
  BY <1>2, <1>3, <1>4 DEF ConversationInv

\* A request that ends, whatever becomes of the conversation: it goes, or keeps or
\* extends its turns.
LEMMA EndKeepsConversation ==
  ASSUME ConversationInv, NEW r \in Requests, Done(r), UNCHANGED conversationClock,
         runs' \in [Requests -> {"RUNNING", "ANSWER_RECORDED", Absent}],
         feedback' \subseteq Requests \X Requests,
         conversation' = Absent \/
           /\ conversation # Absent
           /\ NumberedByTurns(conversation')
           /\ conversation.version <= conversation'.version
           /\ Extends(conversation'.turns, conversation.turns)
  PROVE  ConversationInv'
<1>. DEFINE end == [Idle EXCEPT !.next = "done"]
<1>1. end \in Request /\ end.next = "done"
  BY IdleType DEF Idle
<1>2. Becomes(r, end)
  BY DEF Done
<1>. HIDE DEF end
<1>3. /\ request' \in [Requests -> Request]
      /\ \A p \in Requests : request'[p] = IF p = r THEN end ELSE request[p]
  BY <1>1, <1>2 DEF Becomes, ConversationInv, ConversationTypeOK
<1>4. ConversationTypeOK'
  BY <1>3 DEF ConversationInv, ConversationTypeOK, NumberedByTurns
<1>5. RatesAnAnswer'
  BY <1>1, <1>3 DEF ConversationInv, RatesAnAnswer
<1>6. ReadsAreOlder'
  <2>. SUFFICES ASSUME NEW p \in Requests, p # r
                PROVE  /\ Chatting(p) /\ conversation' # Absent
                            => request[p].version <= conversation'.version
                       /\ request[p].next = "append" =>
                            /\ NumberedByTurns(request[p].thread)
                            /\ request[p].version <= request[p].thread.version
                            /\ conversation' # Absent =>
                                 Extends(conversation'.turns, request[p].thread.turns)
    BY <1>1, <1>3 DEF ReadsAreOlder, Chatting
  <2>1. CASE conversation' = Absent
    BY <2>1 DEF ConversationInv, ReadsAreOlder
  <2>2. CASE conversation' # Absent
    <3>1. /\ conversation # Absent /\ NumberedByTurns(conversation) /\ NumberedByTurns(conversation')
          /\ conversation.version <= conversation'.version
          /\ Extends(conversation'.turns, conversation.turns)
      BY <2>2, ConversationIsCounted DEF ConversationInv
    <3>2. /\ conversation.version \in Nat /\ conversation'.version \in Nat
          /\ Len(conversation.turns) \in Nat /\ Len(conversation'.turns) \in Nat
          /\ request[p].version \in Nat
      BY <3>1, ThreadTypes, RequestTypes DEF NumberedByTurns, ConversationInv
    <3>3. Chatting(p) => request[p].version <= conversation'.version
      BY <3>1, <3>2 DEF ConversationInv, ReadsAreOlder
    <3>4. ASSUME request[p].next = "append"
          PROVE  Extends(conversation'.turns, request[p].thread.turns)
      <4>1. NumberedByTurns(request[p].thread) /\ Extends(conversation.turns, request[p].thread.turns)
        BY <3>1, <3>4 DEF ConversationInv, ReadsAreOlder
      <4>2. Len(request[p].thread.turns) \in Nat
        BY <4>1, ThreadTypes DEF NumberedByTurns
      <4>. QED
        BY <3>1, <3>2, <4>1, <4>2 DEF Extends
    <3>. QED
      BY <3>3, <3>4 DEF ConversationInv, ReadsAreOlder
  <2>. QED
    BY <2>1, <2>2
<1>. QED
  BY <1>4, <1>5, <1>6 DEF ConversationInv

-----------------------------------------------------------------------------
\* What RequestKeeps asks of a step that changes neither receipts nor feedback.
LEMMA QuietTypes ==
  ASSUME ConversationInv, UNCHANGED <<runs, feedback>>
  PROVE  /\ runs' \in [Requests -> {"RUNNING", "ANSWER_RECORDED", Absent}]
         /\ feedback' \subseteq Requests \X Requests
BY DEF ConversationInv, ConversationTypeOK

LEMMA ExtendsItself ==
  ASSUME NEW thread \in Conversation PROVE Extends(thread.turns, thread.turns)
BY ThreadTypes DEF Extends

LEMMA LookKeepsConversation ==
  ASSUME ConversationInv, NEW r \in Requests, NEW step \in {"start", "rename", "delete"}, Look(r, step)
  PROVE  ConversationInv'
<1>. DEFINE new == [Idle EXCEPT !.next = step, !.now = conversationClock,
                                !.thread = conversation, !.version = conversation.version,
                                !.seen = Len(conversation.turns)]
<1>1. /\ conversation # Absent /\ Becomes(r, new)
      /\ UNCHANGED <<conversationClock, conversation, runs, feedback>>
  BY DEF Look, Readable
<1>2. /\ conversation \in Conversation /\ conversation.version \in Nat
      /\ Len(conversation.turns) \in Nat /\ conversationClock \in Nat
  BY <1>1, ConversationIsCounted, ThreadTypes, RetentionAssumption
     DEF ConversationInv, ConversationTypeOK, NumberedByTurns
<1>3. /\ new \in Request /\ new.next = step /\ new.version = conversation.version
  BY <1>2 DEF Idle, Request, Step
<1>. HIDE DEF new
<1>. QED
  BY <1>1, <1>2, <1>3, QuietTypes, RequestKeeps

LEMMA RunKeepsConversation ==
  ASSUME ConversationInv, NEW r \in Requests, StartRun(r) \/ FinishRun(r) PROVE ConversationInv'
<1>1. PICK step \in {"finish", "read"} :
        /\ Becomes(r, GoOn(r, step)) /\ Chatting(r)
        /\ runs' \in [Requests -> {"RUNNING", "ANSWER_RECORDED", Absent}]
        /\ UNCHANGED <<conversationClock, conversation, feedback>>
  BY DEF StartRun, FinishRun, Chatting, ConversationInv, ConversationTypeOK
<1>2. /\ GoOn(r, step) \in Request /\ GoOn(r, step).next = step
      /\ GoOn(r, step).version = request[r].version
  BY DEF GoOn, ConversationInv, ConversationTypeOK, Request, Step
<1>3. conversation # Absent => request[r].version <= conversation.version
  BY <1>1 DEF ConversationInv, ReadsAreOlder
<1>. QED
  BY <1>1, <1>2, <1>3, RequestKeeps DEF ConversationInv, ConversationTypeOK

\* append reads the turns anew, and keeps the version that the question was asked at.
LEMMA ReadAgainKeepsConversation == ASSUME ConversationInv, NEW r \in Requests, ReadAgain(r) PROVE ConversationInv'
<1>1. UNCHANGED <<conversationClock, conversation, runs, feedback>> /\ Chatting(r)
  BY DEF ReadAgain, Chatting
<1>2. CASE ~ Readable(conversationClock)
  <2>1. Becomes(r, [Idle EXCEPT !.next = "done"])
    BY <1>2 DEF ReadAgain, Done
  <2>2. [Idle EXCEPT !.next = "done"].next = "done"
    BY DEF Idle
  <2>. QED
    BY <1>1, <2>1, <2>2, IdleType, QuietTypes, RequestKeeps
<1>3. CASE Readable(conversationClock)
  <2>. DEFINE new == [GoOn(r, "append") EXCEPT !.now = conversationClock,
                                               !.thread = conversation,
                                               !.version = VersionOf(r)]
  <2>1. Becomes(r, new) /\ conversation # Absent
    BY <1>3 DEF ReadAgain, Readable
  <2>2. /\ NumberedByTurns(conversation) /\ conversation \in Conversation
        /\ conversationClock \in Nat
    BY <2>1, ConversationIsCounted, RetentionAssumption DEF ConversationInv, ConversationTypeOK, NumberedByTurns
  <2>3. /\ new \in Request /\ new.next = "append" /\ new.thread = conversation
        /\ new.version = request[r].version
    BY <2>2, RequestTypes
       DEF GoOn, VersionOf, ConversationInv, ConversationTypeOK, Request, Step
  <2>4. request[r].version <= conversation.version
    BY <1>1, <2>1 DEF ConversationInv, ReadsAreOlder
  <2>. HIDE DEF new
  <2>. QED
    BY <1>1, <2>1, <2>2, <2>3, <2>4, QuietTypes, ExtendsItself, RequestKeeps
<1>. QED
  BY <1>2, <1>3

\* The heart of it: at the version that was asked at, what append has read is all that
\* is there, since the version counts the turns.
LEMMA AppendExtends ==
  ASSUME ConversationInv, NEW r \in Requests, AppendTurns(r), SameVersion(r)
  PROVE  /\ conversation # Absent
         /\ NumberedByTurns(conversation')
         /\ conversation.version <= conversation'.version
         /\ Extends(conversation'.turns, conversation.turns)
<1>. DEFINE me == request[r]
            turn == [run |-> r, seen |-> me.seen]
            old == me.thread.turns
            all == Append(old, turn)
            title == IF me.thread.title = "New conversation"
                       THEN "first question" ELSE me.thread.title
<1>1. /\ conversation # Absent /\ me.next = "append"
      /\ conversation.version = me.version
      /\ conversation' = [turns |-> all, title |-> title, version |-> me.version + 1,
                          expires |-> me.now + Retention]
  BY DEF AppendTurns, SameVersion, Readable
<1>2. /\ NumberedByTurns(conversation) /\ NumberedByTurns(me.thread)
      /\ me.version <= me.thread.version
      /\ Extends(conversation.turns, old)
  BY <1>1, ConversationIsCounted DEF ConversationInv, ReadsAreOlder
<1>3. /\ old \in Seq(Turn) /\ Len(old) \in Nat /\ me.thread.title \in Title
      /\ conversation.turns \in Seq(Turn) /\ Len(conversation.turns) \in Nat
      /\ me.version \in Nat /\ me.now \in Nat /\ turn \in Turn
  BY <1>2, ThreadTypes, RequestTypes DEF NumberedByTurns, ConversationInv, Turn
<1>. HIDE DEF turn
<1>4. Len(old) = Len(conversation.turns) /\ Len(old) + 1 = me.version
  <2>1. /\ me.version = Len(conversation.turns) + 1
        /\ me.version <= Len(old) + 1
        /\ Len(old) <= Len(conversation.turns)
    BY <1>1, <1>2 DEF NumberedByTurns, Extends
  <2>. HIDE DEF old
  <2>. QED
    BY <1>3, <2>1
<1>5. /\ all \in Seq(Turn) /\ Len(all) = Len(old) + 1
      /\ \A i \in 1..Len(old) : all[i] = old[i]
  BY <1>3
<1>6. title \in Title /\ me.version + 1 \in Nat /\ me.now + Retention \in Nat
  <2>1. title \in Title
    <3>1. CASE me.thread.title = "New conversation"
      BY <3>1 DEF Title
    <3>2. CASE me.thread.title # "New conversation"
      BY <1>3, <3>2
    <3>. QED
      BY <3>1, <3>2
  <2>2. me.version + 1 \in Nat /\ me.now + Retention \in Nat
    BY <1>3, RetentionAssumption
  <2>. QED
    BY <2>1, <2>2
<1>. HIDE DEF old, all, title
<1>7. conversation' \in Conversation
  BY <1>1, <1>5, <1>6 DEF Conversation
<1>8. /\ conversation'.turns = all /\ conversation'.version = me.version + 1
  BY <1>1
<1>9. NumberedByTurns(conversation')
  BY <1>4, <1>5, <1>7, <1>8 DEF NumberedByTurns
<1>10. Extends(conversation'.turns, conversation.turns)
  BY <1>2, <1>3, <1>4, <1>5, <1>8 DEF Extends
<1>. QED
  BY <1>1, <1>3, <1>8, <1>9, <1>10

LEMMA RenameExtends ==
  ASSUME ConversationInv, NEW r \in Requests, Rename(r), conversation # Absent
  PROVE  /\ NumberedByTurns(conversation')
         /\ conversation.version = conversation'.version
         /\ conversation'.turns = conversation.turns
<1>1. NumberedByTurns(conversation) /\ conversation' = [conversation EXCEPT !.title = "renamed"]
  BY ConversationIsCounted DEF ConversationInv, Rename
<1>2. /\ conversation' \in Conversation
      /\ conversation'.turns = conversation.turns
      /\ conversation'.version = conversation.version
  BY <1>1 DEF NumberedByTurns, Conversation, Title
<1>. QED
  BY <1>1, <1>2 DEF NumberedByTurns

\* A removal: with it go the receipts of the answers that were read, and the feedback.
LEMMA RemovalTypes ==
  ASSUME ConversationInv, NEW thread, RemoveThread(thread)
  PROVE  /\ runs' \in [Requests -> {"RUNNING", "ANSWER_RECORDED", Absent}]
         /\ feedback' \subseteq Requests \X Requests
         /\ conversation' = Absent
BY DEF RemoveThread, ConversationInv, ConversationTypeOK

\* What a step of any kind does to the conversation.
KeepsThread ==
  conversation' = Absent \/
    /\ conversation # Absent
    /\ NumberedByTurns(conversation')
    /\ conversation.version <= conversation'.version
    /\ Extends(conversation'.turns, conversation.turns)

LEMMA SameKeepsThread == ASSUME ConversationInv, conversation' = conversation PROVE KeepsThread
<1>1. CASE conversation # Absent
  <2>1. NumberedByTurns(conversation) /\ conversation.version \in Nat /\ conversation \in Conversation
    BY <1>1, ConversationIsCounted, ThreadTypes DEF ConversationInv, NumberedByTurns
  <2>. QED
    BY <1>1, <2>1, ExtendsItself DEF KeepsThread
<1>. QED
  BY <1>1 DEF KeepsThread

LEMMA StepKeepsThread == ASSUME ConversationInv, ConversationNext PROVE KeepsThread
<1>1. CASE UNCHANGED conversation
  BY <1>1, SameKeepsThread
<1>2. ASSUME NEW r \in Requests, AppendTurns(r) PROVE KeepsThread
  <2>1. CASE SameVersion(r)
    BY <1>2, <2>1, AppendExtends DEF KeepsThread
  <2>2. CASE ~ SameVersion(r)
    BY <1>2, <2>2, SameKeepsThread DEF AppendTurns
  <2>. QED
    BY <2>1, <2>2
<1>3. ASSUME NEW r \in Requests, Rename(r) PROVE KeepsThread
  <2>1. CASE conversation = Absent
    BY <1>3, <2>1 DEF Rename, KeepsThread
  <2>2. CASE conversation # Absent
    <3>1. NumberedByTurns(conversation) /\ conversation.version \in Nat /\ conversation \in Conversation
      BY <2>2, ConversationIsCounted, ThreadTypes DEF ConversationInv, NumberedByTurns
    <3>. QED
      BY <1>3, <2>2, <3>1, RenameExtends, ExtendsItself DEF KeepsThread
  <2>. QED
    BY <2>1, <2>2
<1>4. ASSUME NEW r \in Requests, DeleteConversation(r) \/ Prune(r) PROVE KeepsThread
  BY <1>4, SameKeepsThread DEF DeleteConversation, Prune, RemoveThread, KeepsThread
<1>. QED
  BY <1>1, <1>2, <1>3, <1>4
     DEF ConversationNext, AskQuestion, Look, StartRun, FinishRun, ReadAgain, LookToRate,
         Rate, LookToPrune, Fail, ConversationTick

LEMMA InitConversation == ConversationInit => ConversationInv
<1>. SUFFICES ASSUME ConversationInit PROVE ConversationInv
  OBVIOUS
<1>1. /\ conversation \in Conversation /\ conversation.version = Len(conversation.turns) + 1
  <2>. DEFINE none == <<>>
  <2>1. none \in Seq(Turn) /\ Len(none) = 0
    OBVIOUS
  <2>2. conversation = [turns |-> none, title |-> "New conversation", version |-> 1,
                        expires |-> Retention]
    BY DEF ConversationInit
  <2>3. Retention \in Nat /\ "New conversation" \in Title
    BY RetentionAssumption DEF Title
  <2>. HIDE DEF none
  <2>4. conversation \in Conversation
    BY <2>1, <2>2, <2>3 DEF Conversation
  <2>5. conversation.turns = none /\ conversation.version = 1
    BY <2>2
  <2>. QED
    BY <2>1, <2>4, <2>5
<1>2. ConversationTypeOK
  <2>1. conversationClock \in 0..MaxConversationClock
    <3>1. MaxConversationClock \in Nat
      BY RetentionAssumption
    <3>2. conversationClock = 0
      BY DEF ConversationInit
    <3>. QED
      BY ONLY <3>1, <3>2
  <2>2. /\ runs \in [Requests -> {"RUNNING", "ANSWER_RECORDED", Absent}]
        /\ feedback \subseteq Requests \X Requests
    BY DEF ConversationInit
  <2>3. request \in [Requests -> Request]
    BY IdleType DEF ConversationInit
  <2>. QED
    BY <1>1, <2>1, <2>2, <2>3 DEF ConversationTypeOK
<1>3. \A r \in Requests : request[r].next = "idle"
  BY DEF ConversationInit, Idle
<1>. QED
  BY <1>2, <1>3 DEF ConversationInv, ReadsAreOlder, RatesAnAnswer, Chatting

LEMMA NextConversation == ConversationInv /\ [ConversationNext]_conversationVars => ConversationInv'
<1>. SUFFICES ASSUME ConversationInv, [ConversationNext]_conversationVars PROVE ConversationInv'
  OBVIOUS
<1>1. CASE UNCHANGED conversationVars
  BY <1>1 DEF conversationVars, ConversationInv, ConversationTypeOK, ReadsAreOlder, RatesAnAnswer, Chatting
<1>2. CASE ConversationTick
  <2>1. /\ conversationClock' \in 0..MaxConversationClock
        /\ UNCHANGED <<conversation, runs, feedback, request>>
    BY <1>2, RetentionAssumption DEF ConversationTick, ConversationInv, ConversationTypeOK
  <2>. QED
    BY <2>1 DEF ConversationInv, ConversationTypeOK, ReadsAreOlder, RatesAnAnswer, Chatting
<1>3. ASSUME NEW r \in Requests,
             AskQuestion(r) \/ Look(r, "rename") \/ Look(r, "delete")
      PROVE  ConversationInv'
  BY <1>3, LookKeepsConversation DEF AskQuestion
<1>4. ASSUME NEW r \in Requests, StartRun(r) \/ FinishRun(r) \/ ReadAgain(r) PROVE ConversationInv'
  BY <1>4, RunKeepsConversation, ReadAgainKeepsConversation
<1>5. ASSUME NEW r \in Requests, AppendTurns(r) \/ Rename(r), ConversationNext PROVE ConversationInv'
  <2>1. Done(r) /\ UNCHANGED <<conversationClock, runs, feedback>>
    BY <1>5 DEF AppendTurns, Rename
  <2>. QED
    BY <1>5, <2>1, StepKeepsThread, QuietTypes, EndKeepsConversation DEF KeepsThread
<1>6. ASSUME NEW r \in Requests, DeleteConversation(r) \/ Prune(r), ConversationNext PROVE ConversationInv'
  <2>1. Done(r) /\ UNCHANGED conversationClock
    BY <1>6 DEF DeleteConversation, Prune
  <2>2. /\ runs' \in [Requests -> {"RUNNING", "ANSWER_RECORDED", Absent}]
        /\ feedback' \subseteq Requests \X Requests
    BY <1>6, RemovalTypes, QuietTypes DEF DeleteConversation, Prune
  <2>. QED
    BY <1>6, <2>1, <2>2, StepKeepsThread, EndKeepsConversation DEF KeepsThread
<1>7. ASSUME NEW r \in Requests, NEW answer \in Requests, LookToRate(r, answer) PROVE ConversationInv'
  <2>. DEFINE new == [Idle EXCEPT !.next = "rate", !.rates = answer]
  <2>1. Becomes(r, new) /\ UNCHANGED <<conversationClock, conversation, runs, feedback>>
    BY <1>7 DEF LookToRate
  <2>2. new \in Request /\ new.next = "rate" /\ new.rates = answer
    BY DEF Idle, Request, Step
  <2>. HIDE DEF new
  <2>. QED
    BY <2>1, <2>2, QuietTypes, RequestKeeps
<1>8. ASSUME NEW r \in Requests, LookToPrune(r) PROVE ConversationInv'
  <2>. DEFINE new == [Idle EXCEPT !.next = "prune", !.thread = conversation]
  <2>1. Becomes(r, new) /\ UNCHANGED <<conversationClock, conversation, runs, feedback>>
    BY <1>8 DEF LookToPrune
  <2>2. new \in Request /\ new.next = "prune"
    BY DEF ConversationInv, ConversationTypeOK, Idle, Request, Step
  <2>. HIDE DEF new
  <2>. QED
    BY <2>1, <2>2, QuietTypes, RequestKeeps
<1>9. ASSUME NEW r \in Requests, Rate(r), ConversationNext PROVE ConversationInv'
  <2>1. /\ Done(r) /\ UNCHANGED <<conversationClock, conversation, runs>>
        /\ request[r].next = "rate" /\ feedback' = feedback \cup {<<r, request[r].rates>>}
    BY <1>9 DEF Rate
  <2>2. /\ feedback' \subseteq Requests \X Requests
        /\ runs' \in [Requests -> {"RUNNING", "ANSWER_RECORDED", Absent}]
    BY <2>1 DEF ConversationInv, ConversationTypeOK, RatesAnAnswer
  <2>. QED
    BY <1>9, <2>1, <2>2, StepKeepsThread, EndKeepsConversation DEF KeepsThread
<1>10. ASSUME NEW r \in Requests, Fail(r), ConversationNext PROVE ConversationInv'
  <2>1. Done(r) /\ UNCHANGED <<conversationClock, conversation, runs, feedback>>
    BY <1>10 DEF Fail
  <2>. QED
    BY <1>10, <2>1, StepKeepsThread, QuietTypes, EndKeepsConversation DEF KeepsThread
<1>. QED
  BY <1>1, <1>2, <1>3, <1>4, <1>5, <1>6, <1>7, <1>8, <1>9, <1>10 DEF ConversationNext

LEMMA ExtendsIsPrefix ==
  ASSUME NEW s \in Seq(Turn), NEW t \in Seq(Turn), Extends(t, s) PROVE IsPrefix(s, t)
BY DEF Extends, IsPrefix

LEMMA StepKeepsTurns ==
  ConversationInv /\ [ConversationNext]_conversationVars => [TurnsStep]_conversationVars
<1>. SUFFICES ASSUME ConversationInv, ConversationNext, conversation # Absent, conversation' # Absent
              PROVE  IsPrefix(conversation.turns, conversation'.turns)
  BY DEF TurnsStep
<1>1. /\ NumberedByTurns(conversation) /\ NumberedByTurns(conversation')
      /\ Extends(conversation'.turns, conversation.turns)
  BY StepKeepsThread, ConversationIsCounted DEF KeepsThread, ConversationInv
<1>2. conversation.turns \in Seq(Turn) /\ conversation'.turns \in Seq(Turn)
  BY <1>1, ThreadTypes DEF NumberedByTurns
<1>. QED
  BY <1>1, <1>2, ExtendsIsPrefix

-----------------------------------------------------------------------------
\* However long an answer takes, and whatever other answers, renames, deletions and
\* prunings end meanwhile, what append writes begins with the turns that are there.
THEOREM NoTurnIsLost == ConversationSpec => TurnsAreKept
<1>1. ConversationInit => ConversationInv
  BY InitConversation
<1>2. ConversationInv /\ [ConversationNext]_conversationVars => ConversationInv'
  BY NextConversation
<1>3. ConversationInv /\ [ConversationNext]_conversationVars => [TurnsStep]_conversationVars
  BY StepKeepsTurns
<1>. QED
  BY <1>1, <1>2, <1>3, PTL DEF ConversationSpec, TurnsAreKept

-----------------------------------------------------------------------------
(***************************************************************************)
(* Omni memory.                                                            *)
(***************************************************************************)
MemoryRequest ==
  {NoClick} \cup [does : {"create"}, key : CreateKeys, text : Texts]
            \cup [does : {"edit"}, id : Nat, version : Nat, text : Texts]
            \cup [does : {"delete"}, id : Nat, version : Nat]

MemoryTypeOK ==
  /\ born \in Seq(CreateKeys)
  /\ Kept \subseteq 1..Len(born)
  /\ \A m \in Kept : memory[m].version \in Nat
  /\ click \in [Clicks -> MemoryRequest]

\* What makes a replay known: every request that created has its receipt.
ReceiptsRemain == \A i \in DOMAIN born : ReceiptsFor(born[i]) # {}

MemoryInv == MemoryTypeOK /\ ReceiptsRemain /\ NothingIsResurrected

-----------------------------------------------------------------------------
\* Which fields a press sends.
LEMMA MemoryRequestTypes ==
  \A pressed \in MemoryRequest :
    /\ pressed.does = "create" => pressed.key \in CreateKeys /\ pressed.text \in Texts
    /\ pressed.does \in {"edit", "delete"} => pressed.id \in Nat /\ pressed.version \in Nat
BY DEF MemoryRequest, NoClick

LEMMA PressKeepsMemory ==
  ASSUME MemoryInv, NEW c \in Clicks, NEW pressed \in MemoryRequest, Press(c, pressed)
  PROVE  MemoryInv'
<1>1. /\ UNCHANGED <<born, memory, receipts>>
      /\ click' = [click EXCEPT ![c] = pressed]
  BY DEF Press
<1>2. click' \in [Clicks -> MemoryRequest]
  BY <1>1 DEF MemoryInv, MemoryTypeOK
<1>. QED
  BY <1>1, <1>2 DEF MemoryInv, MemoryTypeOK, ReceiptsRemain, ReceiptsFor, NothingIsResurrected, Kept

LEMMA CreateKeepsMemory == ASSUME MemoryInv, NEW c \in Clicks, Create(c) PROVE MemoryInv'
<1>. DEFINE key == click[c].key
            m == Len(born) + 1
<1>1. key \in CreateKeys /\ ReceiptsFor(key) = {}
  BY MemoryRequestTypes DEF MemoryInv, MemoryTypeOK, Create
<1>2. /\ born' = Append(born, key)
      /\ memory' = [k \in Kept \cup {m} |->
                      IF k = m THEN Remembered(click[c].text, 1) ELSE memory[k]]
      /\ receipts' = receipts \cup {[key |-> key, text |-> click[c].text, id |-> m]}
      /\ UNCHANGED click
  BY DEF Create
<1>. HIDE DEF key
<1>3. /\ born \in Seq(CreateKeys) /\ Len(born) \in Nat
      /\ DOMAIN born = 1..Len(born)
  BY DEF MemoryInv, MemoryTypeOK
<1>4. /\ born' \in Seq(CreateKeys) /\ Len(born') = m /\ DOMAIN born' = 1..m
      /\ \A i \in 1..Len(born) : born'[i] = born[i]
      /\ born'[m] = key
  BY <1>1, <1>2, <1>3
<1>5. MemoryTypeOK'
  <2>1. DOMAIN memory' = Kept \cup {m}
    BY <1>2
  <2>2. Kept' \subseteq 1..Len(born')
    BY <1>3, <1>4, <2>1 DEF MemoryInv, MemoryTypeOK, Kept
  <2>3. \A k \in Kept' : memory'[k].version \in Nat
    BY <1>2, <2>1 DEF MemoryInv, MemoryTypeOK, Remembered, Kept
  <2>. QED
    BY <1>2, <1>4, <2>2, <2>3 DEF MemoryInv, MemoryTypeOK
<1>6. ReceiptsRemain'
  <2>. SUFFICES ASSUME NEW i \in 1..m
                PROVE  \E row \in receipts' : row.key = born'[i]
    BY <1>4 DEF ReceiptsRemain, ReceiptsFor
  <2>1. CASE i = m
    <3>. DEFINE row == [key |-> key, text |-> click[c].text, id |-> m]
    <3>1. row \in receipts' /\ row.key = key
      BY <1>2
    <3>2. born'[i] = key
      BY <1>4, <2>1
    <3>. QED
      BY <3>1, <3>2
  <2>2. CASE i # m
    <3>1. i \in DOMAIN born
      BY <1>3, <2>2
    <3>. QED
      BY <1>2, <1>3, <1>4, <3>1 DEF MemoryInv, ReceiptsRemain, ReceiptsFor
  <2>. QED
    BY <2>1, <2>2
<1>7. \A i \in DOMAIN born : born[i] # key
  BY <1>1 DEF MemoryInv, ReceiptsRemain
<1>8. NothingIsResurrected'
  <2>. SUFFICES ASSUME NEW i \in 1..m, NEW j \in 1..m, born'[i] = born'[j]
                PROVE  i = j
    BY <1>4 DEF NothingIsResurrected
  <2>1. CASE i # m /\ j # m
    BY <1>3, <1>4, <2>1 DEF MemoryInv, NothingIsResurrected
  <2>2. CASE i = m \/ j = m
    BY <1>3, <1>4, <1>7, <2>2
  <2>. QED
    BY <2>1, <2>2
<1>. QED
  BY <1>5, <1>6, <1>8 DEF MemoryInv

LEMMA EditKeepsMemory == ASSUME MemoryInv, NEW c \in Clicks, Edit(c) PROVE MemoryInv'
<1>1. /\ UNCHANGED <<born, receipts, click>>
      /\ memory' = [memory EXCEPT ![click[c].id] =
                      Remembered(click[c].text, click[c].version + 1)]
      /\ click[c].version \in Nat
  BY MemoryRequestTypes DEF MemoryInv, MemoryTypeOK, Edit
<1>2. Kept' = Kept /\ \A m \in Kept : memory'[m].version \in Nat
  BY <1>1 DEF MemoryInv, MemoryTypeOK, Remembered, Kept
<1>3. MemoryTypeOK'
  BY <1>1, <1>2 DEF MemoryInv, MemoryTypeOK
<1>. QED
  BY <1>1, <1>3 DEF MemoryInv, ReceiptsRemain, ReceiptsFor, NothingIsResurrected

\* A deletion takes the preference and leaves the receipt.
LEMMA DeleteKeepsMemory == ASSUME MemoryInv, NEW c \in Clicks, Delete(c) PROVE MemoryInv'
<1>1. /\ UNCHANGED <<born, click>>
      /\ memory' = [m \in Kept \ {click[c].id} |-> memory[m]]
      /\ receipts' = receipts
  BY DEF Delete, ReceiptsAfterDelete
<1>2. Kept' \subseteq Kept /\ \A m \in Kept' : memory'[m] = memory[m]
  BY <1>1 DEF Kept
<1>3. MemoryTypeOK'
  BY <1>1, <1>2 DEF MemoryInv, MemoryTypeOK
<1>. QED
  BY <1>1, <1>3 DEF MemoryInv, ReceiptsRemain, ReceiptsFor, NothingIsResurrected

LEMMA InitMemory == MemoryInit => MemoryInv
<1>. SUFFICES ASSUME MemoryInit PROVE MemoryInv
  OBVIOUS
<1>1. born \in Seq(CreateKeys) /\ DOMAIN born = {} /\ Kept = {}
  BY DEF MemoryInit, Kept
<1>2. click \in [Clicks -> MemoryRequest]
  BY DEF MemoryInit, MemoryRequest
<1>. QED
  BY <1>1, <1>2 DEF MemoryInv, MemoryTypeOK, ReceiptsRemain, NothingIsResurrected

LEMMA NextMemory == MemoryInv /\ [MemoryNext]_memoryVars => MemoryInv'
<1>. SUFFICES ASSUME MemoryInv, [MemoryNext]_memoryVars PROVE MemoryInv'
  OBVIOUS
<1>1. CASE UNCHANGED <<born, memory, receipts, click>>
  BY <1>1 DEF MemoryInv, MemoryTypeOK, ReceiptsRemain, ReceiptsFor, NothingIsResurrected, Kept
<1>2. ASSUME NEW c \in Clicks, NEW key \in CreateKeys, NEW words \in Texts,
             PressCreate(c, key, words)
      PROVE  MemoryInv'
  <2>1. [does |-> "create", key |-> key, text |-> words] \in MemoryRequest
    BY DEF MemoryRequest
  <2>. QED
    BY <1>2, <2>1, PressKeepsMemory DEF PressCreate
<1>3. ASSUME NEW c \in Clicks, NEW m \in Kept, NEW words \in Texts, PressEdit(c, m, words)
      PROVE  MemoryInv'
  <2>1. m \in Nat /\ memory[m].version \in Nat
    BY DEF MemoryInv, MemoryTypeOK
  <2>2. [does |-> "edit", id |-> m, version |-> memory[m].version, text |-> words] \in MemoryRequest
    BY <2>1 DEF MemoryRequest
  <2>. QED
    BY <1>3, <2>2, PressKeepsMemory DEF PressEdit
<1>4. ASSUME NEW c \in Clicks, NEW m \in Kept, PressDelete(c, m) PROVE MemoryInv'
  <2>1. m \in Nat /\ memory[m].version \in Nat
    BY DEF MemoryInv, MemoryTypeOK
  <2>2. [does |-> "delete", id |-> m, version |-> memory[m].version] \in MemoryRequest
    BY <2>1 DEF MemoryRequest
  <2>. QED
    BY <1>4, <2>2, PressKeepsMemory DEF PressDelete
<1>5. ASSUME NEW c \in Clicks, Create(c) \/ Edit(c) \/ Delete(c) PROVE MemoryInv'
  BY <1>5, CreateKeepsMemory, EditKeepsMemory, DeleteKeepsMemory
<1>. QED
  BY <1>1, <1>2, <1>3, <1>4, <1>5 DEF MemoryNext, DayPasses, memoryVars

-----------------------------------------------------------------------------
\* A press of save that arrives again, however late and whatever was deleted since,
\* creates no second preference.
THEOREM CreatedAtMostOnce == MemorySpec => []NothingIsResurrected
<1>1. MemoryInit => MemoryInv
  BY InitMemory
<1>2. MemoryInv /\ [MemoryNext]_memoryVars => MemoryInv'
  BY NextMemory
<1>3. MemoryInv => NothingIsResurrected
  BY DEF MemoryInv
<1>. QED
  BY <1>1, <1>2, <1>3, PTL DEF MemorySpec

LEMMA StepIsAVersion == MemoryInv /\ [MemoryNext]_memoryVars => [VersionStep]_memoryVars
<1>. SUFFICES ASSUME MemoryInv, MemoryNext PROVE VersionStep
  OBVIOUS
<1>1. CASE UNCHANGED memory
  BY <1>1 DEF VersionStep
<1>2. ASSUME NEW c \in Clicks, Create(c) PROVE VersionStep
  <2>1. /\ Len(born) \in Nat /\ Kept \subseteq 1..Len(born)
        /\ memory' = [k \in Kept \cup {Len(born) + 1} |->
             IF k = Len(born) + 1 THEN Remembered(click[c].text, 1) ELSE memory[k]]
    BY <1>2 DEF MemoryInv, MemoryTypeOK, Create
  <2>2. \A m \in Kept : memory'[m] = memory[m]
    BY <2>1
  <2>. QED
    BY <2>2 DEF VersionStep
<1>3. ASSUME NEW c \in Clicks, Edit(c) PROVE VersionStep
  <2>. DEFINE id == click[c].id
  <2>1. /\ id \in Kept /\ memory[id].version = click[c].version
        /\ memory' = [memory EXCEPT ![id] =
                        Remembered(click[c].text, click[c].version + 1)]
    BY <1>3 DEF Edit, Inspected
  <2>. HIDE DEF id
  <2>2. memory'[id].version = memory[id].version + 1
    BY <2>1 DEF Remembered, Kept
  <2>3. \A m \in Kept : m # id => memory'[m] = memory[m]
    BY <2>1 DEF Kept
  <2>. QED
    BY <2>2, <2>3 DEF VersionStep
<1>4. ASSUME NEW c \in Clicks, Delete(c) PROVE VersionStep
  BY <1>4 DEF Delete, VersionStep
<1>. QED
  BY <1>1, <1>2, <1>3, <1>4
     DEF MemoryNext, PressCreate, PressEdit, PressDelete, Press, DayPasses

\* Of the presses made on one version of a preference, one at most changes it; a page
\* that shows an older version changes and renews nothing.
THEOREM ChangedAsInspected == MemorySpec => OnlyInspectedVersionsChange
<1>1. MemoryInit => MemoryInv
  BY InitMemory
<1>2. MemoryInv /\ [MemoryNext]_memoryVars => MemoryInv'
  BY NextMemory
<1>3. MemoryInv /\ [MemoryNext]_memoryVars => [VersionStep]_memoryVars
  BY StepIsAVersion
<1>. QED
  BY <1>1, <1>2, <1>3, PTL DEF MemorySpec, OnlyInspectedVersionsChange

-----------------------------------------------------------------------------
(***************************************************************************)
(* Suggestion feedback.                                                    *)
(***************************************************************************)

\* What a sequence holds, and that it is a sequence of just that.
Elements(s) == {s[i] : i \in DOMAIN s}
IsSequence(s) == s \in Seq(Elements(s))

\* A row is appended to the end of a sequence, and the rest stays.
LEMMA OneRowMore ==
  ASSUME NEW s, IsSequence(s), NEW row
  PROVE  /\ IsSequence(Append(s, row))
         /\ Len(s) \in Nat /\ DOMAIN s = 1..Len(s)
         /\ Len(Append(s, row)) = Len(s) + 1
         /\ DOMAIN Append(s, row) = 1..(Len(s) + 1)
         /\ \A i \in 1..Len(s) : Append(s, row)[i] = s[i]
         /\ Append(s, row)[Len(s) + 1] = row
<1>. DEFINE S == Elements(s) \cup {row}
            t == Append(s, row)
<1>1. Len(s) \in Nat /\ DOMAIN s = 1..Len(s) /\ s \in [1..Len(s) -> Elements(s)]
  BY DEF IsSequence
<1>2. s \in [1..Len(s) -> S]
  BY <1>1
<1>3. s \in Seq(S) /\ row \in S
  BY <1>1, <1>2
<1>. HIDE DEF S
<1>4. /\ t \in Seq(S) /\ Len(t) = Len(s) + 1
      /\ \A i \in 1..Len(s) : t[i] = s[i]
      /\ t[Len(s) + 1] = row
  BY <1>3
<1>5. DOMAIN t = 1..(Len(s) + 1)
  BY <1>4
<1>. HIDE DEF t
<1>6. t \in [1..Len(t) -> S]
  BY <1>4
<1>7. t \in [1..Len(t) -> Elements(t)]
  BY <1>4, <1>5, <1>6 DEF Elements
<1>8. IsSequence(t)
  BY <1>1, <1>4, <1>7 DEF IsSequence
<1>. QED
  BY <1>1, <1>4, <1>5, <1>8 DEF t

\* SaidOnceInOrder as a property of a chain of rows.
RowsIn(chain, s, n) == {i \in 1..n : chain[i].suggestion = s}

LatestIn(chain, s, n) ==
  IF RowsIn(chain, s, n) = {} THEN Nothing
  ELSE CHOOSE i \in RowsIn(chain, s, n) : \A j \in RowsIn(chain, s, n) : j <= i

EachFollowsTheLatest(chain) ==
  \A i \in DOMAIN chain : chain[i].expected = LatestIn(chain, chain[i].suggestion, i - 1)

EachKeyOnce(chain) ==
  \A i, j \in DOMAIN chain : chain[j].key = chain[i].key => i = j

FeedbackInv == IsSequence(said) /\ EachFollowsTheLatest(said) /\ EachKeyOnce(said)

LEMMA TheLatest == \A s, n : LatestOf(s, n) = LatestIn(said, s, n)
  BY DEF LatestOf, LatestIn, RowsOf, RowsIn

\* What was the latest among the first rows does not depend on the rows after them.
LEMMA ThePastIsFixed ==
  ASSUME NEW chain, NEW longer, NEW n, \A i \in 1..n : longer[i] = chain[i]
  PROVE  \A s : LatestIn(longer, s, n) = LatestIn(chain, s, n)
<1>. TAKE s
<1>1. RowsIn(longer, s, n) = RowsIn(chain, s, n)
  BY DEF RowsIn
<1>. QED
  BY <1>1 DEF LatestIn

LEMMA AppendKeepsFeedback ==
  ASSUME FeedbackInv, NEW f \in Forms, AppendFeedback(f)
  PROVE  FeedbackInv'
<1>. DEFINE row == form[f]
            n == Len(said)
<1>1. /\ said' = Append(said, row)
      /\ row.expected = LatestIn(said, row.suggestion, n)
      /\ \A i \in DOMAIN said : said[i].key # row.key
  BY TheLatest DEF AppendFeedback, Accepts, FollowsLatest, Latest, IsNew, Replays
<1>. HIDE DEF row
<1>2. /\ IsSequence(said') /\ n \in Nat /\ DOMAIN said = 1..n
      /\ DOMAIN said' = 1..(n + 1)
      /\ \A i \in 1..n : said'[i] = said[i]
      /\ said'[n + 1] = row
  BY <1>1, OneRowMore DEF FeedbackInv
<1>. HIDE DEF n
<1>3. ASSUME NEW i \in 1..(n + 1)
      PROVE  said'[i].expected = LatestIn(said', said'[i].suggestion, i - 1)
  <2>1. i - 1 \in 0..n /\ \A j \in 1..(i - 1) : said'[j] = said[j]
    BY <1>2
  <2>2. \A s : LatestIn(said', s, i - 1) = LatestIn(said, s, i - 1)
    BY <2>1, ThePastIsFixed
  <2>3. CASE i \in 1..n
    BY <1>2, <2>2, <2>3 DEF FeedbackInv, EachFollowsTheLatest
  <2>4. CASE i = n + 1
    <3>1. i - 1 = n /\ said'[i] = row
      BY <1>2, <2>4
    <3>. QED
      BY <1>1, <2>2, <3>1 DEF n
  <2>. QED
    BY <1>2, <2>3, <2>4
<1>4. EachFollowsTheLatest(said')
  BY <1>2, <1>3 DEF EachFollowsTheLatest
<1>5. EachKeyOnce(said')
  BY <1>1, <1>2 DEF FeedbackInv, EachKeyOnce
<1>. QED
  BY <1>2, <1>4, <1>5 DEF FeedbackInv

LEMMA NextFeedback == FeedbackInv /\ [FeedbackNext]_feedbackVars => FeedbackInv'
<1>. SUFFICES ASSUME FeedbackInv, [FeedbackNext]_feedbackVars PROVE FeedbackInv'
  OBVIOUS
<1>1. ASSUME UNCHANGED said PROVE FeedbackInv'
  BY <1>1 DEF FeedbackInv
<1>2. ASSUME NEW f \in Forms, AppendFeedback(f) PROVE FeedbackInv'
  BY <1>2, AppendKeepsFeedback
<1>3. UNCHANGED said \/ \E f \in Forms : AppendFeedback(f)
  BY DEF FeedbackNext, feedbackVars, Open, OpenReceipt, Fill, FindEvidence,
         EvidenceChanges, HourPasses
<1>. QED
  BY <1>1, <1>2, <1>3

\* However often a request is repeated and however late it arrives, it is recorded once,
\* and by a user who had seen all that was said of the suggestion until then.
THEOREM SaidOnce == FeedbackSpec => []SaidOnceInOrder
<1>1. FeedbackInit => FeedbackInv
  <2>1. ASSUME said = <<>> PROVE IsSequence(said) /\ DOMAIN said = {}
    <3>1. Elements(said) = {} /\ DOMAIN said = {}
      BY <2>1 DEF Elements
    <3>. QED
      BY <2>1, <3>1 DEF IsSequence
  <2>. QED
    BY <2>1 DEF FeedbackInit, FeedbackInv, EachFollowsTheLatest, EachKeyOnce
<1>2. FeedbackInv => SaidOnceInOrder
  BY TheLatest DEF FeedbackInv, EachFollowsTheLatest, EachKeyOnce, SaidOnceInOrder
<1>. QED
  BY <1>1, <1>2, NextFeedback, PTL DEF FeedbackSpec

-----------------------------------------------------------------------------
(***************************************************************************)
(* The conversational agent.                                               *)
(***************************************************************************)
Places == AgentSteps \cup AnswerKinds \cup {"escaped", "unsaved"}

LookupResults == {"ok", "unusable", "no match", "error"}

ChatTypes ==
  /\ at \in Places /\ purpose \in {"none", "name", "model", "fallback"}
  /\ turns \in 0..(Steps + 1) /\ modelCalls \in Nat /\ attempts \in Nat
  /\ steps \in Seq(LookupResults)

\* A lookup that no step of the audit tells of is the one in progress, or one whose
\* provider failed; and that one leads to the end or to the fallback.
LookupsAreAudited ==
  /\ at \in {"classify", "loop", "model", "correct"} => attempts = Len(steps)
  /\ at = "lookup" /\ purpose # "fallback" => attempts = Len(steps) + 1 /\ Len(steps) < Steps
  /\ at = "lookup" /\ purpose = "fallback" => attempts <= Len(steps) + 2 /\ Len(steps) < Steps
  /\ at = "fallback" => attempts <= Len(steps) + 1
  /\ at = "lookup" => purpose # "none"
  /\ Len(steps) <= Steps /\ attempts <= Steps + 1

\* Every turn has one model call, and the last one of them one more.
TurnsAreCounted ==
  /\ at \in {"classify", "loop", "model"} => modelCalls = turns
  /\ at = "lookup" /\ purpose # "fallback" => modelCalls = turns
  /\ modelCalls <= turns + 1

ChatInv == ChatTypes /\ LookupsAreAudited /\ TurnsAreCounted

LEMMA ChatStarts == ChatInit => ChatInv
BY StepsAreCounted
DEF ChatInit, ChatInv, ChatTypes, Places, AgentSteps, LookupsAreAudited, TurnsAreCounted

LEMMA RaisedAt ==
  ASSUME NEW for \in {"name", "model", "fallback"}, NEW error \in Errors
  PROVE  /\ Raised(for, error) \in {"escaped", "LIMIT_OR_UNAVAILABLE", "CANCELED", "USAGE_LIMIT", "fallback"}
         /\ for = "name" => Raised(for, error) = "escaped"
         /\ for = "fallback" => Raised(for, error) \in {"escaped", "LIMIT_OR_UNAVAILABLE"}
BY DEF Raised, Errors

LEMMA ReadKeepsChat ==
  ASSUME ChatInv, NEW for \in {"name", "model", "fallback"}, BeginRead(for),
         \/ at = "classify" /\ for = "name"
         \/ at = "model" /\ for = "model"
         \/ at = "fallback" /\ for = "fallback"
  PROVE  ChatInv'
<1>1. /\ purpose' = for
      /\ UNCHANGED <<turns, modelCalls, steps>>
  BY DEF BeginRead
<1>7. Len(steps) \in Nat
  BY DEF ChatInv, ChatTypes
<1>2. CASE ~stopped /\ WithinLimits
  <2>1. at' = "lookup" /\ attempts' = attempts + 1 /\ Len(steps) < Steps
    BY <1>2 DEF BeginRead, Go, WithinLimits
  <2>. QED
    BY <1>1, <2>1, StepsAreCounted
    DEF ChatInv, ChatTypes, Places, AgentSteps, LookupsAreAudited, TurnsAreCounted
<1>3. CASE ~(~stopped /\ WithinLimits)
  <2>1. \E error \in Errors : at' = Raised(for, error) /\ attempts' = attempts
    BY <1>3 DEF BeginRead, Go, Errors
  <2>2. /\ at' \in {"escaped", "LIMIT_OR_UNAVAILABLE", "CANCELED", "USAGE_LIMIT", "fallback"}
        /\ for = "fallback" => at' # "fallback" /\ attempts' = attempts
        /\ attempts' = attempts
    BY <2>1, RaisedAt
  <2>. QED
    BY <1>1, <2>2, StepsAreCounted
    DEF ChatInv, ChatTypes, Places, AgentSteps, AnswerKinds, LookupsAreAudited, TurnsAreCounted
<1>. QED
  BY <1>2, <1>3

\* A lookup is under way for what it is for.
LEMMA LookupIsUnderWay ==
  ASSUME ChatInv, at = "lookup"
  PROVE  /\ purpose \in {"name", "model", "fallback"}
         /\ Len(steps) < Steps /\ Len(steps) \in Nat
         /\ purpose # "fallback" => attempts = Len(steps) + 1 /\ modelCalls = turns
         /\ purpose = "fallback" => attempts <= Len(steps) + 2
<1>1. Len(steps) \in Nat
  BY DEF ChatInv, ChatTypes
<1>. QED
  BY <1>1 DEF ChatInv, ChatTypes, LookupsAreAudited, TurnsAreCounted

\* The tool has answered: the audit has one step more.
LEMMA AnswerKeepsChat ==
  ASSUME ChatInv, NEW status \in LookupResults, LookupAnswers(status)
  PROVE  ChatInv'
<1>1. /\ at = "lookup" /\ UNCHANGED <<purpose, turns, modelCalls, attempts>>
      /\ steps' = Append(steps, status)
  BY DEF LookupAnswers
<1>2. /\ steps' \in Seq(LookupResults) /\ Len(steps') = Len(steps) + 1
  BY <1>1 DEF ChatInv, ChatTypes
<1>3. /\ at' \in {"NOT_FOUND", "loop", "fallback", "escaped", "DEGRADED", "LIMIT_OR_UNAVAILABLE"}
      /\ purpose = "fallback" => at' \notin {"loop", "fallback"}
  BY DEF LookupAnswers, Go
<1>. QED
  BY <1>1, <1>2, <1>3, LookupIsUnderWay, StepsAreCounted
  DEF ChatInv, ChatTypes, Places, AgentSteps, AnswerKinds, LookupsAreAudited, TurnsAreCounted

\* It has failed: so it has, unless it was the provider of the tool that failed.
LEMMA FailureKeepsChat ==
  ASSUME ChatInv, NEW error \in Errors, LookupFails(error)
  PROVE  ChatInv'
<1>1. /\ at = "lookup" /\ UNCHANGED <<purpose, turns, modelCalls, attempts>>
      /\ at' = Raised(purpose, error)
      /\ error \notin Caught => purpose = "model" /\ steps' = steps
      /\ error \in Caught => steps' = Append(steps, "error")
  BY DEF LookupFails, Go
<1>2. /\ steps' \in Seq(LookupResults)
      /\ Len(steps') = Len(steps) \/ Len(steps') = Len(steps) + 1
      /\ purpose = "fallback" => Len(steps') = Len(steps) + 1
  <2>1. "error" \in LookupResults
    BY DEF LookupResults
  <2>2. steps \in Seq(LookupResults)
    BY DEF ChatInv, ChatTypes
  <2>. QED
    BY <1>1, <2>1, <2>2
<1>3. /\ at' \in {"escaped", "LIMIT_OR_UNAVAILABLE", "CANCELED", "USAGE_LIMIT", "fallback"}
      /\ purpose = "fallback" => at' # "fallback"
  BY <1>1, LookupIsUnderWay, RaisedAt
<1>. QED
  BY <1>1, <1>2, <1>3, LookupIsUnderWay, StepsAreCounted
  DEF ChatInv, ChatTypes, Places, AgentSteps, AnswerKinds, LookupsAreAudited, TurnsAreCounted

\* A model call fails, a text is written or corrected, or the agent ends.
LEMMA ModelKeepsChat ==
  ASSUME ChatInv,
         \/ LoopEnds \/ AskModel \/ GeneralQuestion \/ Record
         \/ \E error \in Errors : ModelFails(error)
         \/ \E passes \in BOOLEAN : ModelWrites(passes) \/ ModelCorrects(passes)
  PROVE  ChatInv'
<1>1. UNCHANGED <<purpose, attempts, steps>> /\ Len(steps) \in Nat
  BY DEF LoopEnds, AskModel, GeneralQuestion, Record, ModelFails, ModelWrites, ModelCorrects,
         ChatInv, ChatTypes
<1>2. CASE AskModel
  <2>1. /\ at = "loop" /\ at' = "model" /\ turns <= Steps
        /\ turns' = turns + 1 /\ modelCalls' = modelCalls + 1
    BY <1>2 DEF AskModel, Go
  <2>. QED
    BY <1>1, <2>1, StepsAreCounted
    DEF ChatInv, ChatTypes, Places, AgentSteps, LookupsAreAudited, TurnsAreCounted
<1>3. ASSUME NEW passes \in BOOLEAN, ModelWrites(passes)
      PROVE  ChatInv'
  <2>1. /\ at = "model" /\ turns' = turns
        /\ \/ at' = "ANSWERED" /\ modelCalls' = modelCalls
           \/ at' = "correct" /\ modelCalls' = modelCalls + 1
    BY <1>3 DEF ModelWrites, Go
  <2>. QED
    BY <1>1, <2>1, StepsAreCounted
    DEF ChatInv, ChatTypes, Places, AgentSteps, AnswerKinds, LookupsAreAudited, TurnsAreCounted
<1>4. CASE \/ LoopEnds \/ GeneralQuestion
           \/ \E error \in Errors : ModelFails(error)
           \/ \E passes \in BOOLEAN : ModelCorrects(passes)
  <2>1. /\ UNCHANGED <<turns, modelCalls>> /\ at \in {"loop", "model", "correct"}
        /\ at' \in AnswerKinds \cup {"fallback", "escaped"}
    BY <1>4, RaisedAt
    DEF LoopEnds, GeneralQuestion, ModelFails, ModelCorrects, CheckedAgain, Go, AnswerKinds
  <2>. QED
    BY <1>1, <2>1, StepsAreCounted
    DEF ChatInv, ChatTypes, Places, AgentSteps, AnswerKinds, LookupsAreAudited, TurnsAreCounted
<1>5. CASE Record
  <2>1. /\ UNCHANGED <<turns, modelCalls>> /\ at \in AnswerKinds
        /\ at' = "unsaved" \/ at' = at
    BY <1>5 DEF Record
  <2>. QED
    BY <1>1, <2>1
    DEF ChatInv, ChatTypes, Places, AgentSteps, AnswerKinds, LookupsAreAudited, TurnsAreCounted
<1>. QED
  BY <1>2, <1>3, <1>4, <1>5

LEMMA ChatSteps == ChatInv /\ [ChatNext]_chatVars => ChatInv'
<1>. SUFFICES ASSUME ChatInv, [ChatNext]_chatVars PROVE ChatInv'
  OBVIOUS
<1>1. CASE Classify
  <2>1. CASE BeginRead("name")
    BY <1>1, <2>1, ReadKeepsChat DEF Classify
  <2>2. CASE ~BeginRead("name")
    <3>1. /\ at = "classify" /\ at' \in {"REFUSED", "loop", "fallback"}
          /\ UNCHANGED <<purpose, turns, modelCalls, attempts, steps>>
      BY <1>1, <2>2 DEF Classify, Go
    <3>. QED
      BY <3>1, StepsAreCounted
      DEF ChatInv, ChatTypes, Places, AgentSteps, AnswerKinds, LookupsAreAudited, TurnsAreCounted
  <2>. QED
    BY <2>1, <2>2
<1>2. CASE FallBack
  <2>1. CASE BeginRead("fallback")
    BY <1>2, <2>1, ReadKeepsChat DEF FallBack
  <2>2. CASE ~BeginRead("fallback")
    <3>1. /\ at = "fallback" /\ at' = "DEGRADED"
          /\ UNCHANGED <<purpose, turns, modelCalls, attempts, steps>>
      BY <1>2, <2>2 DEF FallBack, Go
    <3>. QED
      BY <3>1 DEF ChatInv, ChatTypes, Places, AgentSteps, AnswerKinds, LookupsAreAudited, TurnsAreCounted
  <2>. QED
    BY <2>1, <2>2
<1>3. CASE ModelAsksForLookup
  BY <1>3, ReadKeepsChat DEF ModelAsksForLookup
<1>4. CASE Stop \/ TimePasses \/ UNCHANGED chatVars
  <2>1. UNCHANGED <<at, purpose, turns, modelCalls, attempts, steps>>
    BY <1>4 DEF Stop, TimePasses, chatVars
  <2>. QED
    BY <2>1 DEF ChatInv, ChatTypes, LookupsAreAudited, TurnsAreCounted
<1>5. ASSUME NEW status \in {"ok", "unusable", "no match"}, LookupAnswers(status)
      PROVE  ChatInv'
  BY <1>5, AnswerKeepsChat DEF LookupResults
<1>. QED
  BY <1>1, <1>2, <1>3, <1>4, <1>5, FailureKeepsChat, ModelKeepsChat DEF ChatNext

\* Whatever fails, is refused or comes late, a question costs at most the lookups of its
\* limit and one of the fallback, and two model calls more than that limit.
THEOREM CostsAreBounded == ChatSpec => []CostIsBounded
<1>1. ChatInv => CostIsBounded
  BY StepsAreCounted DEF ChatInv, ChatTypes, LookupsAreAudited, TurnsAreCounted, CostIsBounded
<1>. QED
  BY <1>1, ChatStarts, ChatSteps, PTL DEF ChatSpec

-----------------------------------------------------------------------------
(***************************************************************************)
(* Turns that refer to earlier ones.                                       *)
(***************************************************************************)
EventRecord == {NoRecord} \cup (0..MaxAssessment)

\* An answer that told an assessment told it of the event, and compared nothing.
ToldOfTheEvent(used) ==
  used.assessment # NoAssessment =>
    used.event = TRUE /\ used.related = NoOne /\ used.assessment \in Assessments

\* So what it left to be referred to is the event, and no pair of accounts.
ReferentIsWhole ==
  referent.assessment # NoAssessment =>
    referent.event = TRUE /\ referent.comparison = <<>> /\ referent.assessment \in Assessments

RoutingInv == briefed \in [Accounts -> EventRecord] /\ ReferentIsWhole

-----------------------------------------------------------------------------
LEMMA TellsNoAssessment ==
  /\ Nowhere.assessment = NoAssessment /\ Refuse.used.assessment = NoAssessment
  /\ \A x : AccountAnswer(x).used.assessment = NoAssessment
  /\ \A pair : PairAnswer(pair).used.assessment = NoAssessment
  /\ \A matters : FacilityAnswer(matters).used.assessment = NoAssessment
  /\ ActionAnswer.used.assessment = NoAssessment
BY DEF Nowhere, Refuse, Say, AccountAnswer, PairAnswer, FacilityAnswer, ActionAnswer

LEMMA OthersTellNoAssessment ==
  ASSUME NEW q, NEW c
  PROVE  /\ CompareAnswer(q).used.assessment = NoAssessment
         /\ CrossAnswer.used.assessment = NoAssessment
         /\ RelationAnswer(q, c).used.assessment = NoAssessment
         /\ ScreenAnswer(c).used.assessment = NoAssessment
         /\ InterpretedAnswer(q, c).used.assessment = NoAssessment
         /\ BriefingAnswer(q, c).used.assessment = NoAssessment
<1>1. CompareAnswer(q).used.assessment = NoAssessment /\ CrossAnswer.used.assessment = NoAssessment
  BY TellsNoAssessment DEF CompareAnswer, CrossAnswer
<1>2. RelationAnswer(q, c).used.assessment = NoAssessment
  <2>1. \A x : Say(x, Nowhere).used.assessment = NoAssessment
    BY DEF Say, Nowhere
  <2>2. \A x, y, z : Say(x, [Nowhere EXCEPT !.account = y, !.related = z]).used.assessment = NoAssessment
    BY DEF Say, Nowhere
  <2>3. \/ RelationAnswer(q, c) = Refuse
        \/ RelationAnswer(q, c) = Say(RelationEnds(q, c)[1], Nowhere)
        \/ RelationAnswer(q, c) =
             Say(RelationEnds(q, c)[1], [Nowhere EXCEPT !.account = RelationEnds(q, c)[1],
                                                        !.related = RelationEnds(q, c)[2]])
    BY Zenon DEF RelationAnswer
  <2>4. CASE RelationAnswer(q, c) = Refuse
    BY <2>4, TellsNoAssessment
  <2>5. CASE RelationAnswer(q, c) = Say(RelationEnds(q, c)[1], Nowhere)
    BY <2>1, <2>5
  <2>6. Say(RelationEnds(q, c)[1], [Nowhere EXCEPT !.account = RelationEnds(q, c)[1],
            !.related = RelationEnds(q, c)[2]]).used.assessment = NoAssessment
    BY DEF Say, Nowhere
  <2>. QED
    BY <2>3, <2>4, <2>5, <2>6
<1>3. ScreenAnswer(c).used.assessment = NoAssessment
  <2>1. /\ EventScreen.used.assessment = NoAssessment
        /\ ActionScreen.used.assessment = NoAssessment
        /\ AccountScreen(c.account).used.assessment = NoAssessment
    BY DEF EventScreen, ActionScreen, AccountScreen, Say, Nowhere
  <2>. QED
    BY <2>1, TellsNoAssessment DEF ScreenAnswer
<1>4. InterpretedAnswer(q, c).used.assessment = NoAssessment
  BY <1>3, TellsNoAssessment DEF InterpretedAnswer
<1>5. BriefingAnswer(q, c).used.assessment = NoAssessment
  BY TellsNoAssessment DEF BriefingAnswer
<1>. QED
  BY <1>1, <1>2, <1>3, <1>4, <1>5

\* The only answer that tells an assessment tells the current one of its account.
LEMMA EventAnswerIsTold ==
  ASSUME RoutingInv, NEW c
  PROVE  ToldOfTheEvent(EventAnswer(c).used)
<1>1. CASE Candidates = {}
  <2>1. EventAnswer(c).used.assessment = NoAssessment
    BY <1>1 DEF EventAnswer, OfEvent, Nowhere, Say
  <2>. QED
    BY <2>1 DEF ToldOfTheEvent
<1>2. CASE Candidates # {}
  <2>. DEFINE x == EventChoice(c)
  <2>1. x \in Candidates
    BY <1>2 DEF EventChoice, FirstOf
  <2>. HIDE DEF x
  <2>2. CASE briefed[x] = 0
    <3>1. EventAnswer(c).used.assessment = NoAssessment
      BY <1>2, <2>2 DEF EventAnswer, SourceAnswer, OfEvent, Nowhere, Say, x
    <3>. QED
      BY <3>1 DEF ToldOfTheEvent
  <2>3. CASE briefed[x] # 0
    <3>1. EventAnswer(c) = BriefedAnswer(x, c)
      BY <1>2, <2>3 DEF EventAnswer, x
    <3>2. <<x, briefed[x]>> \in Assessments
      <4>1. x \in Accounts /\ briefed[x] # NoRecord /\ briefed[x] \in EventRecord
        BY <2>1 DEF Candidates, RoutingInv
      <4>2. briefed[x] \in 1..MaxAssessment
        BY <2>3, <4>1, RoutingAssumption DEF EventRecord
      <4>. QED
        BY <4>1, <4>2 DEF Assessments
    <3>3. \/ BriefedAnswer(x, c).used.assessment = NoAssessment
          \/ /\ BriefedAnswer(x, c).used.assessment = <<x, briefed[x]>>
             /\ BriefedAnswer(x, c).used.event = TRUE
             /\ BriefedAnswer(x, c).used.related = NoOne
      BY DEF BriefedAnswer, OfEvent, Nowhere, Say
    <3>. QED
      BY <3>1, <3>2, <3>3 DEF ToldOfTheEvent
  <2>. QED
    BY <2>2, <2>3
<1>. QED
  BY <1>1, <1>2

LEMMA AnswersAreTold ==
  ASSUME RoutingInv, NEW q, NEW c
  PROVE  ToldOfTheEvent(AnswerCurrent(q, c).used)
<1>1. \/ AnswerCurrent(q, c) = EventAnswer(c)
      \/ AnswerCurrent(q, c).used.assessment = NoAssessment
  BY TellsNoAssessment, OthersTellNoAssessment DEF AnswerCurrent
<1>. QED
  BY <1>1, EventAnswerIsTold DEF ToldOfTheEvent

\* What a turn leaves.
LEMMA ReferentsAreWhole ==
  ASSUME NEW q, NEW c, NEW used, ToldOfTheEvent(used)
  PROVE  LET left == Referent(q, c, used)
         IN  left.assessment # NoAssessment =>
               left.event = TRUE /\ left.comparison = <<>> /\ left.assessment \in Assessments
<1>. DEFINE paired == used.account # NoOne /\ used.related # NoOne
            related == "relation" \in q.asks /\ used.account # NoOne
            compared == paired /\ ~related /\ {"compare", "pair"} \cap q.asks # {}
            left == [event |-> used.event, assessment |-> used.assessment,
                     facility |-> used.facility, action |-> used.action,
                     account |-> IF compared THEN NoOne ELSE used.account,
                     comparison |-> IF compared THEN <<used.account, used.related>> ELSE <<>>,
                     relation |-> IF ~related THEN <<>>
                                  ELSE IF paired THEN <<used.account, used.related>>
                                  ELSE <<used.account>>]
<1>1. Referent(q, c, used) = NoReferent \/ Referent(q, c, used) = left
  BY DEF Referent
<1>2. NoReferent.assessment = NoAssessment
  BY DEF NoReferent
<1>3. left.event = used.event /\ left.assessment = used.assessment
  OBVIOUS
<1>4. used.related = NoOne => left.comparison = <<>>
  OBVIOUS
<1>. HIDE DEF left
<1>. QED
  BY <1>1, <1>2, <1>3, <1>4 DEF ToldOfTheEvent

-----------------------------------------------------------------------------
LEMMA RoutingStarts == RoutingInit => RoutingInv
BY DEF RoutingInit, RoutingInv, EventRecord, ReferentIsWhole, NoReferent

LEMMA TurnKeepsRouting ==
  ASSUME RoutingInv, NEW outcome \in Outcomes, TakeTurn(outcome)
  PROVE  RoutingInv'
<1>1. PICK q \in OmniRequests : outcome = Outcome(q)
  BY DEF Outcomes
<1>. DEFINE c == Resolve(q, referent)
            used == AnswerCurrent(q, c).used
            left == Referent(q, c, used)
<1>2. referent' = left /\ briefed' = briefed
  BY <1>1 DEF TakeTurn, Outcome
<1>3. ToldOfTheEvent(used)
  BY AnswersAreTold
<1>. HIDE DEF used
<1>4. left.assessment # NoAssessment =>
        left.event = TRUE /\ left.comparison = <<>> /\ left.assessment \in Assessments
  BY <1>3, ReferentsAreWhole
<1>. HIDE DEF left
<1>. QED
  BY <1>2, <1>4 DEF RoutingInv, ReferentIsWhole

LEMMA RoutingSteps == RoutingInv /\ [RoutingNext]_routingVars => RoutingInv'
<1>. SUFFICES ASSUME RoutingInv, [RoutingNext]_routingVars PROVE RoutingInv'
  OBVIOUS
<1>1. ASSUME NEW x \in Accounts, EventChanges(x)
      PROVE  RoutingInv'
  <2>1. PICK record \in IF briefed[x] = NoRecord THEN 0..MaxAssessment
                        ELSE {NoRecord} \cup ((briefed[x] + 1)..MaxAssessment) :
          briefed' = [briefed EXCEPT ![x] = record]
    BY <1>1 DEF EventChanges
  <2>2. record \in EventRecord
    <3>1. briefed[x] \in EventRecord
      BY DEF RoutingInv
    <3>. QED
      BY <2>1, <3>1, RoutingAssumption DEF EventRecord, NoRecord
  <2>. QED
    BY <1>1, <2>1, <2>2 DEF EventChanges, RoutingInv, ReferentIsWhole
<1>2. CASE NewConversation
  BY <1>2 DEF NewConversation, NoReferent, RoutingInv, ReferentIsWhole
<1>3. CASE ActionChanges \/ UNCHANGED routingVars
  BY <1>3 DEF ActionChanges, routingVars, RoutingInv, ReferentIsWhole
<1>. QED
  BY <1>1, <1>2, <1>3, TurnKeepsRouting DEF RoutingNext

\* What a follow-up on an assessed event is answered from: the event with the assessment
\* that was told, when that is still the current one, and nothing otherwise.
LEMMA FollowUpsAreResolved ==
  ASSUME RoutingInv, referent.assessment # NoAssessment, NEW q \in EventFollowUps
  PROVE  LET c == Resolve(q, referent)
             told == referent.assessment
         IN  \/ c.refuses = TRUE
             \/ /\ c.event = TRUE /\ c.assessment = told /\ c.comparison = <<>>
                /\ c.account = q.screen.account
                /\ briefed[told[1]] = told[2]
<1>. DEFINE given == Given(q, referent)
            told == referent.assessment
            followed == [given EXCEPT !.event = TRUE, !.drew = TRUE, !.assessment = told]
            refused == [given EXCEPT !.refuses = TRUE]
<1>1. /\ referent.event = TRUE /\ referent.comparison = <<>> /\ referent # NoReferent
      /\ LooksBack(q) /\ "event" \in q.asks
  BY DEF RoutingInv, ReferentIsWhole, EventFollowUps, NoReferent
<1>2. ~\E i \in DOMAIN referent.comparison : referent.comparison[i] = referent.account
  BY <1>1
<1>3. Resolve(q, referent) = refused \/ Resolve(q, referent) = FromEvent(given, referent)
  BY <1>1, <1>2, Zenon DEF Resolve
<1>4. \/ FromEvent(given, referent) = refused
      \/ FromEvent(given, referent) = followed /\ briefed[told[1]] = told[2]
  BY Zenon DEF FromEvent
<1>5. refused.refuses = TRUE
  BY DEF Given
<1>6. /\ followed.event = TRUE /\ followed.assessment = told /\ followed.comparison = <<>>
      /\ followed.account = q.screen.account
  BY DEF Given
<1>. HIDE DEF refused, followed, given
<1>. QED
  BY <1>3, <1>4, <1>5, <1>6, Zenon

\* A selected event of which an assessment is asked for, and has it, is told with it.
LEMMA AssessedEventIsTold ==
  ASSUME RoutingInv, NEW c, c.assessment \in Assessments,
         briefed[c.assessment[1]] = c.assessment[2]
  PROVE  EventAnswer(c).used.assessment = c.assessment
<1>. DEFINE told == c.assessment
<1>1. told = <<told[1], told[2]>> /\ told[1] \in Accounts /\ told[2] \in 1..MaxAssessment
  BY DEF Assessments
<1>2. briefed[told[1]] # NoRecord /\ briefed[told[1]] # 0
  BY <1>1 DEF NoRecord
<1>3. told[1] \in Candidates /\ told # NoAssessment
  BY <1>1, <1>2 DEF Candidates, NoAssessment
<1>4. EventChoice(c) = told[1]
  BY <1>3 DEF EventChoice
<1>5. EventAnswer(c) = BriefedAnswer(told[1], c)
  BY <1>2, <1>3, <1>4 DEF EventAnswer
<1>6. <<told[1], briefed[told[1]]>> = told
  BY <1>1
<1>7. BriefedAnswer(told[1], c) = Say(told[1], [OfEvent EXCEPT !.account = told[1],
                                                             !.assessment = told])
  BY <1>6 DEF BriefedAnswer
<1>8. \A x, t : Say(x, [OfEvent EXCEPT !.account = x, !.assessment = t]).used.assessment = t
  BY DEF Say, OfEvent, Nowhere
<1>. HIDE DEF told
<1>9. Say(told[1], [OfEvent EXCEPT !.account = told[1], !.assessment = told]).used.assessment = told
  BY <1>8
<1>. QED
  BY <1>5, <1>7, <1>9 DEF told

\* A question that looks back, and does not follow up the selection, names nobody.
LEMMA FollowUpsAnswer ==
  ASSUME NEW q \in EventFollowUps, NEW c, c.event = TRUE, c.comparison = <<>>,
         c.account = q.screen.account
  PROVE  AnswerCurrent(q, c) = Refuse \/ AnswerCurrent(q, c) = EventAnswer(c)
<1>1. "event" \in q.asks /\ q.names = {} /\ ~ScreenSupplies(q)
  BY DEF EventFollowUps, LooksBack, StandsAlone
<1>2. ~FollowsUp(q, c)
  BY <1>1, Zenon DEF FollowsUp, ScreenSupplies
<1>3. CompareAnswer(q) = Refuse /\ CrossAnswer = Refuse
  BY <1>1, FS_EmptySet DEF CompareAnswer, CrossAnswer
<1>. QED
  BY <1>1, <1>2, <1>3, Zenon DEF AnswerCurrent

\* A conversation that told an assessment of an event goes on with that assessment while
\* it is the current one, and then with none: whatever is asked, shown on the screen or
\* made of it by the model, however many times the event is assessed between two turns.
THEOREM ContinuationsAreCurrent == RoutingSpec => []ContinuationIsCurrent
<1>1. RoutingInv => ContinuationIsCurrent
  <2>. SUFFICES ASSUME RoutingInv, referent.assessment # NoAssessment,
                       NEW q \in EventFollowUps,
                       AnswerCurrent(q, Resolve(q, referent)).about # NoOne
                PROVE  LET r == AnswerCurrent(q, Resolve(q, referent))
                           told == referent.assessment
                       IN  r.used.assessment = told /\ briefed[told[1]] = told[2]
    BY DEF ContinuationIsCurrent
  <2>. DEFINE c == Resolve(q, referent)
              told == referent.assessment
  <2>1. \/ c.refuses = TRUE
        \/ /\ c.event = TRUE /\ c.assessment = told /\ c.comparison = <<>>
           /\ c.account = q.screen.account
           /\ briefed[told[1]] = told[2]
    BY FollowUpsAreResolved
  <2>2. told \in Assessments
    BY DEF RoutingInv, ReferentIsWhole
  <2>3. Refuse.about = NoOne
    BY DEF Refuse, Say
  <2>. HIDE DEF c, told
  <2>4. AnswerCurrent(q, c).about # NoOne
    BY DEF c
  <2>5. c.refuses # TRUE
    <3>1. c.refuses = TRUE => AnswerCurrent(q, c) = Refuse
      BY Zenon DEF AnswerCurrent
    <3>. QED
      BY <2>3, <2>4, <3>1
  <2>6. AnswerCurrent(q, c) = EventAnswer(c)
    BY <2>1, <2>3, <2>4, <2>5, FollowUpsAnswer
  <2>7. EventAnswer(c).used.assessment = told /\ briefed[told[1]] = told[2]
    BY <2>1, <2>2, <2>5, AssessedEventIsTold
  <2>. QED
    BY <2>6, <2>7 DEF c, told
<1>. QED
  BY <1>1, RoutingStarts, RoutingSteps, PTL DEF RoutingSpec
=============================================================================
