------------------------------- MODULE ChatAgent -------------------------------
(***************************************************************************)
(* One question to the conversational agent: a bounded alternation of model *)
(* turns and read-only lookups, which the user may stop at any moment from  *)
(* another thread and which a time limit cuts short.                       *)
(*   ChatAgent.answer, read, bounded, fallback                             *)
(*                                    modules/assistant/chat_agent.py      *)
(*   ChatTools.execute                modules/assistant/chat_tools.py      *)
(*   answer_chat                      api/omni.py                          *)
(***************************************************************************)
EXTENDS Naturals, Sequences

CONSTANTS Steps     \* the lookups of a question: 6

ASSUME StepsAreCounted == Steps \in Nat

VARIABLES
  at,          \* where the agent is: a step, or how it answers
  purpose,     \* what the lookup in progress is for: a name, the model, the fallback
  turns,       \* times round the loop
  modelCalls,
  attempts,    \* lookups that were executed, however they ended
  steps,       \* the private audit of the lookups
  stopped,     \* the user has gone away, or pressed stop
  late,        \* the time limit of the question has passed
  chatReceipt      \* the row of omni_runs

chatVars == <<at, purpose, turns, modelCalls, attempts, steps, stopped, late, chatReceipt>>

AgentSteps == {"classify", "lookup", "loop", "model", "correct", "fallback"}
AnswerKinds == {"REFUSED", "NOT_FOUND", "CONTEXT_LIMIT", "GENERAL_DISABLED", "ANSWERED",
            "VALIDATION_FALLBACK", "STEP_LIMIT", "CANCELED", "USAGE_LIMIT", "DEGRADED",
            "LIMIT_OR_UNAVAILABLE"}

\* What read and bounded raise.  limit: a bad argument, a refusal, a time limit.
Errors == {"limit", "type", "interrupted", "quota", "provider"}

\* The errors that read catches, to add a failed step to the audit before it raises them
\* again: an error of the provider that a web search asks is none of them.
Caught == {"limit", "type", "interrupted"}

Go(place) == at' = place

\* Where an error of a lookup or of a model call leads.  A name is looked up outside the
\* try block, and the fallback runs inside its handlers.
Raised(for, error) ==
  IF for = "name" THEN "escaped"
  ELSE IF for = "fallback" THEN IF error = "limit" THEN "LIMIT_OR_UNAVAILABLE" ELSE "escaped"
  ELSE CASE error = "interrupted" -> "CANCELED"
         [] error = "quota" -> "USAGE_LIMIT"
         [] OTHER -> "fallback"

\* Mutant: the number of lookups is not looked at.
InTime == ~late

WithinLimits == Len(steps) < Steps /\ ~late

\* read, up to the execution of the tool.
BeginRead(for) ==
  /\ purpose' = for
  /\ IF ~stopped /\ WithinLimits
       THEN Go("lookup") /\ attempts' = attempts + 1
       ELSE /\ Go(Raised(for, IF stopped THEN "interrupted" ELSE "limit"))
            /\ UNCHANGED attempts
  /\ UNCHANGED <<turns, modelCalls, steps, stopped, late, chatReceipt>>

\* refusal, explicit_name, and a provider that may not be configured.
Classify ==
  /\ at = "classify"
  /\ \/ BeginRead("name")
     \/ /\ \E place \in {"REFUSED", "loop", "fallback"} : Go(place)
        /\ UNCHANGED <<purpose, turns, modelCalls, attempts, steps, stopped, late, chatReceipt>>

\* The tool has answered, in its time or late, too largely, or without a match.  The
\* fallback may answer without a look at what the tool returned.
LookupAnswers(status) ==
  /\ at = "lookup"
  /\ steps' = Append(steps, status)
  /\ \E place \in
       IF status = "no match" THEN {"NOT_FOUND"}
       ELSE CASE purpose = "name" -> IF status = "ok" THEN {"loop", "fallback"} ELSE {"escaped"}
              [] purpose = "fallback" -> IF status = "ok" THEN {"DEGRADED"}
                                         ELSE {"DEGRADED", "LIMIT_OR_UNAVAILABLE"}
              [] OTHER -> IF status = "ok" THEN {"loop"} ELSE {"loop", "fallback"} :
       Go(place)
  /\ status = "no match" => purpose # "fallback"
  /\ UNCHANGED <<purpose, turns, modelCalls, attempts, stopped, late, chatReceipt>>

\* bounded waits no longer: the tool goes on in its thread, and nobody hears of it.
LookupFails(error) ==
  /\ at = "lookup"
  /\ error = "interrupted" => stopped
  /\ error \notin Caught => purpose = "model"
  /\ steps' = IF error \in Caught THEN Append(steps, "error") ELSE steps
  /\ Go(Raised(purpose, error))
  /\ UNCHANGED <<purpose, turns, modelCalls, attempts, stopped, late, chatReceipt>>

\* The head of the loop: all that ends it without another model call.
LoopEnds ==
  /\ at = "loop"
  /\ \/ turns = Steps + 1 /\ Go("STEP_LIMIT")
     \/ turns <= Steps /\ stopped /\ Go("CANCELED")
     \/ turns <= Steps /\ ~stopped /\ Go("CONTEXT_LIMIT")
     \/ turns <= Steps /\ ~stopped /\ late /\ Go("fallback")
  /\ UNCHANGED <<purpose, turns, modelCalls, attempts, steps, stopped, late, chatReceipt>>

AskModel ==
  /\ at = "loop"
  /\ turns <= Steps /\ ~stopped /\ ~late
  /\ turns' = turns + 1
  /\ modelCalls' = modelCalls + 1
  /\ Go("model")
  /\ UNCHANGED <<purpose, attempts, steps, stopped, late, chatReceipt>>

ModelFails(error) ==
  /\ at \in {"model", "correct"}
  /\ error = "interrupted" => stopped
  /\ Go(Raised("model", error))
  /\ UNCHANGED <<purpose, turns, modelCalls, attempts, steps, stopped, late, chatReceipt>>

ModelAsksForLookup == at = "model" /\ BeginRead("model")

\* The text is checked against all that was read; with issues, the model is asked once
\* more, and only for a text.
ModelWrites(passes) ==
  /\ at = "model"
  /\ IF passes THEN Go("ANSWERED") /\ UNCHANGED modelCalls
     ELSE Go("correct") /\ modelCalls' = modelCalls + 1
  /\ UNCHANGED <<purpose, turns, attempts, steps, stopped, late, chatReceipt>>

GeneralQuestion ==
  /\ at = "model"
  /\ steps = <<>>
  /\ Go("GENERAL_DISABLED")
  /\ UNCHANGED <<purpose, turns, modelCalls, attempts, steps, stopped, late, chatReceipt>>

CheckedAgain(passes) == IF passes THEN "ANSWERED" ELSE "VALIDATION_FALLBACK"

ModelCorrects(passes) ==
  /\ at = "correct"
  /\ Go(CheckedAgain(passes))
  /\ UNCHANGED <<purpose, turns, modelCalls, attempts, steps, stopped, late, chatReceipt>>

\* fallback: one deterministic lookup, or none.
FallBack ==
  /\ at = "fallback"
  /\ \/ BeginRead("fallback")
     \/ /\ Go("DEGRADED")
        /\ UNCHANGED <<purpose, turns, modelCalls, attempts, steps, stopped, late, chatReceipt>>

\* answer_chat records what the agent returned; an error that escapes it is handled
\* nowhere, and the receipt remains.
Record ==
  /\ at \in AnswerKinds
  /\ chatReceipt = "RUNNING"
  /\ chatReceipt' \in {"ANSWER_RECORDED", "RUNNING"}
  /\ at' = IF chatReceipt' = "RUNNING" THEN "unsaved" ELSE at
  /\ UNCHANGED <<purpose, turns, modelCalls, attempts, steps, stopped, late>>

Stop ==
  /\ stopped' = TRUE
  /\ UNCHANGED <<at, purpose, turns, modelCalls, attempts, steps, late, chatReceipt>>

TimePasses ==
  /\ late' = TRUE
  /\ UNCHANGED <<at, purpose, turns, modelCalls, attempts, steps, stopped, chatReceipt>>

ChatInit ==
  /\ at = "classify" /\ purpose = "none"
  /\ turns = 0 /\ modelCalls = 0 /\ attempts = 0
  /\ steps = <<>>
  /\ stopped = FALSE /\ late = FALSE
  /\ chatReceipt = "RUNNING"

ChatNext ==
  \/ Classify \/ FallBack
  \/ \E status \in {"ok", "unusable", "no match"} : LookupAnswers(status)
  \/ \E error \in Errors : LookupFails(error) \/ ModelFails(error)
  \/ LoopEnds \/ AskModel \/ ModelAsksForLookup
  \/ \E passes \in BOOLEAN : ModelWrites(passes) \/ ModelCorrects(passes)
  \/ GeneralQuestion
  \/ Record \/ Stop \/ TimePasses

ChatSpec == ChatInit /\ [][ChatNext]_chatVars

-----------------------------------------------------------------------------
\* What a question may cost: the lookups of its limit and one of the fallback, one model
\* call more than its lookups to make use of the last one, and one correction, whatever
\* fails, is refused or comes late.
CostIsBounded ==
  /\ attempts <= Steps + 1
  /\ modelCalls <= Steps + 2
=============================================================================
