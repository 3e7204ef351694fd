----------------------------- MODULE MCComponents -----------------------------
(***************************************************************************)
(* The components that share no row and no variable, for TLC: a behaviour is *)
(* one of one of them, and the others stay as they begin.                   *)
(***************************************************************************)
EXTENDS AiBudget, OmniConversation, OmniMemory, ChatAgent, OmniRouting,
        EventBriefing, VersionedRows, MonitorCollection, SuggestionFeedback, MarketSeries,
        CandidatePromotion

\* What questions are made of; with each, a question that the code classifies so.
Phrases ==
  { {},                                              \* "tell me about ..."
    {"continues"},                                   \* "what about it"
    {"event"},                                       \* "what happened"
    {"event", "account", "continues", "matter"},     \* "why does this matter"
    {"event", "continues"},                          \* "which account is it tied to"
    {"facility"},                                    \* "what is this facility"
    {"facility", "account", "continues", "matter"},  \* "why does this facility matter"
    {"facility", "continues"},                       \* "which account owns it"
    {"action", "account", "continues"},              \* "what should i do next"
    {"event", "action", "continues"},                \* "what evidence supports it"
    {"event", "action", "account", "continues"},     \* "explain this more simply"
    {"account", "continues"},                        \* "any new signals"
    {"account", "continues", "cross", "that_account"},
                                                     \* "does that account have open actions"
    {"relation"},                                    \* "how are we connected"
    {"relation", "continues"},                       \* "is there a warmer path"
    {"relation", "unknown_name"},                    \* "how are ... and ... connected"
    {"cross", "portfolio", "account", "continues"},  \* "which accounts have open actions"
    {"compare"},                                     \* "compare ... and ..."
    {"compare", "records", "account", "continues"},  \* "compare quotes"
    {"pair", "continues"},                           \* "which one has the higher score"
    {"pair", "continues", "cross", "account"},       \* "which one has more open actions"
    {"continues", "other_one"},                      \* "what about the other one"
    {"screen"} }                                     \* "summarize this screen"

\* Two spellings of one company; a third name is an alias of a curated account.
Company(name) == IF name = "acme inc" THEN "acme" ELSE name

VARIABLE component

vars == <<component, budgetVars, conversationVars, memoryVars, chatVars, routingVars, briefVars,
          rowVars, collectionVars, feedbackVars, marketVars, promotionVars>>

Init ==
  /\ component \in {"budget", "conversation", "memory", "chat", "routing", "briefing", "rows",
                    "collection", "feedback", "market", "promotion"}
  /\ BudgetInit /\ ConversationInit /\ MemoryInit /\ ChatInit /\ RoutingInit
  /\ BriefingInit /\ RowsInit /\ CollectionInit /\ FeedbackInit /\ MarketInit
  /\ PromotionInit
  /\ component = "briefing" \/ (dated /\ configured)
  /\ component = "market" \/ \A s \in Series : published[s] = CHOOSE v \in Contents : TRUE

Stays(name, its) == IF component = name THEN TRUE ELSE UNCHANGED its

Next ==
  /\ \/ component = "budget" /\ BudgetNext
     \/ component = "conversation" /\ ConversationNext
     \/ component = "memory" /\ MemoryNext
     \/ component = "chat" /\ ChatNext
     \/ component = "routing" /\ RoutingNext
     \/ component = "briefing" /\ BriefingNext
     \/ component = "rows" /\ RowsNext
     \/ component = "collection" /\ CollectionNext
     \/ component = "feedback" /\ FeedbackNext
     \/ component = "market" /\ MarketNext
     \/ component = "promotion" /\ PromotionNext
  /\ Stays("budget", budgetVars) /\ Stays("conversation", conversationVars)
  /\ Stays("memory", memoryVars) /\ Stays("chat", chatVars) /\ Stays("routing", routingVars)
  /\ Stays("briefing", briefVars) /\ Stays("rows", rowVars)
  /\ Stays("collection", collectionVars) /\ Stays("feedback", feedbackVars)
  /\ Stays("market", marketVars) /\ Stays("promotion", promotionVars)
  /\ UNCHANGED component

Spec == Init /\ [][Next]_vars
=============================================================================
