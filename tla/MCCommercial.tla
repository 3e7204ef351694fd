----------------------------- MODULE MCCommercial -----------------------------
(***************************************************************************)
(* The commercial components, for TLC: as in MCComponents, a behaviour is  *)
(* one of one of them, and the others stay as they begin.                  *)
(***************************************************************************)
EXTENDS Communications, CustomerRisk, TodayQueue, RouteSearch, FederalProjection,
        GovernedOutput, OmniAnswer

Edge(id, source, predicate, target, inverse, usable) ==
  [id |-> id, source |-> source, target |-> target, predicate |-> predicate,
   inverse |-> inverse, usable |-> usable]

\* Two accounts, a program and a component of the first, a component of the second,
\* and two facilities; the second facility's fact has not been accepted.
RouteFacts ==
  { Edge(1, "account a", "ACCOUNT_COMPONENT", "component c", TRUE, TRUE),
    Edge(2, "account a", "ACCOUNT_PROGRAM", "program p", TRUE, TRUE),
    Edge(3, "program p", "PROGRAM_COMPONENT", "component c", TRUE, TRUE),
    Edge(4, "facility f", "PRODUCED_ACCEPTED_COMPONENT", "component c", TRUE, TRUE),
    Edge(5, "facility g", "PRODUCED_ACCEPTED_COMPONENT", "component c", TRUE, FALSE),
    Edge(6, "facility f", "PRODUCED_ACCEPTED_COMPONENT", "component d", TRUE, TRUE),
    Edge(7, "account b", "ACCOUNT_COMPONENT", "component d", TRUE, TRUE),
    Edge(8, "facility f", "SCENARIO_SUPPLIER_FOR_COMPONENT", "account a", TRUE, TRUE),
    Edge(9, "facility f", "SCENARIO_SUPPLIER_FOR_COMPONENT", "account b", TRUE, TRUE) }

\* cross_account_experience, without its BTX business unit
RouteTemplates ==
  LET f(p) == <<p, FALSE>>
      i(p) == <<p, TRUE>>
  IN  { <<i("SCENARIO_SUPPLIER_FOR_COMPONENT"), f("SCENARIO_SUPPLIER_FOR_COMPONENT")>>,
        <<f("ACCOUNT_COMPONENT"), i("PRODUCED_ACCEPTED_COMPONENT"),
          f("PRODUCED_ACCEPTED_COMPONENT"), i("ACCOUNT_COMPONENT")>>,
        <<f("ACCOUNT_PROGRAM"), f("PROGRAM_COMPONENT"), i("PRODUCED_ACCEPTED_COMPONENT"),
          f("PRODUCED_ACCEPTED_COMPONENT"), i("ACCOUNT_COMPONENT")>> }

\* A notice that seeks sources, a solicitation that names an account and its program, and an
\* archived one; awards of two months and two fiscal years; an import before and after the account
\* became a customer.
Content(type, archived, deadline, naics, part, mentions) ==
  [type |-> type, archived |-> archived, deadline |-> deadline, naics |-> naics,
   part |-> part, mentions |-> mentions]
FederalContents ==
  { Content("Sources Sought", FALSE, 0, TRUE, "p", {"milling"}),
    Content("Solicitation", FALSE, 1, TRUE, "p", {"milling", "account a", "program x"}),
    Content("Solicitation", TRUE, 1, FALSE, NoPart, {"account a"}) }
Award(year, month) == [year |-> year, month |-> month, part |-> "p"]
FederalAwards == { {}, {Award(1, 9), Award(1, 10)} }

ProgramX == [account |-> "account a", name |-> "program x"]
FederalEnvironments ==
  { [capabilities |-> {"milling"}, customers |-> {}, prospects |-> {"account a"}, programs |-> {ProgramX}],
    [capabilities |-> {}, customers |-> {"account a"}, prospects |-> {}, programs |-> {}] }
FederalPartners == { {}, {"account a"} }

\* Results with evidence within the bound of a request, of an imported route, and beyond the
\* bound; and the answers that the ways to read them tell apart.
Finding(content, evidence, imported) == [content |-> content, evidence |-> evidence, imported |-> imported]
GovernedFindings == { Finding("result a", {1, 2}, FALSE), Finding("result b", {2, 3}, TRUE),
    Finding("result c", {1, 2, 3}, FALSE) }

Reply(sdk, closes, form, evidence) ==
  [sdk |-> sdk, closes |-> closes, form |-> form, evidence |-> evidence, long |-> FALSE, stated |-> TRUE,
   names |-> {"bracket", "valve"}, proposed |-> {}, ranked |-> {}]
Failure(sdk) == Reply(sdk, TRUE, "none", {})
Cites(evidence) == Reply("text", TRUE, "well", evidence)
GovernedReplies ==
  { Failure("auth"), Failure("timeout"), Failure("error"), Failure("raises"), Failure("blocked"),
    Reply("text", FALSE, "well", {1}), Reply("text", TRUE, "prose", {}), Reply("text", TRUE, "types", {}),
    Cites({}), Cites({1}), Cites({1, 4}), [Cites({2}) EXCEPT !.names = {"bracket", "valve", "pump"}],
    [Cites({}) EXCEPT !.proposed = {"account a"}], [Cites({}) EXCEPT !.proposed = {"account z"}],
    [Cites({}) EXCEPT !.ranked = {"account a", "account b"}] }
GovernedMentions ==
  [m \in {"m1", "m2"} |-> IF m = "m1" THEN [state |-> "AMBIGUOUS", candidates |-> {"account a", "account b"}]
                         ELSE [state |-> "RESOLVED", candidates |-> {}]]
GovernedCooldowns == [s \in {"AVAILABLE", "NOT_CONFIGURED", "UNAVAILABLE", "AUTH_FAILED", "TIMEOUT", "QUOTA"} |->
   IF s \in {"AVAILABLE", "NOT_CONFIGURED"} THEN 0 ELSE IF s \in {"QUOTA", "AUTH_FAILED"} THEN 2 ELSE 1]

\* A selected event with passages; a path of the relationship workspace and what was not sent;
\* a certificate that is assumed.
AnswerQuestions ==
  { {"event", "latest"}, {"route", "search", "outbound"},
    {"event", "assumed_certificate", "public_topic"} }

VARIABLE component

vars == <<component, communicationVars, riskVars, todayVars, searchVars, federalVars,
          governedVars, answerVars>>

\* A component that stays begins one way only.
Init ==
  /\ component \in {"communications", "risk", "today", "routes", "federal", "answers", "omni"}
  /\ IF component = "routes" THEN graph \in SUBSET Facts /\ authorized \in SUBSET Guarded
                             ELSE graph = Facts /\ authorized = {}
  /\ CommunicationsInit /\ RiskInit /\ TodayInit /\ SearchInit
  /\ FederalInit
  /\ partnerships = {} /\ environment = CHOOSE e \in Environments : e.customers = {}
  /\ awards = {} /\ \A n \in Notices : "account a" \in notices[n].mentions /\ ~notices[n].archived
  /\ GovernedInit /\ hasProvider /\ \A kind \in Kinds : finding[kind] = CHOOSE f \in Findings : f.imported <=> kind = "route"
  /\ AnswerInit
  /\ component = "risk" \/ ~converging
  /\ component = "communications" \/
       \A d \in DraftKeys :
         \/ draft[d] = NoDraft
         \/ /\ draft[d].by = CHOOSE u \in Users : TRUE
            /\ draft[d].content = CHOOSE c \in Drafts : TRUE

Stays(name, its) == IF component = name THEN TRUE ELSE UNCHANGED its

Next ==
  /\ \/ component = "communications" /\ CommunicationsNext
     \/ component = "risk" /\ RiskNext
     \/ component = "today" /\ TodayNext
     \/ component = "routes" /\ SearchNext
     \/ component = "federal" /\ FederalNext
     \/ component = "answers" /\ GovernedNext
     \/ component = "omni" /\ AnswerNext
  /\ Stays("communications", communicationVars) /\ Stays("risk", riskVars)
  /\ Stays("today", todayVars) /\ Stays("routes", searchVars)
  /\ Stays("federal", federalVars) /\ Stays("answers", governedVars)
  /\ Stays("omni", answerVars)
  /\ UNCHANGED component

Spec == Init /\ [][Next]_vars
=============================================================================
