----------------------------- MODULE CustomerRisk -----------------------------
(***************************************************************************)
(* The risk index of a current customer: a weighted family of evidenced factors,   *)
(* the roll-up of public events, and the two together.                     *)
(*   assess, public_risk_rollup, overall_customer_risk,                    *)
(*   customer_risk_projection          modules/scoring/families.py         *)
(*   risk_inputs                       modules/scoring/internal_risk.py    *)
(*                                                                         *)
(* What is known changes: a snapshot of the account documents a factor, or  *)
(* no longer does, and goes stale; a public event is confirmed, and ends. *)
(* Scores are in hundredths: points (0..100) times a weight (per cent) is  *)
(* exact, and the code's _round changes only the weighted sum of the two.  *)
(***************************************************************************)
EXTENDS Integers, Sequences, FiniteSets

CONSTANTS
  Severities,   \* of the public events there may be, whole points
  Points,       \* the bins of a factor that are looked at
  Watched,      \* the factors whose evidence changes
  Settled,      \* the points of every other factor
  Domains,      \* of public risk: the domains looked at
  MaxEvents     \* bound on the public events at a time

ASSUME RubricIsBounded ==
  /\ Points \subseteq 0..100 /\ Settled \in 0..100 /\ Severities \subseteq 0..100
  /\ MaxEvents \in Nat /\ IsFiniteSet(Domains)

VARIABLES
  factor,       \* the points of each factor of internal_commercial_risk
  age,          \* of the account's snapshot
  events,       \* the public risk events of the account
  monitored,    \* monitoring_complete
  converging,   \* evidence links the internal and the public risk
  overridden    \* evidence of a legal prohibition or a safety shutdown, at the snapshot

riskVars == <<factor, age, events, monitored, converging, overridden>>

NoScore == -1

\* FAMILIES["internal_commercial_risk"]
Family == <<[factor |-> "commercial_momentum", weight |-> 30], [factor |-> "pipeline", weight |-> 20],
            [factor |-> "backlog", weight |-> 15], [factor |-> "engagement", weight |-> 15],
            [factor |-> "concentration", weight |-> 10], [factor |-> "friction", weight |-> 10]>>
Factors == {Family[i].factor : i \in DOMAIN Family}

Unknown == -1

\* put, evidence_state: two days count, and thirty for the engagement.
EvidenceIsCurrent(f) == age = "fresh" \/ (age = "over two days" /\ f = "engagement")

\* FactorInput: what is not known, or no longer current, may be anything.
Floor(f) == IF factor[f] # Unknown /\ EvidenceIsCurrent(f) THEN factor[f] ELSE 0
Ceiling(f) == IF factor[f] # Unknown /\ EvidenceIsCurrent(f) THEN factor[f] ELSE 100

\* critical_risk_evidence: current evidence only.
Blocked == overridden /\ age = "fresh"

\* Of "financial/legal", "demand/program" and "operations/site"; an event type may be of none.
Unclassified == "unclassified"

-----------------------------------------------------------------------------
\* assess: the weights are fixed, whatever is missing.
Weighted(points) ==
  LET part(i) == Family[i].weight * points[Family[i].factor]
  IN  part(1) + part(2) + part(3) + part(4) + part(5) + part(6)

Low == Weighted([f \in Factors |-> Floor(f)])

\* Mutant: what is unknown is taken for zero.
HighOfKnown == Weighted([f \in Factors |-> Floor(f)])

High == Weighted([f \in Factors |-> Ceiling(f)])

\* A point score only of a complete assessment.
InternalScore ==
  IF \A f \in Factors : factor[f] # Unknown /\ EvidenceIsCurrent(f) THEN Low ELSE NoScore

-----------------------------------------------------------------------------
Worst == CHOOSE e \in events : \A other \in events :
           other.severity < e.severity \/ (other.severity = e.severity /\ e.id <= other.id)

\* Domains of severity 40 and more beside that of the worst event.
AdditionalDomains ==
  {e.domain : e \in {other \in events : other.severity >= 40 /\ other.domain \in Domains}} \ {Worst.domain}

Uplift == IF Cardinality(AdditionalDomains) >= 2 THEN 10
          ELSE IF AdditionalDomains # {} THEN 5 ELSE 0

Least(a, b) == IF a <= b THEN a ELSE b

\* public_risk_rollup: nothing found is zero only when monitoring was complete.
PublicScore ==
  IF events # {} THEN 100 * Least(100, Worst.severity + Uplift)
  ELSE IF monitored THEN 0 ELSE NoScore

\* customer_risk_projection: public_confirmed
PublicConfirmed == events # {} \/ monitored

-----------------------------------------------------------------------------
\* overall_customer_risk: 60 to 40, the convergence uplift, the floors, the cap; rounded half up.
Combine(internal, public) ==
  LET uplift == IF internal >= 6000 /\ public >= 6000 /\ converging THEN 500 ELSE 0
      raw == (6 * internal + 4 * public + 10 * uplift + 5) \div 10
      floors == (IF public >= 8500 THEN {7500} ELSE {}) \cup (IF internal >= 8500 THEN {8000} ELSE {})
                \cup (IF Blocked THEN {8500} ELSE {})
  IN  Least(10000, CHOOSE most \in {raw} \cup floors : \A other \in {raw} \cup floors : other <= most)

OverallScore ==
  LET internal == InternalScore
  IN  IF internal # NoScore /\ PublicConfirmed THEN Combine(internal, PublicScore) ELSE NoScore

\* The bounds of what is not known: the range of the internal assessment, 0 to 100 of the public one.
OverallRange ==
  LET internal == InternalScore
      public == IF PublicConfirmed THEN PublicScore ELSE NoScore
      bound(value, unknown) == IF value = NoScore THEN unknown ELSE value
  IN  [low  |-> Combine(bound(internal, Low), bound(public, 0)),
       high |-> Combine(bound(internal, High), bound(public, 10000))]

-----------------------------------------------------------------------------
\* risk_inputs of a new snapshot of the account.
Imported(f, points) ==
  /\ factor' = [factor EXCEPT ![f] = points]
  /\ age' = "fresh"
  /\ UNCHANGED <<events, monitored, converging, overridden>>

Ages ==
  /\ age' = CASE age = "fresh" -> "over two days" [] OTHER -> "over thirty days"
  /\ UNCHANGED <<factor, events, monitored, converging, overridden>>

\* An active event of this account, with a severity and a signal confidence of 70 or more.
EventFound(severity, domain) ==
  /\ Cardinality(events) < MaxEvents
  /\ events' = events \cup {[id |-> Cardinality(events) + 1, severity |-> severity, domain |-> domain]}
  /\ UNCHANGED <<factor, age, monitored, converging, overridden>>

\* The event is no longer current or eligible.
EventEnds(e) ==
  /\ e \in events
  /\ e.id = Cardinality(events)
  /\ events' = events \ {e}
  /\ UNCHANGED <<factor, age, monitored, converging, overridden>>

MonitoringCompletes ==
  /\ ~monitored /\ monitored' = TRUE
  /\ UNCHANGED <<factor, age, events, converging, overridden>>

\* A service event that is a confirmed legal prohibition or safety shutdown.
OverrideFound ==
  /\ ~overridden /\ overridden' = TRUE
  /\ UNCHANGED <<factor, age, events, monitored, converging>>

RiskInit ==
  /\ factor = [f \in Factors |-> IF f \in Watched THEN Unknown ELSE Settled]
  /\ age = "fresh"
  /\ events = {} /\ monitored = FALSE /\ overridden = FALSE
  /\ converging \in BOOLEAN

RiskNext ==
  \/ \E f \in Watched, points \in Points \cup {Unknown} : Imported(f, points)
  \/ Ages
  \/ \E s \in Severities, d \in Domains \cup {Unclassified} : EventFound(s, d)
  \/ \E e \in events : EventEnds(e)
  \/ MonitoringCompletes \/ OverrideFound

-----------------------------------------------------------------------------
\* More is known, and nothing that was known is taken back.
OnlyLearnt ==
  /\ \A f \in Factors : Floor(f) <= Floor(f)' /\ Ceiling(f)' <= Ceiling(f)
  /\ PublicConfirmed => UNCHANGED <<events, monitored>>
  /\ UNCHANGED <<converging, Blocked>>

(* What is not known is neither good nor bad: as more is learnt the range of *)
(* the overall risk only narrows, to the score once everything is known; and *)
(* another confirmed event never lowers the public risk, as long as every     *)
(* event has a known domain: beside a worst event of none, all the domains    *)
(* count as further ones.                                                     *)
RiskIsHonest == [][ riskVars' # riskVars =>
  \A before \in {OverallRange}, after \in {OverallRange'}, score \in {OverallScore'} :
      /\ OnlyLearnt => before.low <= after.low /\ after.high <= before.high
      /\ score # NoScore => after.low = score /\ after.high = score
      /\ after.low <= after.high
      /\ PublicConfirmed /\ events \subseteq events' /\ (\A e \in events' : e.domain \in Domains)
           => PublicScore' >= PublicScore ]_riskVars

RiskSpec == RiskInit /\ [][RiskNext]_riskVars
=============================================================================
