-------------------------- MODULE FederalProjection --------------------------
(***************************************************************************)
(* Federal notices, the assessments that are kept of them and the pages    *)
(* that show them.                                                         *)
(*   procurement_projection, federal_assessments_for_account,              *)
(*   federal_today_candidates      modules/federal_procurement.py          *)
(*   build_assessment, route_opportunity, durability_assessment            *)
(*                                 modules/federal_opportunity_routing.py  *)
(*   persist_federal_assessment    monitor/repository.py                   *)
(* The worker and requests to the API project at the same time, each in its *)
(* process: a call reads the notices and awards, then the assessments that *)
(* are kept, then the commercial environment, and saves an assessment of   *)
(* every notice whose inputs are others than those of the kept one.  The   *)
(* pages of an account, of the map and of Today read what is kept.         *)
(***************************************************************************)
EXTENDS Integers, Sequences, FiniteSets, FiniteSetsExt

CONSTANTS
  Notices,        \* SAM notice ids, numbers
  NoticeContents, \* [type, archived, deadline, naics, part, mentions]: the payloads of a notice
  AwardSets,      \* sets of [year, month, part]: what the awards may be
  Environments,   \* [capabilities, customers, prospects, programs]: what may be imported
  Partners,       \* sets of accounts that account planning may name
  Projections,    \* calls of procurement_projection
  Targeting,      \* monitor_sam_naics_verification_state = "VERIFIED"
  Soon,           \* the days before its deadline in which a notice is urgent: 14
  TodayLimit,     \* 5
  MaxFederalDay,  \* bound on the clock
  MaxChanges,     \* bound on what comes from outside
  MaxAssessments  \* bound on the versions of an assessment

NoPart == "none"
NoDeadline == -1
NoRevision == [source |-> "none"]

\* What opportunity and award read of a payload: an identifier that is stated, or none; a
\* deadline, or none; the capabilities, accounts and programs that the text mentions.  The
\* days are counted from one that no deadline precedes.
OpportunityFields ==
  [type : STRING \ {"any"}, archived : BOOLEAN, deadline : Nat \cup {NoDeadline}, naics : BOOLEAN,
   part : STRING, mentions : SUBSET STRING]
AwardFields == [year : Int, month : 1..12, part : STRING]

ASSUME PayloadsAreRead == NoticeContents \subseteq OpportunityFields /\ UNION AwardSets \subseteq AwardFields

\* What is imported is finite.
ASSUME FederalAssumption ==
  /\ Notices \subseteq Nat /\ Soon \in Nat /\ MaxFederalDay \in Nat
  /\ \A env \in Environments :
       /\ IsFiniteSet(env.capabilities) /\ IsFiniteSet(env.programs)
       /\ IsFiniteSet(env.customers) /\ IsFiniteSet(env.prospects)

VARIABLES
  day,
  notices,      \* the current observation of each notice
  awards,       \* the current observations of awards, those in the verified scope
  environment, partnerships,
  changes,      \* what has come from outside, counted
  kept,         \* notice -> its rows of federal_opportunity_assessments, the last one is_current
  projection    \* call -> where it is, what it has read and what it shows

federalVars == <<day, notices, awards, environment, partnerships, changes, kept, projection>>

-----------------------------------------------------------------------------
\* procurement_stage
StageOf(notice) ==
  IF notice.archived THEN "INACTIVE"
  ELSE CASE notice.type = "Sources Sought" -> "SOURCES_SOUGHT"
         [] notice.type = "Presolicitation" -> "PRE_SOLICITATION"
         [] notice.type \in {"Solicitation", "Combined Synopsis/Solicitation"} -> "SOLICITATION"
         [] notice.type = "Award Notice" -> "AWARD"
         [] notice.type = "Special Notice" -> "SPECIAL_NOTICE"
         [] notice.type = "Modification" -> "MODIFICATION"
         [] OTHER -> "UNCLASSIFIED"

\* normalize_notice_type knows fewer names and no archive: the points of relevance's notice stage.
StagePoints(notice) ==
  CASE notice.type = "Sources Sought" -> 15
    [] notice.type \in {"Solicitation", "Presolicitation"} -> 10
    [] OTHER -> 0

\* technical_decomposition: the part number, NSN or program that is stated.
Technical(notice) == notice.part

\* fiscal: the year begins in October.
FiscalYear(award) == IF award.month >= 10 THEN award.year + 1 ELSE award.year

\* durability_assessment
Durability(notice, given) ==
  LET related == {award \in given : notice.part # NoPart /\ award.part = notice.part}
      years == {FiscalYear(award) : award \in related}
  IN  IF Cardinality(years) >= 2 \/ Cardinality(related) >= 3
        THEN "POTENTIAL_RECURRING" ELSE "ONE_TIME_OR_UNKNOWN"

AtMost(a, b) == IF a < b THEN a ELSE b

Route(type, account, score) == [type |-> type, account |-> account, score |-> AtMost(100, score)]

CapabilityMatches(notice, env) == notice.mentions \cap env.capabilities

\* _account_matches: how often the text names the account or one of its programs.
AccountMatches(account, notice, env) ==
  Cardinality({account} \cap notice.mentions)
    + Cardinality({p \in env.programs : p.account = account /\ p.name \in notice.mentions})

AccountRoutes(notice, env, partners) ==
  {Route(IF a \in partners THEN "STRATEGIC_PARTNER"
         ELSE IF a \in env.customers THEN "CUSTOMER_EXPANSION" ELSE "NEW_PROSPECT",
         a, 40 + 8 * AtMost(3, AccountMatches(a, notice, env)) + IF a \in env.customers THEN 12 ELSE 5)
   : a \in {x \in env.customers \cup env.prospects : AccountMatches(x, notice, env) > 0}}

DirectRoutes(notice, env) ==
  LET fits == CapabilityMatches(notice, env)
      timing == CASE StageOf(notice) = "SOLICITATION" -> 2
                  [] StageOf(notice) \in {"SOURCES_SOUGHT", "PRE_SOLICITATION"} -> 1
                  [] OTHER -> 0
  IN  IF fits = {} THEN {}
      ELSE {Route("DIRECT_BTX", "none", 35 + 8 * Cardinality(fits) + 5 * timing)}

\* route_opportunity
Routes(notice, env, partners, durability) ==
  LET found == DirectRoutes(notice, env) \cup AccountRoutes(notice, env, partners)
  IN  IF found = {} \/ StageOf(notice) \in {"SOURCES_SOUGHT", "SPECIAL_NOTICE", "UNCLASSIFIED"}
        THEN found \cup {Route("MARKET_WATCH", "none",
                               30 + IF durability = "POTENTIAL_RECURRING" THEN 10 ELSE 0)}
        ELSE found

BestScore(routes) == Max({r.score : r \in routes})

\* build_assessment
Assessment(notice, given, env, partners) ==
  LET durability == Durability(notice, given)
  IN  [source |-> notice, stage |-> StageOf(notice), technical |-> Technical(notice),
       durability |-> durability, routes |-> Routes(notice, env, partners, durability)]

\* Mutant: what is imported does not tell one assessment from another.
RevisionOfNotice(assessment) ==
  [source |-> assessment.source, technical |-> assessment.technical, durability |-> assessment.durability]

\* input_revision
InputRevision(assessment) ==
  [source |-> assessment.source, technical |-> assessment.technical,
   durability |-> assessment.durability, routes |-> assessment.routes]

-----------------------------------------------------------------------------
\* relevance: the routes have no part in it, and no notice of a source has a BTX context.
Relevance(notice, now) ==
  (IF notice.naics /\ Targeting THEN 40 ELSE 0) + StagePoints(notice)
    + (IF notice.deadline = NoDeadline THEN 0
       ELSE IF notice.deadline - now \in 0..Soon THEN 10 ELSE 5)

IsActive(notice, now) ==
  /\ StageOf(notice) \notin {"AWARD", "INACTIVE"}
  /\ notice.deadline = NoDeadline \/ notice.deadline >= now

\* The filters of the request: a notice type, sources sought or not, a score, a deadline that is near.
Wanted(filter, notice, now) ==
  /\ filter.type \in {"any", notice.type}
  /\ filter.naics => notice.naics
  /\ Relevance(notice, now) >= filter.minimum_relevance
  /\ filter.soon => notice.deadline - now \in 0..Soon

-----------------------------------------------------------------------------
NotProjecting == [pc |-> "idle", notices |-> <<>>, awards |-> {}, partnerships |-> {},
         persisted |-> <<>>, environment |-> <<>>, todo |-> {}, shown |-> {}]

\* current_source_observations: opportunities and the awards.
BeginProjection(c) ==
  /\ projection[c].pc = "idle"
  /\ projection' = [projection EXCEPT ![c] =
       [NotProjecting EXCEPT !.pc = "read", !.notices = notices, !.awards = awards, !.todo = Notices]]
  /\ UNCHANGED <<day, notices, awards, environment, partnerships, changes, kept>>

\* The row that is_current, or none.
CurrentAssessment(n) ==
  IF kept[n] = <<>> THEN [version |-> 0, revision |-> NoRevision] ELSE kept[n][Len(kept[n])]

\* account_planning's partnerships, then current_federal_assessments.
ReadKept(c) ==
  /\ projection[c].pc = "read"
  /\ projection' = [projection EXCEPT ![c].pc = "compared", ![c].partnerships = partnerships,
       ![c].persisted = [n \in Notices |-> CurrentAssessment(n)]]
  /\ UNCHANGED <<day, notices, awards, environment, partnerships, changes, kept>>

ReadEnvironment(c) ==
  /\ projection[c].pc = "compared"
  /\ projection' = [projection EXCEPT ![c].pc = "assessing", ![c].environment = environment]
  /\ UNCHANGED <<day, notices, awards, environment, partnerships, changes, kept>>

Built(c, n) ==
  Assessment(projection[c].notices[n], projection[c].awards, projection[c].environment,
             projection[c].partnerships)

Shows(c, n, row) ==
  projection' = [projection EXCEPT ![c].todo = @ \ {n},
                   ![c].shown = @ \cup {[notice |-> n, version |-> row.version, assessment |-> row.assessment]}]

NextNotice(c) == Min(projection[c].todo)

\* What was read as kept has these inputs.
KeepsRow(c) ==
  LET n == NextNotice(c)
  IN  /\ projection[c].pc = "assessing" /\ projection[c].todo # {}
      /\ projection[c].persisted[n].revision = InputRevision(Built(c, n))
      /\ Shows(c, n, projection[c].persisted[n])
      /\ UNCHANGED <<day, notices, awards, environment, partnerships, changes, kept>>

\* persist_federal_assessment, in one transaction under the lock of the notice: another call may
\* have kept the same meanwhile.
PersistAssessment(c) ==
  LET n == NextNotice(c)
      revision == InputRevision(Built(c, n))
      row == [version |-> CurrentAssessment(n).version + 1, revision |-> revision, assessment |-> Built(c, n)]
  IN  /\ projection[c].pc = "assessing" /\ projection[c].todo # {}
      /\ projection[c].persisted[n].revision # revision
      /\ IF CurrentAssessment(n).revision = revision
           THEN UNCHANGED kept /\ Shows(c, n, CurrentAssessment(n))
           ELSE /\ row.version <= MaxAssessments
                /\ kept' = [kept EXCEPT ![n] = Append(@, row)] /\ Shows(c, n, row)
      /\ UNCHANGED <<day, notices, awards, environment, partnerships, changes>>

\* The response is made, or a connection fails.
EndProjection(c) ==
  /\ projection[c].pc # "idle"
  /\ projection' = [projection EXCEPT ![c] = NotProjecting]
  /\ UNCHANGED <<day, notices, awards, environment, partnerships, changes, kept>>

-----------------------------------------------------------------------------
\* Official notices, awards, imports and partners as they come, and time.
FromOutside == changes < MaxChanges /\ changes' = changes + 1

NoticeChanges(n, content) ==
  /\ FromOutside
  /\ notices[n] # content /\ notices' = [notices EXCEPT ![n] = content]
  /\ UNCHANGED <<day, awards, environment, partnerships, kept, projection>>

AwardsChange(given) ==
  /\ FromOutside
  /\ awards # given /\ awards' = given
  /\ UNCHANGED <<day, notices, environment, partnerships, kept, projection>>

EnvironmentChanges(env) ==
  /\ FromOutside
  /\ environment # env /\ environment' = env
  /\ UNCHANGED <<day, notices, awards, partnerships, kept, projection>>

PartnersChange(partners) ==
  /\ FromOutside
  /\ partnerships # partners /\ partnerships' = partners
  /\ UNCHANGED <<day, notices, awards, environment, kept, projection>>

ADayLater ==
  /\ FromOutside
  /\ day < MaxFederalDay /\ day' = day + 1
  /\ UNCHANGED <<notices, awards, environment, partnerships, kept, projection>>

FederalInit ==
  /\ day = 0
  /\ notices \in [Notices -> NoticeContents]
  /\ awards \in AwardSets /\ environment \in Environments /\ partnerships \in Partners
  /\ changes = 0 /\ kept = [n \in Notices |-> <<>>]
  /\ projection = [c \in Projections |-> NotProjecting]

FederalNext ==
  \/ \E c \in Projections :
       \/ BeginProjection(c) \/ ReadKept(c) \/ ReadEnvironment(c)
       \/ KeepsRow(c) \/ PersistAssessment(c) \/ EndProjection(c)
  \/ \E n \in Notices, content \in NoticeContents : NoticeChanges(n, content)
  \/ \E given \in AwardSets : AwardsChange(given)
  \/ \E env \in Environments : EnvironmentChanges(env)
  \/ \E partners \in Partners : PartnersChange(partners)
  \/ ADayLater

FederalSpec == FederalInit /\ [][FederalNext]_federalVars

-----------------------------------------------------------------------------
\* The pages. federal_assessments_for_account, of the account's page and of the map:
AccountPage(account) ==
  {[notice |-> n, version |-> CurrentAssessment(n).version,
    routes |-> {r \in CurrentAssessment(n).assessment.routes : r.account = account}]
   : n \in {x \in Notices : /\ kept[x] # <<>>
                            /\ \E r \in CurrentAssessment(x).assessment.routes : r.account = account}}

\* federal_today_candidates
IsTimely(n) ==
  /\ kept[n] # <<>>
  /\ BestScore(CurrentAssessment(n).assessment.routes) >= 55
  /\ CurrentAssessment(n).assessment.stage \in {"SOURCES_SOUGHT", "PRE_SOLICITATION", "SOLICITATION"}

ComesBefore(m, n) ==
  LET score(x) == BestScore(CurrentAssessment(x).assessment.routes)
  IN  score(m) > score(n) \/ (score(m) = score(n) /\ m < n)

TodayPage ==
  {n \in Notices : IsTimely(n) /\ Cardinality({m \in Notices : IsTimely(m) /\ ComesBefore(m, n)}) < TodayLimit}

Filters ==
  [type : {"any"} \cup {c.type : c \in NoticeContents}, naics : BOOLEAN, minimum_relevance : {0, 60}, soon : BOOLEAN]

Listed(n, filter, now) == IsActive(notices[n], now) /\ Wanted(filter, notices[n], now)

-----------------------------------------------------------------------------
\* What a call shows of a notice is the assessment of what the call itself read, and it is on
\* record under the version that it shows, whatever other calls have kept meanwhile.
ShownAsKept ==
  \A c \in Projections : \A s \in projection[c].shown :
    /\ s.assessment = Built(c, s.notice)
    /\ kept[s.notice][s.version].assessment = s.assessment

\* What Today offers is a route to somebody, the same on the page of the account, and of a notice
\* that the workspace lists, unless its deadline is past or it has changed.
TodayIsListed ==
  \A n \in TodayPage :
    LET row == CurrentAssessment(n)
        best == CHOOSE r \in row.assessment.routes : r.score = BestScore(row.assessment.routes)
    IN  /\ best.type # "MARKET_WATCH"
        /\ best.account # "none" => \E x \in AccountPage(best.account) :
                                     x.notice = n /\ x.version = row.version /\ best \in x.routes
        /\ \/ row.assessment.source # notices[n]
           \/ notices[n].deadline \in 0..day - 1
           \/ \E filter \in Filters : filter.type # "any" /\ Listed(n, filter, day)

\* A notice that a request finds is found by it again until its deadline.
ListingLasts ==
  \A n \in Notices, filter \in Filters, later \in day..MaxFederalDay :
    Listed(n, filter, day) /\ (notices[n].deadline = NoDeadline \/ later <= notices[n].deadline)
      => Listed(n, filter, later)

(* The pages of federal notices agree, with the inputs, with what is kept    *)
(* and with each other, although each of them is read on its own.           *)
FederalPagesAgree == ShownAsKept /\ TodayIsListed /\ ListingLasts
=============================================================================
