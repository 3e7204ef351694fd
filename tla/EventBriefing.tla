---------------------------- MODULE EventBriefing ----------------------------
(***************************************************************************)
(* One monitored event on its way to a seller brief: the worker decomposes *)
(* it, assembles its evidence package and keeps it as an assessment, asks   *)
(* a language provider for prose and decides the publication.              *)
(*   run_worker (technical ... publication)           monitor/worker.py    *)
(*   signal_briefs_for_monitor, process_signal_brief_synthesis,            *)
(*   governed_content_hash, apply_cached_synthesis    monitor/briefs.py    *)
(*   assemble_evidence_package, persist_assessment,                        *)
(*   apply_persisted_assessment           monitor/business_briefings.py    *)
(*   TechnicalDecompositionService.process  intelligence/technical_fit.py  *)
(*   the rows they are kept in                     monitor/repository.py   *)
(*                                                                         *)
(* The event is resolved, relevant, researched and eligible; evidence is   *)
(* the number of the source revision it rests on.  Workers exclude each    *)
(* other with the operational lock, unless its session is lost.            *)
(***************************************************************************)
EXTENDS Naturals, FiniteSets

CONSTANTS
  Workers,
  None,
  DatedEvents,  \* which kinds of event there are: does the source date the event itself?
  MaxSource,    \* bound: revisions of the source record
  MaxTime,      \* bound: the clock
  MaxCycles,    \* bound: cycles started
  Cooldown      \* time before a failed provider call may be repeated

VARIABLES
  dated,       \* event_date is known
  source,      \* content_hash of the event's source document
  briefingClock,
  configured,  \* the provider has a key
  technical,   \* monitor_technical_decompositions of the event and account
  assessments, \* monitor_intelligence_assessments of the event and account
  synthesis,   \* monitor_brief_syntheses: the one cached attempt, or None
  cycles,      \* cycles started so far
  worker,      \* where each worker is and what it carries
  outcome,     \* the last publication decision, or None
  asked,       \* history: the last call for each cache, and what it was about
  prose,       \* history: the revisions the provider has written about
  disturbed,   \* history: an answer was lost with its worker, or workers overlapped
  repeated     \* history: what the provider was asked again

briefVars == <<dated, cycles, source, briefingClock, configured, technical, assessments, synthesis, worker,
               outcome, asked, prose, disturbed, repeated>>

ProviderAnswers == {"AVAILABLE", "TIMEOUT"}
Statuses == ProviderAnswers \cup {"NOT_CONFIGURED"}

Caches == {"technical", "synthesis"}

SourceRevisions == 0..MaxSource
Retries == Nat \cup {None}

\* An evidence package, the brief of one, and the hash of its content.
Rev == [source : SourceRevisions, technical : [key : SourceRevisions, status : Statuses] \cup {None}]
Timings == {"DATED", "UNKNOWN", "OBSERVED"}
Modes == {"DETERMINISTIC", "GEMINI_ASSISTED"}
Brief == [rev : Rev, timing : Timings, mode : Modes]
Hashes == [rev : Rev, timing : Timings]

Answer == [status : Statuses, retry : Retries]
Synthesis == [hash : Hashes, status : Statuses, retry : Retries]
Decomposition == [version : Nat, key : SourceRevisions, status : Statuses, retry : Retries, current : BOOLEAN]
Assessment == [version : Nat, rev : Rev, mode : Modes, current : BOOLEAN]

\* None is neither a time nor a record of any table.
ASSUME BriefingAssumption ==
  /\ DatedEvents \subseteq BOOLEAN /\ MaxSource \in Nat /\ Cooldown \in Nat
  /\ None \notin Nat /\ None \notin Synthesis
  /\ None \notin [key : SourceRevisions, status : Statuses]

Stages == {"idle", "technical", "save technical", "prepare", "persist prepared",
           "synthesis", "save synthesis", "publication", "persist publication"}

Carrier == [at : Stages, brief : Brief \cup [key : SourceRevisions] \cup {None}, answer : Answer \cup {None}]

\* Where a worker carries a brief, and where it carries an answer.
Briefed == {"persist prepared", "synthesis", "save synthesis", "persist publication"}

WorkerTypeOK ==
  \A w \in Workers :
    /\ worker[w].at \in Briefed => worker[w].brief \in Brief
    /\ worker[w].at = "save technical" => worker[w].brief.key \in SourceRevisions
    /\ worker[w].at \in {"save technical", "save synthesis"} => worker[w].answer \in Answer

BriefingTypeOK ==
  /\ dated \in BOOLEAN /\ configured \in BOOLEAN /\ disturbed \in BOOLEAN
  /\ source \in SourceRevisions /\ briefingClock \in Nat
  /\ technical \subseteq Decomposition /\ assessments \subseteq Assessment
  /\ synthesis \in Synthesis \cup {None}
  /\ worker \in [Workers -> Carrier]
  /\ WorkerTypeOK

-----------------------------------------------------------------------------
\* Rows of one context.
CurrentOf(table) == {row \in table : row.current}
LastRow(table) == CHOOSE row \in table : row.current

Retire(table) == {[row EXCEPT !.current = FALSE] : row \in table}

\* save_technical_decomposition; a conflict with another writer is CycleEnds.
SaveTechnical(key, status, retry) ==
  LET row(version) == [version |-> version, key |-> key, status |-> status,
                       retry |-> retry, current |-> TRUE]
  IN  technical' =
        IF CurrentOf(technical) = {} THEN {row(1)}
        ELSE LET last == LastRow(technical)
             IN  IF last.key = key THEN (technical \ {last}) \cup {row(last.version)}
                 ELSE Retire(technical) \cup {row(last.version + 1)}

\* save_intelligence_assessment: in place for the same input revision.
SaveAssessment(brief) ==
  LET row(version) == [version |-> version, rev |-> brief.rev, mode |-> brief.mode,
                       current |-> TRUE]
  IN  assessments' =
        IF CurrentOf(assessments) = {} THEN {row(1)}
        ELSE LET last == LastRow(assessments)
             IN  IF last.rev = brief.rev THEN (assessments \ {last}) \cup {row(last.version)}
                 ELSE Retire(assessments) \cup {row(last.version + 1)}

\* Mutant: the package takes its source revision from the decomposition.
PackageOfDecomposition ==
  [source |-> IF CurrentOf(technical) = {} THEN source ELSE LastRow(technical).key,
   technical |-> IF CurrentOf(technical) = {} THEN None
                 ELSE [key |-> LastRow(technical).key, status |-> LastRow(technical).status]]

\* The event's evidence package: its source and whatever decomposition is current.
EvidencePackage ==
  [source |-> source,
   technical |-> IF CurrentOf(technical) = {} THEN None
                 ELSE [key |-> LastRow(technical).key, status |-> LastRow(technical).status]]

\* apply_persisted_assessment: the assessment kept for the same revision replaces the
\* deterministic brief, and calls an undated event OBSERVED.
ApplyPersisted(brief) ==
  LET kept == {row \in CurrentOf(assessments) : row.rev = brief.rev}
  IN  IF kept = {} THEN brief
      ELSE [brief EXCEPT !.timing = IF @ = "UNKNOWN" THEN "OBSERVED" ELSE @,
                         !.mode = LastRow(assessments).mode]

\* signal_briefs_for_monitor: the deterministic brief of the package.
Projected ==
  ApplyPersisted([rev |-> EvidencePackage, timing |-> IF dated THEN "DATED" ELSE "UNKNOWN",
                  mode |-> "DETERMINISTIC"])

\* Mutant: the hash leaves the decomposition out.
HashOfSource(brief) == [source |-> brief.rev.source, timing |-> brief.timing]

\* governed_content_hash: the package and the fields beside it, without generated language.
Hash(brief) == [rev |-> brief.rev, timing |-> brief.timing]

\* brief_synthesis: only an exact match.
Cached(brief) == IF synthesis # None /\ synthesis.hash = Hash(brief) THEN {synthesis} ELSE {}

CachedTechnical == {row \in CurrentOf(technical) : row.key = source}

RetryAt(status) == IF status = "TIMEOUT" THEN briefingClock + Cooldown ELSE None

\* Mutant: the end of the cooldown is not looked at.
NeverWaits(row) == FALSE

\* The cooldown of a failed call is not over.
Waits(row) == row.retry # None /\ row.retry > briefingClock

Goes(w, at) == worker' = [worker EXCEPT ![w].at = at]
GoesWith(w, at, brief, answer) ==
  worker' = [worker EXCEPT ![w] = [at |-> at, brief |-> brief, answer |-> answer]]

\* A call to the provider about a cache key and an input revision, and its answer.
AskProvider(cache, key, rev, answer) ==
  LET last == asked[cache]
  IN  /\ asked' = IF disturbed THEN asked
           ELSE [asked EXCEPT ![cache] = [key |-> key, rev |-> rev, answer |-> answer, at |-> briefingClock]]
      /\ repeated' = IF disturbed \/ last = None THEN repeated
           ELSE repeated
                \cup (IF last.key = key /\ last.answer = "TIMEOUT" /\ briefingClock < last.at + Cooldown
                      THEN {"early"} ELSE {})
                \cup (IF last.key = key /\ last.answer = "AVAILABLE" THEN {"answered"} ELSE {})
                \cup (IF last.rev = rev /\ last.answer = "AVAILABLE" THEN {"unchanged"} ELSE {})

\* History: from here on nothing is promised about what the provider is asked.
Disturbs(now) ==
  /\ disturbed' = (disturbed \/ now)
  /\ asked' = IF disturbed' THEN [cache \in Caches |-> None] ELSE asked

-----------------------------------------------------------------------------
\* A cycle takes the lock (another may still run whose lock is lost) and collects.
Start(w) ==
  /\ worker[w].at = "idle"
  /\ cycles < MaxCycles /\ cycles' = cycles + 1
  /\ Disturbs(\E v \in Workers \ {w} : worker[v].at # "idle")
  /\ \E new \in {source, source + 1} : new \in 1..MaxSource /\ source' = new
  /\ GoesWith(w, "technical", None, None)
  /\ outcome' = None
  /\ UNCHANGED <<dated, prose, briefingClock, configured, technical, assessments, synthesis, repeated>>

\* The decomposition is reused, deferred, not selected or out of time.
SkipTechnical(w) ==
  /\ worker[w].at = "technical"
  /\ Goes(w, "prepare")
  /\ UNCHANGED <<dated, cycles, prose, source, briefingClock, configured, technical, assessments, synthesis, outcome, asked,
                 disturbed, repeated>>

\* TechnicalDecompositionService.process: no provider, a failure and an answer are all kept.
Decompose(w) ==
  /\ worker[w].at = "technical"
  /\ \A row \in CachedTechnical : row.status # "AVAILABLE" /\ ~Waits(row)
  /\ \/ /\ configured
        /\ \E answer \in ProviderAnswers :
             /\ AskProvider("technical", source, source, answer)
             /\ GoesWith(w, "save technical", [key |-> source], [status |-> answer, retry |-> RetryAt(answer)])
     \/ /\ ~configured
        /\ GoesWith(w, "save technical", [key |-> source], [status |-> "NOT_CONFIGURED", retry |-> None])
        /\ asked' = [asked EXCEPT !["technical"] = None]
        /\ UNCHANGED repeated
  /\ UNCHANGED <<dated, cycles, prose, source, briefingClock, configured, technical, assessments, synthesis, outcome, disturbed>>

SaveDecomposition(w) ==
  /\ worker[w].at = "save technical"
  /\ SaveTechnical(worker[w].brief.key, worker[w].answer.status, worker[w].answer.retry)
  /\ GoesWith(w, "prepare", None, None)
  /\ UNCHANGED <<dated, cycles, prose, source, briefingClock, configured, assessments, synthesis, outcome, asked, disturbed, repeated>>

Prepare(w) ==
  /\ worker[w].at = "prepare"
  /\ GoesWith(w, "persist prepared", Projected, None)
  /\ UNCHANGED <<dated, cycles, prose, source, briefingClock, configured, technical, assessments, synthesis, outcome, asked,
                 disturbed, repeated>>

PersistPrepared(w) ==
  /\ worker[w].at = "persist prepared"
  /\ SaveAssessment(worker[w].brief)
  /\ Goes(w, "synthesis")
  /\ UNCHANGED <<dated, cycles, prose, source, briefingClock, configured, technical, synthesis, outcome, asked, disturbed, repeated>>

\* The prose is reused, its retry deferred, or the batch is capped.
SkipSynthesis(w) ==
  /\ worker[w].at = "synthesis"
  /\ GoesWith(w, "publication", None, None)
  /\ UNCHANGED <<dated, cycles, prose, source, briefingClock, configured, technical, assessments, synthesis, outcome, asked,
                 disturbed, repeated>>

\* Without a provider the attempt is kept as NOT_CONFIGURED, and asked for as soon as there is one.
SynthesisNotConfigured(w) ==
  LET brief == worker[w].brief
  IN  /\ worker[w].at = "synthesis" /\ ~configured
      /\ \A row \in Cached(brief) : row.status \notin {"AVAILABLE", "NOT_CONFIGURED"}
      /\ synthesis' = [hash |-> Hash(brief), status |-> "NOT_CONFIGURED", retry |-> None]
      /\ asked' = [asked EXCEPT !["synthesis"] = None]
      /\ GoesWith(w, "publication", None, None)
      /\ UNCHANGED <<dated, cycles, prose, source, briefingClock, configured, technical, assessments, outcome, disturbed, repeated>>

Synthesize(w) ==
  LET brief == worker[w].brief
  IN  /\ worker[w].at = "synthesis" /\ configured
      /\ \A row \in Cached(brief) : row.status # "AVAILABLE" /\ ~Waits(row)
      /\ \E answer \in ProviderAnswers :
           /\ AskProvider("synthesis", Hash(brief), brief.rev, answer)
           /\ prose' = IF answer = "AVAILABLE" THEN prose \cup {brief.rev} ELSE prose
           /\ GoesWith(w, "save synthesis", brief, [status |-> answer, retry |-> RetryAt(answer)])
      /\ UNCHANGED <<dated, cycles, source, briefingClock, configured, technical, assessments, synthesis, outcome, disturbed>>

\* save_brief_synthesis: the one attempt is replaced.
SaveSynthesis(w) ==
  /\ worker[w].at = "save synthesis"
  /\ synthesis' = [hash |-> Hash(worker[w].brief), status |-> worker[w].answer.status,
                   retry |-> worker[w].answer.retry]
  /\ GoesWith(w, "publication", None, None)
  /\ UNCHANGED <<dated, cycles, prose, source, briefingClock, configured, technical, assessments, outcome, asked, disturbed, repeated>>

\* apply_cached_synthesis over the brief as it is projected now.
Render(w) ==
  /\ worker[w].at = "publication"
  /\ LET brief == Projected
         assisted == \E row \in Cached(brief) : row.status = "AVAILABLE"
     IN  GoesWith(w, "persist publication",
                  IF assisted THEN [brief EXCEPT !.mode = "GEMINI_ASSISTED"] ELSE brief, None)
  /\ UNCHANGED <<dated, cycles, prose, source, briefingClock, configured, technical, assessments, synthesis, outcome, asked,
                 disturbed, repeated>>

\* The gates the model tells apart: the decomposition and the prose are the provider's.
PublicationGates(brief) ==
  /\ brief.mode = "GEMINI_ASSISTED"
  /\ brief.rev.technical # None /\ brief.rev.technical.status = "AVAILABLE"

PersistPublication(w) ==
  LET brief == worker[w].brief
  IN  /\ worker[w].at = "persist publication"
      /\ SaveAssessment(brief)
      /\ outcome' = [rev |-> brief.rev, published |-> PublicationGates(brief)]
      /\ GoesWith(w, "idle", None, None)
      /\ UNCHANGED <<dated, cycles, prose, source, briefingClock, configured, technical, synthesis, asked, disturbed, repeated>>

\* The deadline, an exception or a conflict ends a cycle anywhere.
CycleEnds(w) ==
  /\ worker[w].at # "idle"
  /\ Disturbs(worker[w].at \in {"save technical", "save synthesis"})
  /\ GoesWith(w, "idle", None, None)
  /\ UNCHANGED <<dated, cycles, prose, source, briefingClock, configured, technical, assessments, synthesis, outcome, repeated>>

BriefingTick ==
  /\ briefingClock < MaxTime
  /\ briefingClock' = briefingClock + 1
  /\ UNCHANGED <<dated, cycles, prose, source, configured, technical, assessments, synthesis, worker, outcome, asked,
                 disturbed, repeated>>

\* Between cycles the provider gains or loses its key.
Configure ==
  /\ \A w \in Workers : worker[w].at = "idle"
  /\ configured' = ~configured
  /\ UNCHANGED <<dated, cycles, prose, source, briefingClock, technical, assessments, synthesis, worker, outcome, asked,
                 disturbed, repeated>>

BriefingInit ==
  /\ dated \in DatedEvents
  /\ cycles = 0 /\ source = 0 /\ briefingClock = 0 /\ configured \in BOOLEAN
  /\ technical = {} /\ assessments = {} /\ synthesis = None /\ outcome = None
  /\ worker = [w \in Workers |-> [at |-> "idle", brief |-> None, answer |-> None]]
  /\ asked = [cache \in Caches |-> None]
  /\ prose = {} /\ disturbed = FALSE /\ repeated = {}

BriefingNext ==
  \/ BriefingTick \/ Configure
  \/ \E w \in Workers :
       \/ Start(w) \/ SkipTechnical(w) \/ Decompose(w) \/ SaveDecomposition(w)
       \/ Prepare(w) \/ PersistPrepared(w)
       \/ SkipSynthesis(w) \/ SynthesisNotConfigured(w) \/ Synthesize(w) \/ SaveSynthesis(w)
       \/ Render(w) \/ PersistPublication(w) \/ CycleEnds(w)

BriefingSpec == BriefingInit /\ [][BriefingNext]_briefVars
-----------------------------------------------------------------------------
\* "A stale pre-investigation summary cannot remain current": whoever writes
\* when, an assessment shows a provider's prose only if the provider wrote it
\* about the revision of the assessment, decomposition included; and a published
\* brief rests on such prose.
ProseIsAboutItsRevision ==
  /\ \A row \in assessments : row.mode = "GEMINI_ASSISTED" => row.rev \in prose
  /\ outcome # None /\ outcome.published =>
       outcome.rev \in prose /\ outcome.rev.technical.status = "AVAILABLE"

\* As long as no answer is lost, a failed call is not repeated before its cooldown,
\* nor a question that was answered, whatever cycles end in between; and of an
\* event the source dates itself no unchanged revision is written about twice.
ProviderIsAskedSparingly ==
  /\ repeated \cap {"early", "answered"} = {}
  /\ dated => repeated = {}

\* "A source record with unchanged governed content must reuse its synthesis when
\* it is observed again on a subsequent Monitor run."
UnchangedContentIsReused == "unchanged" \notin repeated

\* Unless workers overlapped, what a finished cycle decided on is the current
\* assessment, and rests on the source revision of the cycle; no assessment of an
\* older source has taken the place of one of a newer.
DecisionIsCurrent ==
  ~disturbed =>
    /\ outcome # None => LastRow(assessments).rev = outcome.rev /\ outcome.rev.source = source
    /\ \A a, b \in assessments : a.version <= b.version => a.rev.source <= b.rev.source
=============================================================================
