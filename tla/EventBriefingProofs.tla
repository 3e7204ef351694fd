------------------------- MODULE EventBriefingProofs -------------------------
(***************************************************************************)
(* Theorems about EventBriefing, for any number of workers, cycles and     *)
(* revisions, with cycles that overlap because a lock was lost included.   *)
(* BriefingInv is the inductive invariant.  It has three parts, each       *)
(* preserved given the ones before it: where prose is, the provider wrote  *)
(* it; one cycle works at a time, on its own source; and the last answer   *)
(* about a cache is in the cache or on its way into it.                    *)
(***************************************************************************)
EXTENDS EventBriefing, TLAPS

\* At most one row of a table is current, and it is the newest.
NewestIsCurrent(table) ==
  /\ \A row \in table : \E last \in table : last.current /\ row.version <= last.version
  /\ \A a, b \in table : a.version = b.version => a = b
  /\ \A a, b \in table : a.current /\ b.current => a = b

\* Wherever prose is cached, kept or carried, the provider wrote it about that revision.
ProseIsWritten ==
  /\ synthesis # None /\ synthesis.status = "AVAILABLE" => synthesis.hash.rev \in prose
  /\ \A row \in assessments : row.mode = "GEMINI_ASSISTED" => row.rev \in prose
  /\ \A w \in Workers :
       /\ worker[w].at \in Briefed /\ worker[w].brief.mode = "GEMINI_ASSISTED"
            => worker[w].brief.rev \in prose
       /\ worker[w].at = "save synthesis" /\ worker[w].answer.status = "AVAILABLE"
            => worker[w].brief.rev \in prose

ProseInv ==
  /\ BriefingTypeOK
  /\ NewestIsCurrent(assessments)
  /\ ProseIsWritten
  /\ ProseIsAboutItsRevision

\* Unless workers overlapped, one works at a time, on the source of its cycle.
OneWorks ==
  /\ \A v, w \in Workers : worker[v].at # "idle" /\ worker[w].at # "idle" => v = w
  /\ \A w \in Workers : worker[w].at # "idle" => outcome = None
  /\ \A w \in Workers : worker[w].at \in Briefed => worker[w].brief.rev.source = source
  /\ \A row \in assessments : row.rev.source <= source

DecisionInv == DecisionIsCurrent /\ (~disturbed => OneWorks)

\* What was asked last about a cache is in the cache, or on its way into it.
Recalls(last, key, status, retry) ==
  /\ key = last.key /\ status = last.answer
  /\ status = "TIMEOUT" => retry = last.at + Cooldown

NobodySaves(at) == \A w \in Workers : worker[w].at # at

CallsOf(Keys, Revs) == [key : Keys, rev : Revs, answer : ProviderAnswers, at : Nat]

TechnicalIsKept ==
  LET last == asked["technical"]
  IN  last # None =>
        /\ last \in CallsOf(SourceRevisions, SourceRevisions) /\ last.rev = last.key
        /\ \A w \in Workers : worker[w].at = "save technical" =>
             Recalls(last, worker[w].brief.key, worker[w].answer.status, worker[w].answer.retry)
        /\ NobodySaves("save technical") =>
             \E row \in technical : row.current /\ Recalls(last, row.key, row.status, row.retry)

SynthesisIsKept ==
  LET last == asked["synthesis"]
  IN  last # None =>
        /\ last \in CallsOf(Hashes, Rev) /\ last.rev = last.key.rev
        /\ dated => last.key.timing = "DATED"
        /\ \A w \in Workers : worker[w].at = "save synthesis" =>
             Recalls(last, Hash(worker[w].brief), worker[w].answer.status, worker[w].answer.retry)
        /\ NobodySaves("save synthesis") =>
             /\ synthesis # None
             /\ Recalls(last, synthesis.hash, synthesis.status, synthesis.retry)

DatedBriefs ==
  dated => \A w \in Workers : worker[w].at \in Briefed => worker[w].brief.timing = "DATED"

AskedInv ==
  /\ DatedBriefs
  /\ asked = [cache \in Caches |-> asked[cache]]
  /\ disturbed => \A cache \in Caches : asked[cache] = None
  /\ TechnicalIsKept /\ SynthesisIsKept
  /\ ProviderIsAskedSparingly

BriefingInv == ProseInv /\ DecisionInv /\ AskedInv

-----------------------------------------------------------------------------
\* A worker goes on, and the others stay.
LEMMA WorkerGoes ==
  ASSUME BriefingTypeOK, NEW w \in Workers, NEW at \in Stages,
         NEW brief \in Brief \cup [key : SourceRevisions] \cup {None}, NEW answer \in Answer \cup {None},
         GoesWith(w, at, brief, answer)
  PROVE  /\ worker' \in [Workers -> Carrier]
         /\ worker'[w].at = at /\ worker'[w].brief = brief /\ worker'[w].answer = answer
         /\ \A v \in Workers \ {w} : worker'[v] = worker[v]
  BY DEF BriefingTypeOK, GoesWith, Carrier

LEMMA WorkerMoves ==
  ASSUME BriefingTypeOK, NEW w \in Workers, NEW at \in Stages, Goes(w, at)
  PROVE  /\ worker' \in [Workers -> Carrier]
         /\ worker'[w].at = at /\ worker'[w].brief = worker[w].brief
         /\ \A v \in Workers \ {w} : worker'[v] = worker[v]
  BY DEF BriefingTypeOK, Goes, Carrier

\* save_intelligence_assessment: the brief's revision is the current row, and the newest;
\* the others are as they were, but for being current.
LEMMA Saves ==
  ASSUME assessments \subseteq Assessment, NewestIsCurrent(assessments),
         NEW brief \in Brief, SaveAssessment(brief)
  PROVE  /\ assessments' \subseteq Assessment
         /\ NewestIsCurrent(assessments')
         /\ \A row \in assessments' :
              \/ row.rev = brief.rev /\ row.mode = brief.mode
              \/ \E old \in assessments :
                   row.rev = old.rev /\ row.mode = old.mode /\ row.version = old.version
         /\ \E new \in assessments' :
              /\ new.current /\ new.rev = brief.rev /\ new.mode = brief.mode
              /\ \A row \in assessments' :
                   /\ row.version <= new.version
                   /\ row = new \/ \E old \in assessments :
                                     row.rev = old.rev /\ row.version = old.version
<1>. DEFINE Row(version) == [version |-> version, rev |-> brief.rev, mode |-> brief.mode,
                             current |-> TRUE]
            last == LastRow(assessments)
<1>1. brief.rev \in Rev /\ brief.mode \in Modes
  BY DEF Brief
<1>2. \A n \in Nat : Row(n) \in Assessment
  BY <1>1 DEF Assessment
<1>3. CASE CurrentOf(assessments) = {}
  <2>1. assessments = {}
    BY <1>3 DEF CurrentOf, NewestIsCurrent
  <2>2. assessments' = {Row(1)}
    BY <1>3 DEF SaveAssessment
  <2>. QED
    BY <1>2, <2>1, <2>2 DEF NewestIsCurrent
<1>4. CASE CurrentOf(assessments) # {}
  <2>1. last \in assessments /\ last.current
    BY <1>4 DEF CurrentOf, LastRow
  <2>. HIDE DEF last
  <2>2. /\ last \in Assessment /\ last.version \in Nat
        /\ \A row \in assessments : row.version \in Nat /\ row.version <= last.version
        /\ \A row \in assessments : row.current => row = last
        /\ \A row \in assessments : row.version = last.version => row = last
    BY <2>1 DEF NewestIsCurrent, Assessment
  <2>3. CASE last.rev = brief.rev
    <3>1. assessments' = (assessments \ {last}) \cup {Row(last.version)}
      BY <1>4, <2>3 DEF SaveAssessment, last
    <3>2. \A row \in assessments \ {last} :
            row \in Assessment /\ ~row.current /\ row.version < last.version
      BY <2>2 DEF Assessment
    <3>. DEFINE new == Row(last.version)
    <3>3. new \in assessments' /\ new.current /\ new.version = last.version
          /\ new.rev = brief.rev /\ new.mode = brief.mode
      BY <3>1
    <3>4. \A row \in assessments' : row = new \/ row \in assessments \ {last}
      BY <3>1
    <3>5. new \in Assessment
      BY <1>2, <2>2
    <3>. HIDE DEF new
    <3>6. assessments' \subseteq Assessment
      BY <3>4, <3>5
    <3>7. NewestIsCurrent(assessments')
      BY <2>2, <3>2, <3>3, <3>4 DEF NewestIsCurrent
    <3>8. \A row \in assessments' : row.version <= new.version
      BY <2>2, <3>2, <3>3, <3>4
    <3>. QED
      BY <3>3, <3>4, <3>6, <3>7, <3>8
  <2>4. CASE last.rev # brief.rev
    <3>. DEFINE new == Row(last.version + 1)
                retired == Retire(assessments)
    <3>1. assessments' = retired \cup {new}
      BY <1>4, <2>4 DEF SaveAssessment, last
    <3>2. \A row \in retired : \E old \in assessments :
            /\ row = [old EXCEPT !.current = FALSE]
            /\ row \in Assessment /\ ~row.current
            /\ row.version = old.version /\ row.rev = old.rev /\ row.mode = old.mode
            /\ row.version <= last.version
      BY <2>2 DEF Retire, Assessment
    <3>3. new \in Assessment /\ new.current /\ new.version = last.version + 1
          /\ new.rev = brief.rev /\ new.mode = brief.mode
      BY <1>2, <2>2
    <3>. HIDE DEF new, retired
    <3>4. ASSUME NEW a \in retired, NEW b \in retired, a.version = b.version
          PROVE  a = b
      <4>1. PICK x \in assessments : a = [x EXCEPT !.current = FALSE] /\ a.version = x.version
        BY <3>2
      <4>2. PICK y \in assessments : b = [y EXCEPT !.current = FALSE] /\ b.version = y.version
        BY <3>2
      <4>3. x = y
        BY <3>4, <4>1, <4>2 DEF NewestIsCurrent
      <4>. QED
        BY <4>1, <4>2, <4>3
    <3>5. assessments' \subseteq Assessment
      BY <3>1, <3>2, <3>3
    <3>6. \A row \in retired : row.version \in Nat /\ row.version < new.version
      BY <2>2, <3>2, <3>3 DEF Assessment
    <3>7. NewestIsCurrent(assessments')
      BY <2>2, <3>1, <3>2, <3>3, <3>4, <3>6 DEF NewestIsCurrent
    <3>8. \A row \in assessments' : row.version <= new.version
      BY <2>2, <3>1, <3>3, <3>6
    <3>. QED
      BY <3>1, <3>2, <3>3, <3>5, <3>7, <3>8
  <2>. QED
    BY <2>3, <2>4
<1>. QED
  BY <1>3, <1>4

\* save_technical_decomposition: the answer is the current row.
LEMMA SavesTechnical ==
  ASSUME technical \subseteq Decomposition, NEW key \in SourceRevisions, NEW status \in Statuses,
         NEW retry \in Retries, SaveTechnical(key, status, retry)
  PROVE  /\ technical' \subseteq Decomposition
         /\ \E row \in technical' :
              /\ row.current /\ row.key = key /\ row.status = status /\ row.retry = retry
<1>. DEFINE Row(version) == [version |-> version, key |-> key, status |-> status,
                             retry |-> retry, current |-> TRUE]
            last == LastRow(technical)
<1>1. \A n \in Nat : Row(n) \in Decomposition
  BY DEF Decomposition
<1>2. CASE CurrentOf(technical) = {}
  BY <1>1, <1>2 DEF SaveTechnical
<1>3. CASE CurrentOf(technical) # {}
  <2>1. last \in technical /\ last.version \in Nat /\ last.version + 1 \in Nat
    BY <1>3 DEF CurrentOf, LastRow, Decomposition
  <2>2. Retire(technical) \subseteq Decomposition
    BY DEF Retire, Decomposition
  <2>3. \E n \in Nat : /\ Row(n) \in technical'
                       /\ technical' \subseteq technical \cup Retire(technical) \cup {Row(n)}
    BY <1>3, <2>1 DEF SaveTechnical
  <2>. QED
    BY <1>1, <2>2, <2>3
<1>. QED
  BY <1>2, <1>3

LEMMA PackageType ==
  ASSUME BriefingTypeOK
  PROVE  EvidencePackage \in Rev /\ EvidencePackage.source = source
<1>. DEFINE last == LastRow(technical)
<1>1. CASE CurrentOf(technical) = {}
  BY <1>1 DEF BriefingTypeOK, EvidencePackage, Rev
<1>2. CASE CurrentOf(technical) # {}
  <2>1. last \in technical
    BY <1>2 DEF CurrentOf, LastRow
  <2>2. last.key \in SourceRevisions /\ last.status \in Statuses
    BY <2>1 DEF BriefingTypeOK, Decomposition
  <2>. QED
    BY <1>2, <2>2 DEF BriefingTypeOK, EvidencePackage, Rev
<1>. QED
  BY <1>1, <1>2

\* The projected brief rests on the source as it is now, and has the mode of the assessment
\* kept for its revision, if there is one.
LEMMA ProjectedBrief ==
  ASSUME BriefingTypeOK, NewestIsCurrent(assessments)
  PROVE  /\ Projected \in Brief /\ Projected.rev.source = source
         /\ dated => Projected.timing = "DATED"
         /\ Projected.mode = "GEMINI_ASSISTED" =>
              \E row \in assessments : row.mode = "GEMINI_ASSISTED" /\ row.rev = Projected.rev
<1>. DEFINE brief == [rev |-> EvidencePackage, timing |-> IF dated THEN "DATED" ELSE "UNKNOWN",
                      mode |-> "DETERMINISTIC"]
            kept == {row \in CurrentOf(assessments) : row.rev = brief.rev}
<1>1. brief \in Brief /\ brief.rev.source = source
      /\ brief.mode = "DETERMINISTIC" /\ (dated => brief.timing = "DATED")
  BY PackageType DEF Brief, Timings, Modes
<1>2. Projected = ApplyPersisted(brief)
  BY DEF Projected
<1>. HIDE DEF brief
<1>3. CASE kept = {}
  BY <1>1, <1>2, <1>3 DEF ApplyPersisted
<1>4. CASE kept # {}
  <2>1. PICK row \in assessments : row.current /\ row.rev = brief.rev
    BY <1>4 DEF CurrentOf
  <2>2. LastRow(assessments) = row
    BY <2>1 DEF LastRow, NewestIsCurrent
  <2>3. row.mode \in Modes
    BY <2>1 DEF BriefingTypeOK, Assessment
  <2>4. Projected = [brief EXCEPT !.timing = IF @ = "UNKNOWN" THEN "OBSERVED" ELSE @,
                                  !.mode = row.mode]
    BY <1>2, <1>4, <2>2 DEF ApplyPersisted
  <2>5. Projected \in Brief /\ Projected.rev = brief.rev /\ Projected.mode = row.mode
        /\ Projected.timing = IF brief.timing = "UNKNOWN" THEN "OBSERVED" ELSE brief.timing
    BY <1>1, <2>3, <2>4 DEF Brief, Timings
  <2>. QED
    BY <1>1, <2>1, <2>5
<1>. QED
  BY <1>3, <1>4

-----------------------------------------------------------------------------
(***************************************************************************)
(* What a worker's step does to the rows and to what it carries.           *)
(***************************************************************************)
\* The part of BriefingTypeOK and ProseIsWritten that is about one worker.
Carries(w) ==
  /\ worker[w].at \in Briefed => worker[w].brief \in Brief
  /\ worker[w].at = "save technical" => worker[w].brief.key \in SourceRevisions
  /\ worker[w].at \in {"save technical", "save synthesis"} => worker[w].answer \in Answer
  /\ worker[w].at \in Briefed /\ worker[w].brief.mode = "GEMINI_ASSISTED"
       => worker[w].brief.rev \in prose
  /\ worker[w].at = "save synthesis" /\ worker[w].answer.status = "AVAILABLE"
       => worker[w].brief.rev \in prose

\* Only the step of one worker, and rows and outcomes whose prose is written.
LEMMA ProseStep ==
  ASSUME ProseInv, NEW w \in Workers, worker' \in [Workers -> Carrier],
         \A v \in Workers \ {w} : worker'[v] = worker[v],
         prose \subseteq prose', Carries(w)',
         dated' \in BOOLEAN, configured' \in BOOLEAN, disturbed' \in BOOLEAN,
         source' \in SourceRevisions, briefingClock' \in Nat, technical' \subseteq Decomposition,
         assessments' \subseteq Assessment, synthesis' \in Synthesis \cup {None},
         NewestIsCurrent(assessments'),
         synthesis' # None /\ synthesis'.status = "AVAILABLE" => synthesis'.hash.rev \in prose',
         \A row \in assessments' : row.mode = "GEMINI_ASSISTED" => row.rev \in prose',
         outcome' # None /\ outcome'.published =>
           outcome'.rev \in prose' /\ outcome'.rev.technical.status = "AVAILABLE"
  PROVE  ProseInv'
<1>2. \A v \in Workers : Carries(v)'
  BY DEF ProseInv, BriefingTypeOK, WorkerTypeOK, ProseIsWritten, Carries
<1>3. WorkerTypeOK'
  BY <1>2 DEF WorkerTypeOK, Carries
<1>4. BriefingTypeOK'
  BY <1>3 DEF BriefingTypeOK
<1>5. ProseIsWritten'
  BY <1>2 DEF ProseIsWritten, Carries
<1>6. ProseIsAboutItsRevision'
  BY DEF ProseIsAboutItsRevision
<1>. QED
  BY <1>4, <1>5, <1>6 DEF ProseInv

\* Steps after which the worker carries no brief.
LEMMA EmptyHandedKeepsProse ==
  ASSUME ProseInv, NEW w \in Workers,
         \/ Start(w) \/ SkipTechnical(w) \/ SkipSynthesis(w) \/ CycleEnds(w)
  PROVE  ProseInv'
<1>1. PICK at \in {"idle", "technical", "prepare", "publication"} :
        GoesWith(w, at, None, None) \/ Goes(w, at)
  BY DEF Start, SkipTechnical, SkipSynthesis, CycleEnds
<1>2. at \in Stages /\ at \notin Briefed /\ at \notin {"save technical", "save synthesis"}
  BY <1>1 DEF Stages, Briefed
<1>3. /\ worker' \in [Workers -> Carrier] /\ worker'[w].at = at
      /\ \A v \in Workers \ {w} : worker'[v] = worker[v]
  BY <1>1, <1>2, WorkerGoes, WorkerMoves DEF ProseInv
<1>4. Carries(w)'
  BY <1>2, <1>3 DEF Carries
<1>5. /\ UNCHANGED <<dated, briefingClock, configured, technical, assessments, synthesis, prose>>
      /\ outcome' = outcome \/ outcome' = None
  BY DEF Start, SkipTechnical, SkipSynthesis, CycleEnds
<1>6. source' \in SourceRevisions
  <2>1. CASE Start(w)
    BY <2>1, BriefingAssumption DEF Start, SourceRevisions
  <2>2. CASE source' = source
    BY <2>2 DEF ProseInv, BriefingTypeOK
  <2>. QED
    BY <2>1, <2>2 DEF SkipTechnical, SkipSynthesis, CycleEnds
<1>7. disturbed' \in BOOLEAN
  <2>1. CASE disturbed' = disturbed
    BY <2>1 DEF ProseInv, BriefingTypeOK
  <2>2. CASE \E now : Disturbs(now)
    BY <2>2, Zenon DEF Disturbs
  <2>. QED
    BY <2>1, <2>2 DEF Start, SkipTechnical, SkipSynthesis, CycleEnds
<1>8. /\ dated \in BOOLEAN /\ configured \in BOOLEAN /\ briefingClock \in Nat
      /\ technical \subseteq Decomposition /\ assessments \subseteq Assessment
      /\ synthesis \in Synthesis \cup {None}
      /\ NewestIsCurrent(assessments) /\ ProseIsWritten /\ ProseIsAboutItsRevision
  BY DEF ProseInv, BriefingTypeOK
<1>9. /\ synthesis' # None /\ synthesis'.status = "AVAILABLE" => synthesis'.hash.rev \in prose'
      /\ \A row \in assessments' : row.mode = "GEMINI_ASSISTED" => row.rev \in prose'
      /\ outcome' # None /\ outcome'.published =>
           outcome'.rev \in prose' /\ outcome'.rev.technical.status = "AVAILABLE"
  BY <1>5, <1>8 DEF ProseIsWritten, ProseIsAboutItsRevision
<1>. QED
  BY <1>3, <1>4, <1>5, <1>6, <1>7, <1>8, <1>9, ProseStep

\* A step within a cycle: what it may change is rows, the outcome and what the worker carries.
LEMMA CycleStep ==
  ASSUME ProseInv, NEW w \in Workers, worker' \in [Workers -> Carrier],
         \A v \in Workers \ {w} : worker'[v] = worker[v], Carries(w)',
         UNCHANGED <<dated, source, briefingClock, configured, disturbed>>,
         prose \subseteq prose', technical' \subseteq Decomposition,
         \/ assessments' = assessments
         \/ /\ assessments' \subseteq Assessment /\ NewestIsCurrent(assessments')
            /\ \A row \in assessments' : row.mode = "GEMINI_ASSISTED" => row.rev \in prose',
         \/ synthesis' = synthesis
         \/ /\ synthesis' \in Synthesis
            /\ synthesis'.status = "AVAILABLE" => synthesis'.hash.rev \in prose',
         \/ outcome' = outcome
         \/ outcome'.published =>
              outcome'.rev \in prose' /\ outcome'.rev.technical.status = "AVAILABLE"
  PROVE  ProseInv'
<1>1. /\ dated' \in BOOLEAN /\ configured' \in BOOLEAN /\ disturbed' \in BOOLEAN
      /\ source' \in SourceRevisions /\ briefingClock' \in Nat
  BY DEF ProseInv, BriefingTypeOK
<1>2. /\ assessments \subseteq Assessment /\ synthesis \in Synthesis \cup {None}
      /\ NewestIsCurrent(assessments) /\ ProseIsWritten /\ ProseIsAboutItsRevision
  BY DEF ProseInv, BriefingTypeOK
<1>3. /\ assessments' \subseteq Assessment /\ NewestIsCurrent(assessments')
      /\ \A row \in assessments' : row.mode = "GEMINI_ASSISTED" => row.rev \in prose'
  BY <1>2 DEF ProseIsWritten
<1>4. /\ synthesis' \in Synthesis \cup {None}
      /\ synthesis' # None /\ synthesis'.status = "AVAILABLE" => synthesis'.hash.rev \in prose'
  BY <1>2 DEF ProseIsWritten
<1>5. outcome' # None /\ outcome'.published =>
        outcome'.rev \in prose' /\ outcome'.rev.technical.status = "AVAILABLE"
  BY <1>2 DEF ProseIsAboutItsRevision
<1>. QED
  BY <1>1, <1>3, <1>4, <1>5, ProseStep

\* What a worker at work carries.
LEMMA Carried ==
  ASSUME ProseInv, NEW w \in Workers
  PROVE  /\ Carries(w) /\ worker[w].brief \in Brief \cup [key : SourceRevisions] \cup {None}
         /\ worker[w].answer \in Answer \cup {None} /\ BriefingTypeOK /\ technical \subseteq Decomposition
         /\ assessments \subseteq Assessment /\ NewestIsCurrent(assessments)
         /\ None \in Answer \cup {None} /\ None \in Brief \cup [key : SourceRevisions] \cup {None}
         /\ source \in SourceRevisions /\ briefingClock \in Nat
  BY DEF ProseInv, BriefingTypeOK, WorkerTypeOK, ProseIsWritten, Carries, Carrier

LEMMA RetryType ==
  ASSUME BriefingTypeOK
  PROVE  \A status : RetryAt(status) \in Retries
  BY BriefingAssumption DEF BriefingTypeOK, RetryAt, Retries

LEMMA TechnicalKeepsProse ==
  ASSUME ProseInv, NEW w \in Workers, Decompose(w) \/ SaveDecomposition(w)
  PROVE  ProseInv'
<1>1. CASE Decompose(w)
  <2>1. PICK status \in Statuses, retry \in Retries :
          GoesWith(w, "save technical", [key |-> source], [status |-> status, retry |-> retry])
    BY <1>1, Carried, RetryType DEF Decompose, Statuses, Retries
  <2>. DEFINE brief == [key |-> source]
              answer == [status |-> status, retry |-> retry]
  <2>2. /\ brief \in Brief \cup [key : SourceRevisions] \cup {None} /\ brief.key \in SourceRevisions
        /\ answer \in Answer /\ answer \in Answer \cup {None} /\ "save technical" \in Stages
        /\ GoesWith(w, "save technical", brief, answer)
    BY <2>1, Carried DEF Answer, Stages
  <2>. HIDE DEF brief, answer
  <2>3. /\ worker' \in [Workers -> Carrier] /\ \A v \in Workers \ {w} : worker'[v] = worker[v]
        /\ worker'[w].at = "save technical" /\ worker'[w].brief = brief
        /\ worker'[w].answer = answer
    BY <2>2, WorkerGoes, Carried
  <2>4. Carries(w)'
    BY <2>2, <2>3 DEF Carries, Briefed
  <2>. QED
    BY <1>1, <2>3, <2>4, CycleStep, Carried DEF Decompose
<1>2. CASE SaveDecomposition(w)
  <2>1. /\ worker' \in [Workers -> Carrier] /\ \A v \in Workers \ {w} : worker'[v] = worker[v]
        /\ worker'[w].at = "prepare"
    BY <1>2, WorkerGoes, Carried DEF SaveDecomposition, Stages
  <2>2. Carries(w)'
    BY <2>1 DEF Carries, Briefed
  <2>3. /\ worker[w].brief.key \in SourceRevisions /\ worker[w].answer.status \in Statuses
        /\ worker[w].answer.retry \in Retries
    BY <1>2, Carried DEF SaveDecomposition, Carries, Answer
  <2>4. technical' \subseteq Decomposition
    BY <1>2, <2>3, SavesTechnical, Carried DEF SaveDecomposition
  <2>. QED
    BY <1>2, <2>1, <2>2, <2>4, CycleStep DEF SaveDecomposition
<1>. QED
  BY <1>1, <1>2

LEMMA PrepareKeepsProse ==
  ASSUME ProseInv, NEW w \in Workers, Prepare(w)
  PROVE  ProseInv'
<1>1. Projected \in Brief
      /\ (Projected.mode = "GEMINI_ASSISTED" => Projected.rev \in prose)
  BY ProjectedBrief DEF ProseInv, ProseIsWritten
<1>2. /\ worker' \in [Workers -> Carrier] /\ \A v \in Workers \ {w} : worker'[v] = worker[v]
      /\ worker'[w].at = "persist prepared" /\ worker'[w].brief = Projected
  BY <1>1, WorkerGoes, Carried DEF Prepare, Stages
<1>3. prose' = prose
  BY DEF Prepare
<1>4. Carries(w)'
  BY <1>1, <1>2, <1>3 DEF Carries
<1>. QED
  BY <1>2, <1>3, <1>4, CycleStep, Carried DEF Prepare

\* Rendering shows the cached prose only if its hash, and so its revision, is the brief's.
LEMMA RenderKeepsProse ==
  ASSUME ProseInv, NEW w \in Workers, Render(w)
  PROVE  ProseInv'
<1>. DEFINE assisted == \E row \in Cached(Projected) : row.status = "AVAILABLE"
            brief == IF assisted THEN [Projected EXCEPT !.mode = "GEMINI_ASSISTED"] ELSE Projected
<1>1. Projected \in Brief
      /\ (Projected.mode = "GEMINI_ASSISTED" => Projected.rev \in prose)
  BY ProjectedBrief DEF ProseInv, ProseIsWritten
<1>2. assisted => Projected.rev \in prose
  <2>1. SUFFICES ASSUME assisted PROVE Projected.rev \in prose
    OBVIOUS
  <2>2. synthesis # None /\ synthesis.status = "AVAILABLE" /\ synthesis.hash = Hash(Projected)
    BY <2>1 DEF Cached
  <2>3. Hash(Projected).rev = Projected.rev
    BY DEF Hash
  <2>. QED
    BY <2>2, <2>3 DEF ProseInv, ProseIsWritten
<1>3. brief \in Brief /\ (brief.mode = "GEMINI_ASSISTED" => brief.rev \in prose)
  BY <1>1, <1>2 DEF Brief, Modes
<1>4. GoesWith(w, "persist publication", brief, None) /\ prose' = prose
  BY DEF Render
<1>. HIDE DEF brief
<1>5. /\ worker' \in [Workers -> Carrier] /\ \A v \in Workers \ {w} : worker'[v] = worker[v]
      /\ worker'[w].at = "persist publication" /\ worker'[w].brief = brief
  BY <1>3, <1>4, WorkerGoes, Carried DEF Stages
<1>6. Carries(w)'
  BY <1>3, <1>4, <1>5 DEF Carries
<1>. QED
  BY <1>4, <1>5, <1>6, CycleStep, Carried DEF Render

LEMMA PersistKeepsProse ==
  ASSUME ProseInv, NEW w \in Workers, PersistPrepared(w) \/ PersistPublication(w)
  PROVE  ProseInv'
<1>. DEFINE brief == worker[w].brief
<1>1. /\ brief \in Brief /\ (brief.mode = "GEMINI_ASSISTED" => brief.rev \in prose)
      /\ SaveAssessment(brief) /\ prose' = prose
  BY Carried DEF PersistPrepared, PersistPublication, Carries, Briefed
<1>2. /\ assessments' \subseteq Assessment /\ NewestIsCurrent(assessments')
      /\ \A row \in assessments' :
           \/ row.rev = brief.rev /\ row.mode = brief.mode
           \/ \E old \in assessments : row.rev = old.rev /\ row.mode = old.mode
  BY <1>1, Saves, Carried
<1>3. \A row \in assessments' : row.mode = "GEMINI_ASSISTED" => row.rev \in prose'
  BY <1>1, <1>2 DEF ProseInv, ProseIsWritten
<1>4. CASE PersistPrepared(w)
  <2>1. /\ worker' \in [Workers -> Carrier] /\ \A v \in Workers \ {w} : worker'[v] = worker[v]
        /\ worker'[w].at = "synthesis" /\ worker'[w].brief = brief
    BY <1>4, WorkerMoves, Carried DEF PersistPrepared, Stages
  <2>2. Carries(w)'
    BY <1>1, <2>1 DEF Carries
  <2>. QED
    BY <1>1, <1>2, <1>3, <1>4, <2>1, <2>2, CycleStep, Carried DEF PersistPrepared
<1>5. CASE PersistPublication(w)
  <2>1. /\ worker' \in [Workers -> Carrier] /\ \A v \in Workers \ {w} : worker'[v] = worker[v]
        /\ worker'[w].at = "idle"
    BY <1>5, WorkerGoes, Carried DEF PersistPublication, Stages
  <2>2. Carries(w)'
    BY <2>1 DEF Carries, Briefed
  <2>3. outcome'.published =>
          outcome'.rev \in prose' /\ outcome'.rev.technical.status = "AVAILABLE"
    BY <1>1, <1>5 DEF PersistPublication, PublicationGates
  <2>. QED
    BY <1>1, <1>2, <1>3, <1>5, <2>1, <2>2, <2>3, CycleStep, Carried DEF PersistPublication
<1>. QED
  BY <1>4, <1>5

LEMMA SynthesisKeepsProse ==
  ASSUME ProseInv, NEW w \in Workers,
         SynthesisNotConfigured(w) \/ Synthesize(w) \/ SaveSynthesis(w)
  PROVE  ProseInv'
<1>. DEFINE brief == worker[w].brief
<1>1. brief \in Brief /\ Hash(brief) \in Hashes /\ Hash(brief).rev = brief.rev
  <2>1. brief \in Brief
    BY Carried DEF SynthesisNotConfigured, Synthesize, SaveSynthesis, Carries, Briefed
  <2>. QED
    BY <2>1 DEF Brief, Hashes, Hash
<1>2. CASE SynthesisNotConfigured(w)
  <2>1. /\ worker' \in [Workers -> Carrier] /\ \A v \in Workers \ {w} : worker'[v] = worker[v]
        /\ worker'[w].at = "publication"
    BY <1>2, WorkerGoes, Carried DEF SynthesisNotConfigured, Stages
  <2>2. Carries(w)'
    BY <2>1 DEF Carries, Briefed
  <2>3. synthesis' \in Synthesis /\ synthesis'.status # "AVAILABLE"
    BY <1>1, <1>2 DEF SynthesisNotConfigured, Synthesis, Statuses, Retries
  <2>. QED
    BY <1>2, <2>1, <2>2, <2>3, CycleStep, Carried DEF SynthesisNotConfigured
<1>3. CASE Synthesize(w)
  <2>1. PICK status \in ProviderAnswers :
          /\ prose' = IF status = "AVAILABLE" THEN prose \cup {brief.rev} ELSE prose
          /\ GoesWith(w, "save synthesis", brief, [status |-> status, retry |-> RetryAt(status)])
    BY <1>3 DEF Synthesize
  <2>. DEFINE answer == [status |-> status, retry |-> RetryAt(status)]
  <2>2. /\ answer \in Answer /\ answer \in Answer \cup {None} /\ answer.status = status
        /\ GoesWith(w, "save synthesis", brief, answer)
    BY <2>1, RetryType, Carried DEF Answer, Statuses
  <2>. DEFINE carried == brief
  <2>2a. carried \in Brief \cup [key : SourceRevisions] \cup {None} /\ carried = brief
        /\ GoesWith(w, "save synthesis", carried, answer)
    BY <1>1, <2>2
  <2>. HIDE DEF answer, carried
  <2>2b. BriefingTypeOK /\ "save synthesis" \in Stages
    BY Carried DEF Stages
  <2>2c. /\ worker' \in [Workers -> Carrier] /\ \A v \in Workers \ {w} : worker'[v] = worker[v]
         /\ worker'[w].at = "save synthesis" /\ worker'[w].brief = carried
         /\ worker'[w].answer = answer
    BY <2>2, <2>2a, <2>2b, WorkerGoes
  <2>3. /\ worker' \in [Workers -> Carrier] /\ \A v \in Workers \ {w} : worker'[v] = worker[v]
        /\ worker'[w].at = "save synthesis" /\ worker'[w].brief = brief
        /\ worker'[w].answer = answer
    BY <2>2a, <2>2c
  <2>4. prose \subseteq prose'
    BY <2>1
  <2>5. brief.mode = "GEMINI_ASSISTED" => brief.rev \in prose
    BY <1>3, Carried DEF Synthesize, Carries, Briefed
  <2>6. Carries(w)'
    BY <1>1, <2>1, <2>2, <2>3, <2>5 DEF Carries
  <2>. QED
    BY <1>3, <2>3, <2>4, <2>6, CycleStep, Carried DEF Synthesize
<1>4. CASE SaveSynthesis(w)
  <2>1. /\ worker' \in [Workers -> Carrier] /\ \A v \in Workers \ {w} : worker'[v] = worker[v]
        /\ worker'[w].at = "publication"
    BY <1>4, WorkerGoes, Carried DEF SaveSynthesis, Stages
  <2>2. Carries(w)'
    BY <2>1 DEF Carries, Briefed
  <2>3. /\ worker[w].answer \in Answer
        /\ worker[w].answer.status = "AVAILABLE" => brief.rev \in prose
    BY <1>4, Carried DEF SaveSynthesis, Carries
  <2>4. synthesis' \in Synthesis
        /\ (synthesis'.status = "AVAILABLE" => synthesis'.hash.rev \in prose')
    BY <1>1, <1>4, <2>3 DEF SaveSynthesis, Synthesis, Answer
  <2>. QED
    BY <1>4, <2>1, <2>2, <2>4, CycleStep, Carried DEF SaveSynthesis
<1>. QED
  BY <1>2, <1>3, <1>4

LEMMA InitProse == BriefingInit => ProseInv
<1>. SUFFICES ASSUME BriefingInit PROVE ProseInv
  OBVIOUS
<1>1. BriefingTypeOK
  <2>1. worker \in [Workers -> Carrier] /\ \A w \in Workers : worker[w].at = "idle"
    BY DEF BriefingInit, Carrier, Stages
  <2>2. WorkerTypeOK
    BY <2>1 DEF WorkerTypeOK, Briefed
  <2>3. dated \in BOOLEAN /\ configured \in BOOLEAN /\ disturbed \in BOOLEAN
    BY BriefingAssumption DEF BriefingInit
  <2>. QED
    BY <2>1, <2>2, <2>3, BriefingAssumption DEF BriefingInit, BriefingTypeOK, SourceRevisions
<1>2. NewestIsCurrent(assessments) /\ ProseIsWritten /\ ProseIsAboutItsRevision
  BY DEF BriefingInit, NewestIsCurrent, ProseIsWritten, ProseIsAboutItsRevision, Briefed
<1>. QED
  BY <1>1, <1>2 DEF ProseInv

LEMMA NextKeepsProse == ProseInv /\ [BriefingNext]_briefVars => ProseInv'
<1>. SUFFICES ASSUME ProseInv, [BriefingNext]_briefVars PROVE ProseInv'
  OBVIOUS
<1>1. CASE BriefingTick \/ Configure \/ UNCHANGED briefVars
  <2>1. /\ UNCHANGED <<dated, source, technical, assessments, synthesis, worker, outcome, prose, disturbed>>
        /\ briefingClock' \in Nat
    BY <1>1 DEF BriefingTick, Configure, briefVars, ProseInv, BriefingTypeOK
  <2>2. configured' \in BOOLEAN
    <3>1. CASE configured' = configured
      BY <3>1 DEF ProseInv, BriefingTypeOK
    <3>2. CASE Configure
      BY <3>2, Zenon DEF Configure
    <3>. QED
      BY <1>1, <3>1, <3>2 DEF BriefingTick, briefVars
  <2>. QED
    BY <2>1, <2>2 DEF ProseInv, BriefingTypeOK, WorkerTypeOK, ProseIsWritten, ProseIsAboutItsRevision
<1>2. ASSUME NEW w \in Workers,
             \/ Start(w) \/ SkipTechnical(w) \/ Decompose(w) \/ SaveDecomposition(w)
             \/ Prepare(w) \/ PersistPrepared(w)
             \/ SkipSynthesis(w) \/ SynthesisNotConfigured(w) \/ Synthesize(w) \/ SaveSynthesis(w)
             \/ Render(w) \/ PersistPublication(w) \/ CycleEnds(w)
      PROVE  ProseInv'
  BY <1>2, EmptyHandedKeepsProse, TechnicalKeepsProse, PrepareKeepsProse, PersistKeepsProse,
     RenderKeepsProse, SynthesisKeepsProse
<1>. QED
  BY <1>1, <1>2 DEF BriefingNext

-----------------------------------------------------------------------------
(***************************************************************************)
(* What a cycle decides on is current.                                     *)
(***************************************************************************)
\* The row written for a revision of the current source is current and the newest.
LEMMA SavesDecision ==
  ASSUME ProseInv, DecisionInv, ~disturbed, NEW brief \in Brief, brief.rev.source = source,
         SaveAssessment(brief)
  PROVE  /\ LastRow(assessments').rev = brief.rev
         /\ \A row \in assessments' : row.rev.source <= source
         /\ \A a, b \in assessments' : a.version <= b.version => a.rev.source <= b.rev.source
<1>1. /\ assessments' \subseteq Assessment /\ NewestIsCurrent(assessments')
      /\ \E new \in assessments' :
           /\ new.current /\ new.rev = brief.rev
           /\ \A row \in assessments' :
                /\ row.version <= new.version
                /\ row = new \/ \E old \in assessments :
                                  row.rev = old.rev /\ row.version = old.version
  BY Saves DEF ProseInv, BriefingTypeOK
<1>2. PICK new \in assessments' :
        /\ new.current /\ new.rev = brief.rev
        /\ \A row \in assessments' :
             /\ row.version <= new.version
             /\ row = new \/ \E old \in assessments :
                               row.rev = old.rev /\ row.version = old.version
  BY <1>1
<1>3. LastRow(assessments').rev = brief.rev
  BY <1>1, <1>2 DEF LastRow, NewestIsCurrent
<1>4. /\ \A row \in assessments : row.rev.source <= source
      /\ \A a, b \in assessments : a.version <= b.version => a.rev.source <= b.rev.source
      /\ source \in Nat
  BY BriefingAssumption
  DEF DecisionInv, DecisionIsCurrent, OneWorks, ProseInv, BriefingTypeOK, SourceRevisions
<1>5. \A row \in assessments' : row.rev.source <= source
  BY <1>2, <1>4
<1>6. ASSUME NEW a \in assessments', NEW b \in assessments', a.version <= b.version
      PROVE  a.rev.source <= b.rev.source
  <2>1. CASE b = new
    BY <1>2, <1>5, <2>1
  <2>2. CASE a = new /\ b # new
    <3>1. a.version \in Nat /\ b.version \in Nat
      BY <1>1 DEF Assessment
    <3>2. a.version = b.version
      BY <1>2, <1>6, <2>2, <3>1
    <3>. QED
      BY <1>1, <2>2, <3>2 DEF NewestIsCurrent
  <2>3. CASE a # new /\ b # new
    BY <1>2, <1>4, <1>6, <2>3
  <2>. QED
    BY <2>1, <2>2, <2>3
<1>. QED
  BY <1>3, <1>5, <1>6

\* A worker at work goes on working.
LEMMA WorkGoesOn ==
  ASSUME DecisionInv, NEW w \in Workers, worker[w].at # "idle",
         \A v \in Workers \ {w} : worker'[v] = worker[v],
         ~disturbed /\ worker'[w].at \in Briefed => worker'[w].brief.rev.source = source,
         UNCHANGED <<source, outcome, disturbed>>,
         ~disturbed =>
           /\ \A row \in assessments' : row.rev.source <= source
           /\ \A a, b \in assessments' : a.version <= b.version => a.rev.source <= b.rev.source
  PROVE  DecisionInv'
<1>. SUFFICES ASSUME ~disturbed' PROVE DecisionIsCurrent' /\ OneWorks'
  BY DEF DecisionInv, DecisionIsCurrent
<1>1. ~disturbed /\ OneWorks /\ outcome = None
  BY DEF DecisionInv, OneWorks
<1>2. OneWorks'
  BY <1>1 DEF OneWorks
<1>3. DecisionIsCurrent'
  BY <1>1 DEF DecisionIsCurrent
<1>. QED
  BY <1>2, <1>3

LEMMA WorkKeepsDecision ==
  ASSUME ProseInv, DecisionInv, NEW w \in Workers,
         \/ SkipTechnical(w) \/ Decompose(w) \/ SaveDecomposition(w) \/ Prepare(w)
         \/ SkipSynthesis(w) \/ SynthesisNotConfigured(w) \/ Synthesize(w) \/ SaveSynthesis(w)
         \/ Render(w)
  PROVE  DecisionInv'
<1>1. /\ worker[w].at # "idle" /\ UNCHANGED <<source, outcome, disturbed, assessments>>
  BY DEF SkipTechnical, Decompose, SaveDecomposition, Prepare, SkipSynthesis,
         SynthesisNotConfigured, Synthesize, SaveSynthesis, Render
<1>2. ~disturbed =>
        /\ \A row \in assessments' : row.rev.source <= source
        /\ \A a, b \in assessments' : a.version <= b.version => a.rev.source <= b.rev.source
  BY <1>1 DEF DecisionInv, DecisionIsCurrent, OneWorks
<1>3. worker \in [Workers -> Carrier]
  BY DEF ProseInv, BriefingTypeOK
<1>4. /\ \A v \in Workers \ {w} : worker'[v] = worker[v]
      /\ ~disturbed /\ worker'[w].at \in Briefed => worker'[w].brief.rev.source = source
  <2>1. CASE Prepare(w) \/ Render(w)
    <3>1. /\ \A brief \in Brief : [brief EXCEPT !.mode = "GEMINI_ASSISTED"].rev = brief.rev
          /\ Projected \in Brief /\ Projected.rev.source = source
      BY ProjectedBrief DEF ProseInv, Brief
    <3>2. \E at, brief : GoesWith(w, at, brief, None) /\ brief.rev = Projected.rev
      <4>1. CASE Prepare(w)
        BY <4>1 DEF Prepare
      <4>2. CASE Render(w)
        <5>1. \E brief \in {Projected, [Projected EXCEPT !.mode = "GEMINI_ASSISTED"]} :
                GoesWith(w, "persist publication", brief, None)
          BY <4>2, Zenon DEF Render
        <5>2. [Projected EXCEPT !.mode = "GEMINI_ASSISTED"].rev = Projected.rev
          BY <3>1
        <5>. QED
          BY <5>1, <5>2, Zenon
      <4>. QED
        BY <2>1, <4>1, <4>2
    <3>. QED
      BY <1>3, <3>1, <3>2 DEF GoesWith
  <2>2. CASE \/ SkipTechnical(w) \/ Decompose(w) \/ SaveDecomposition(w) \/ SkipSynthesis(w)
             \/ SynthesisNotConfigured(w) \/ SaveSynthesis(w)
    <3>1. \E at \in Stages \ Briefed :
            Goes(w, at) \/ \E brief, answer : GoesWith(w, at, brief, answer)
      BY <2>2
      DEF SkipTechnical, Decompose, SaveDecomposition, SkipSynthesis, SynthesisNotConfigured,
          SaveSynthesis, Stages, Briefed
    <3>2. PICK at \in Stages \ Briefed :
            Goes(w, at) \/ \E brief, answer : GoesWith(w, at, brief, answer)
      BY <3>1
    <3>3. CASE Goes(w, at)
      BY <1>3, <3>2, <3>3 DEF Goes, Carrier
    <3>4. CASE \E brief, answer : GoesWith(w, at, brief, answer)
      BY <1>3, <3>2, <3>4 DEF GoesWith
    <3>. QED
      BY <3>2, <3>3, <3>4
  <2>3. CASE Synthesize(w)
    <3>1. ~disturbed => worker[w].brief.rev.source = source
      BY <2>3 DEF DecisionInv, OneWorks, Synthesize, Briefed
    <3>2. PICK answer : GoesWith(w, "save synthesis", worker[w].brief, answer)
      BY <2>3 DEF Synthesize
    <3>. QED
      BY <1>3, <3>1, <3>2 DEF GoesWith
  <2>. QED
    BY <2>1, <2>2, <2>3
<1>. QED
  BY <1>1, <1>2, <1>4, WorkGoesOn

LEMMA PersistKeepsDecision ==
  ASSUME ProseInv, DecisionInv, NEW w \in Workers, PersistPrepared(w) \/ PersistPublication(w)
  PROVE  DecisionInv'
<1>. DEFINE brief == worker[w].brief
<1>1. /\ brief \in Brief /\ SaveAssessment(brief) /\ worker[w].at # "idle"
      /\ UNCHANGED <<source, disturbed>> /\ worker \in [Workers -> Carrier]
  BY Carried DEF PersistPrepared, PersistPublication, Carries, Briefed, BriefingTypeOK
<1>2. ~disturbed => brief.rev.source = source
  BY DEF DecisionInv, OneWorks, PersistPrepared, PersistPublication, Briefed
<1>3. ~disturbed =>
        /\ LastRow(assessments').rev = brief.rev
        /\ \A row \in assessments' : row.rev.source <= source
        /\ \A a, b \in assessments' : a.version <= b.version => a.rev.source <= b.rev.source
  BY <1>1, <1>2, SavesDecision
<1>4. CASE PersistPrepared(w)
  <2>1. /\ \A v \in Workers \ {w} : worker'[v] = worker[v]
        /\ worker'[w].brief = brief
    BY <1>1, <1>4 DEF PersistPrepared, Goes, Carrier
  <2>. QED
    BY <1>1, <1>2, <1>3, <1>4, <2>1, WorkGoesOn DEF PersistPrepared
<1>5. CASE PersistPublication(w)
  <2>. SUFFICES ASSUME ~disturbed' PROVE DecisionIsCurrent' /\ OneWorks'
    BY DEF DecisionInv, DecisionIsCurrent
  <2>1. ~disturbed /\ OneWorks
    BY <1>1 DEF DecisionInv
  <2>2. \A v \in Workers : worker'[v].at = "idle"
    BY <1>1, <1>5, <2>1 DEF PersistPublication, GoesWith, OneWorks
  <2>3. OneWorks'
    BY <1>1, <1>3, <2>1, <2>2 DEF OneWorks, Briefed
  <2>4. outcome'.rev = brief.rev
    BY <1>5 DEF PersistPublication
  <2>5. DecisionIsCurrent'
    BY <1>1, <1>2, <1>3, <2>1, <2>4 DEF DecisionIsCurrent
  <2>. QED
    BY <2>3, <2>5
<1>. QED
  BY <1>4, <1>5

\* A cycle that starts beside another disturbs; one that ends leaves no one at work.
LEMMA CyclesKeepDecision ==
  ASSUME ProseInv, DecisionInv, NEW w \in Workers, Start(w) \/ CycleEnds(w)
  PROVE  DecisionInv'
<1>. SUFFICES ASSUME ~disturbed' PROVE DecisionIsCurrent' /\ OneWorks'
  BY DEF DecisionInv, DecisionIsCurrent
<1>1. /\ ~disturbed /\ OneWorks /\ assessments' = assessments
      /\ Start(w) => \A v \in Workers \ {w} : worker[v].at = "idle"
  BY Zenon DEF Start, CycleEnds, Disturbs, DecisionInv
<1>2. /\ worker \in [Workers -> Carrier] /\ source \in Nat
      /\ \A row \in assessments : row.rev.source \in Nat
  BY BriefingAssumption DEF ProseInv, BriefingTypeOK, SourceRevisions, Assessment, Rev
<1>3. \A a, b \in assessments : a.version <= b.version => a.rev.source <= b.rev.source
  BY <1>1 DEF DecisionInv, DecisionIsCurrent
<1>4. CASE Start(w)
  <2>1. /\ worker'[w].at = "technical" /\ \A v \in Workers \ {w} : worker'[v].at = "idle"
        /\ outcome' = None
    BY <1>1, <1>2, <1>4 DEF Start, GoesWith
  <2>2. source <= source' /\ source' \in Nat
    BY <1>2, <1>4 DEF Start
  <2>3. \A row \in assessments' : row.rev.source <= source'
    BY <1>1, <1>2, <2>2 DEF OneWorks
  <2>. QED
    BY <1>1, <1>3, <2>1, <2>3 DEF OneWorks, DecisionIsCurrent, Briefed
<1>5. CASE CycleEnds(w)
  <2>1. /\ worker'[w].at = "idle" /\ \A v \in Workers \ {w} : worker'[v] = worker[v]
        /\ outcome' = None /\ source' = source
    BY <1>1, <1>2, <1>5 DEF CycleEnds, GoesWith, OneWorks
  <2>2. OneWorks'
    BY <1>1, <2>1 DEF OneWorks, Briefed
  <2>. QED
    BY <1>1, <1>3, <2>1, <2>2 DEF DecisionIsCurrent
<1>. QED
  BY <1>4, <1>5

LEMMA NextKeepsDecision ==
  ASSUME ProseInv, DecisionInv, [BriefingNext]_briefVars
  PROVE  DecisionInv'
<1>1. CASE BriefingTick \/ Configure \/ UNCHANGED briefVars
  <2>1. UNCHANGED <<source, assessments, worker, outcome, disturbed>>
    BY <1>1 DEF BriefingTick, Configure, briefVars
  <2>. QED
    BY <2>1 DEF DecisionInv, DecisionIsCurrent, OneWorks
<1>2. ASSUME NEW w \in Workers,
             \/ Start(w) \/ SkipTechnical(w) \/ Decompose(w) \/ SaveDecomposition(w)
             \/ Prepare(w) \/ PersistPrepared(w)
             \/ SkipSynthesis(w) \/ SynthesisNotConfigured(w) \/ Synthesize(w) \/ SaveSynthesis(w)
             \/ Render(w) \/ PersistPublication(w) \/ CycleEnds(w)
      PROVE  DecisionInv'
  BY <1>2, CyclesKeepDecision, WorkKeepsDecision, PersistKeepsDecision
<1>. QED
  BY <1>1, <1>2 DEF BriefingNext

-----------------------------------------------------------------------------
(***************************************************************************)
(* What the provider is asked again.                                       *)
(***************************************************************************)
\* The last answer about a cache stays where it is, or is forgotten.
LEMMA TechnicalStays ==
  ASSUME TechnicalIsKept, NEW w \in Workers, \A v \in Workers \ {w} : worker'[v] = worker[v],
         worker[w].at # "save technical", worker'[w].at # "save technical",
         asked'["technical"] = asked["technical"] \/ asked'["technical"] = None,
         technical' = technical
  PROVE  TechnicalIsKept'
<1>1. NobodySaves("save technical")' => NobodySaves("save technical")
  BY DEF NobodySaves
<1>2. CASE asked'["technical"] = asked["technical"]
  BY <1>1, <1>2 DEF TechnicalIsKept
<1>3. CASE asked'["technical"] = None
  BY <1>3 DEF TechnicalIsKept
<1>. QED
  BY <1>2, <1>3

LEMMA SynthesisStays ==
  ASSUME SynthesisIsKept, NEW w \in Workers, \A v \in Workers \ {w} : worker'[v] = worker[v],
         worker[w].at # "save synthesis", worker'[w].at # "save synthesis",
         asked'["synthesis"] = asked["synthesis"] \/ asked'["synthesis"] = None,
         synthesis' = synthesis, dated' = dated
  PROVE  SynthesisIsKept'
<1>1. NobodySaves("save synthesis")' => NobodySaves("save synthesis")
  BY DEF NobodySaves
<1>2. CASE asked'["synthesis"] = asked["synthesis"]
  BY <1>1, <1>2 DEF SynthesisIsKept
<1>3. CASE asked'["synthesis"] = None
  BY <1>3 DEF SynthesisIsKept
<1>. QED
  BY <1>2, <1>3

\* A step that asks nothing and saves no answer.
LEMMA NothingIsAsked ==
  ASSUME AskedInv, NEW w \in Workers, \A v \in Workers \ {w} : worker'[v] = worker[v],
         worker[w].at \notin {"save technical", "save synthesis"},
         worker'[w].at \notin {"save technical", "save synthesis"},
         dated /\ worker'[w].at \in Briefed => worker'[w].brief.timing = "DATED",
         UNCHANGED <<dated, technical, synthesis, asked, disturbed, repeated>>
  PROVE  AskedInv'
<1>1. TechnicalIsKept'
  BY TechnicalStays DEF AskedInv
<1>2. SynthesisIsKept'
  BY SynthesisStays DEF AskedInv
<1>3. DatedBriefs'
  BY DEF AskedInv, DatedBriefs
<1>. QED
  BY <1>1, <1>2, <1>3 DEF AskedInv, ProviderIsAskedSparingly

\* Steps that neither ask nor save an answer.
LEMMA QuietKeepsAsked ==
  ASSUME ProseInv, AskedInv, NEW w \in Workers,
         \/ SkipTechnical(w) \/ Prepare(w) \/ PersistPrepared(w) \/ SkipSynthesis(w)
         \/ Render(w) \/ PersistPublication(w)
  PROVE  AskedInv'
<1>1. worker \in [Workers -> Carrier]
  BY DEF ProseInv, BriefingTypeOK
<1>2. /\ UNCHANGED <<dated, technical, synthesis, asked, disturbed, repeated>>
      /\ worker[w].at \notin {"save technical", "save synthesis"}
  BY DEF SkipTechnical, Prepare, PersistPrepared, SkipSynthesis, Render, PersistPublication
<1>3. CASE SkipTechnical(w) \/ SkipSynthesis(w) \/ PersistPublication(w)
  <2>1. /\ worker'[w].at \in {"prepare", "publication", "idle"}
        /\ \A v \in Workers \ {w} : worker'[v] = worker[v]
    <3>1. CASE SkipTechnical(w)
      BY <1>1, <3>1 DEF SkipTechnical, Goes, Carrier
    <3>2. CASE SkipSynthesis(w)
      BY <1>1, <3>2 DEF SkipSynthesis, GoesWith
    <3>3. CASE PersistPublication(w)
      BY <1>1, <3>3 DEF PersistPublication, GoesWith
    <3>. QED
      BY <1>3, <3>1, <3>2, <3>3
  <2>. QED
    BY <1>2, <2>1, NothingIsAsked DEF Briefed
<1>4. CASE PersistPrepared(w)
  <2>1. /\ worker'[w].at = "synthesis" /\ worker'[w].brief = worker[w].brief
        /\ \A v \in Workers \ {w} : worker'[v] = worker[v]
    BY <1>1, <1>4 DEF PersistPrepared, Goes, Carrier
  <2>2. dated => worker[w].brief.timing = "DATED"
    BY <1>4 DEF PersistPrepared, AskedInv, DatedBriefs, Briefed
  <2>. QED
    BY <1>2, <2>1, <2>2, NothingIsAsked
<1>5. CASE Prepare(w) \/ Render(w)
  <2>1. /\ Projected \in Brief /\ (dated => Projected.timing = "DATED")
        /\ [Projected EXCEPT !.mode = "GEMINI_ASSISTED"].timing = Projected.timing
    <3>1. \A brief \in Brief : [brief EXCEPT !.mode = "GEMINI_ASSISTED"].timing = brief.timing
      BY DEF Brief
    <3>. QED
      BY <3>1, ProjectedBrief DEF ProseInv
  <2>2. \E at \in {"persist prepared", "persist publication"},
           brief \in {Projected, [Projected EXCEPT !.mode = "GEMINI_ASSISTED"]} :
             GoesWith(w, at, brief, None)
    BY <1>5, Zenon DEF Prepare, Render
  <2>3. PICK at \in {"persist prepared", "persist publication"},
            brief \in {Projected, [Projected EXCEPT !.mode = "GEMINI_ASSISTED"]} :
              GoesWith(w, at, brief, None)
    BY <2>2
  <2>4. brief.timing = Projected.timing
    BY <2>1, <2>3, Zenon
  <2>5. /\ worker'[w].at = at /\ worker'[w].brief = brief
        /\ \A v \in Workers \ {w} : worker'[v] = worker[v]
    BY <1>1, <2>3 DEF GoesWith
  <2>. QED
    BY <1>2, <2>1, <2>3, <2>4, <2>5, NothingIsAsked
<1>. QED
  BY <1>3, <1>4, <1>5

\* A cycle that starts beside another, or ends with an answer in hand, makes all forgotten.
LEMMA CyclesKeepAsked ==
  ASSUME ProseInv, AskedInv, NEW w \in Workers, Start(w) \/ CycleEnds(w)
  PROVE  AskedInv'
<1>1. worker \in [Workers -> Carrier]
  BY DEF ProseInv, BriefingTypeOK
<1>2. /\ worker'[w].at \in {"technical", "idle"}
      /\ \A v \in Workers \ {w} : worker'[v] = worker[v]
      /\ UNCHANGED <<dated, technical, synthesis, repeated>>
  <2>1. GoesWith(w, "technical", None, None) \/ GoesWith(w, "idle", None, None)
    BY DEF Start, CycleEnds
  <2>2. UNCHANGED <<dated, technical, synthesis, repeated>>
    BY DEF Start, CycleEnds
  <2>. QED
    BY <1>1, <2>1, <2>2 DEF GoesWith
<1>3. CASE disturbed'
  <2>1. asked' = [cache \in Caches |-> None]
    BY <1>3, Zenon DEF Start, CycleEnds, Disturbs
  <2>2. TechnicalIsKept' /\ SynthesisIsKept'
    BY <2>1 DEF TechnicalIsKept, SynthesisIsKept, Caches
  <2>3. DatedBriefs'
    BY <1>2 DEF AskedInv, DatedBriefs, Briefed
  <2>. QED
    BY <1>2, <2>1, <2>2, <2>3 DEF AskedInv, ProviderIsAskedSparingly
<1>4. CASE ~disturbed'
  <2>1. asked' = asked /\ ~disturbed
    BY <1>4, Zenon DEF Start, CycleEnds, Disturbs
  <2>2. worker[w].at \notin {"save technical", "save synthesis"}
    <3>1. CASE Start(w)
      BY <3>1 DEF Start
    <3>2. CASE CycleEnds(w)
      BY <1>4, <3>2, Zenon DEF CycleEnds, Disturbs
    <3>. QED
      BY <3>1, <3>2
  <2>3. TechnicalIsKept'
    BY <1>2, <2>1, <2>2, TechnicalStays DEF AskedInv
  <2>4. SynthesisIsKept'
    BY <1>2, <2>1, <2>2, SynthesisStays DEF AskedInv
  <2>5. DatedBriefs'
    BY <1>2 DEF AskedInv, DatedBriefs, Briefed
  <2>. QED
    BY <1>2, <1>4, <2>1, <2>3, <2>4, <2>5 DEF AskedInv, ProviderIsAskedSparingly
<1>. QED
  BY <1>3, <1>4

\* A call asks nothing that is still waiting or was answered.
LEMMA CallIsNew ==
  ASSUME NEW cache \in Caches, NEW key, NEW rev, NEW answer \in ProviderAnswers,
         AskProvider(cache, key, rev, answer), ProviderIsAskedSparingly,
         ~disturbed /\ asked[cache] # None =>
           /\ asked[cache].key = key => ~(asked[cache].answer = "TIMEOUT"
                                          /\ briefingClock < asked[cache].at + Cooldown)
           /\ asked[cache].key = key => asked[cache].answer # "AVAILABLE"
           /\ dated /\ asked[cache].rev = rev => asked[cache].answer # "AVAILABLE",
         dated' = dated
  PROVE  ProviderIsAskedSparingly'
<1>1. CASE disturbed \/ asked[cache] = None
  <2>1. repeated' = repeated
    BY <1>1 DEF AskProvider
  <2>. QED
    BY <2>1 DEF ProviderIsAskedSparingly
<1>2. CASE ~disturbed /\ asked[cache] # None
  <2>. DEFINE last == asked[cache]
  <2>1. repeated' = repeated
          \cup (IF last.key = key /\ last.answer = "TIMEOUT" /\ briefingClock < last.at + Cooldown
                THEN {"early"} ELSE {})
          \cup (IF last.key = key /\ last.answer = "AVAILABLE" THEN {"answered"} ELSE {})
          \cup (IF last.rev = rev /\ last.answer = "AVAILABLE" THEN {"unchanged"} ELSE {})
    BY <1>2 DEF AskProvider
  <2>2. repeated' \subseteq repeated \cup {"unchanged"} /\ (dated => repeated' = repeated)
    BY <1>2, <2>1
  <2>. QED
    BY <2>2 DEF ProviderIsAskedSparingly
<1>. QED
  BY <1>1, <1>2

LEMMA DecomposeKeepsAsked ==
  ASSUME ProseInv, DecisionInv, AskedInv, NEW w \in Workers, Decompose(w)
  PROVE  AskedInv'
<1>1. /\ worker \in [Workers -> Carrier] /\ source \in SourceRevisions
      /\ briefingClock \in Nat /\ Cooldown \in Nat
  BY BriefingAssumption DEF ProseInv, BriefingTypeOK
<1>2. /\ worker[w].at = "technical" /\ UNCHANGED <<dated, technical, synthesis, disturbed>>
      /\ \A row \in CachedTechnical : row.status # "AVAILABLE" /\ ~Waits(row)
  BY DEF Decompose
<1>3. /\ worker'[w].at = "save technical" /\ worker'[w].brief.key = source
      /\ \A v \in Workers \ {w} : worker'[v] = worker[v]
  <2>1. PICK answer : GoesWith(w, "save technical", [key |-> source], answer)
    BY DEF Decompose
  <2>. QED
    BY <1>1, <2>1 DEF GoesWith
<1>4. DatedBriefs'
  BY <1>2, <1>3 DEF AskedInv, DatedBriefs, Briefed
<1>5. asked = [cache \in Caches |-> asked[cache]]
  BY DEF AskedInv
<1>6. CASE configured
  <2>1. PICK answer \in ProviderAnswers :
          /\ AskProvider("technical", source, source, answer)
          /\ GoesWith(w, "save technical", [key |-> source],
                      [status |-> answer, retry |-> RetryAt(answer)])
    BY <1>6 DEF Decompose
  <2>. DEFINE last == asked["technical"]
  <2>2. ASSUME ~disturbed
        PROVE  \A v \in Workers : worker[v].at # "idle" => v = w
    BY <1>2, <2>2 DEF DecisionInv, OneWorks
  <2>3. ASSUME ~disturbed, last # None, last.key = source
        PROVE  /\ last.answer # "AVAILABLE"
               /\ ~(last.answer = "TIMEOUT" /\ briefingClock < last.at + Cooldown)
    <3>1. NobodySaves("save technical")
      BY <1>2, <2>2, <2>3 DEF NobodySaves
    <3>2. PICK row \in technical : row.current /\ Recalls(last, row.key, row.status, row.retry)
      BY <2>3, <3>1 DEF AskedInv, TechnicalIsKept
    <3>3. row \in CachedTechnical
      BY <2>3, <3>2 DEF CachedTechnical, CurrentOf, Recalls
    <3>4. last.at \in Nat
      BY <2>3 DEF AskedInv, TechnicalIsKept, CallsOf
    <3>. QED
      BY <1>1, <1>2, <3>2, <3>3, <3>4, BriefingAssumption DEF Recalls, Waits
  <2>4. last # None => last.rev = last.key
    BY DEF AskedInv, TechnicalIsKept
  <2>5. ProviderIsAskedSparingly'
    BY <1>2, <2>1, <2>3, <2>4, CallIsNew DEF Caches, AskedInv
  <2>6. CASE disturbed
    <3>1. asked' = asked /\ asked["technical"] = None /\ asked["synthesis"] = None
      BY <2>1, <2>6 DEF AskProvider, AskedInv, Caches
    <3>2. TechnicalIsKept' /\ SynthesisIsKept'
      BY <3>1 DEF TechnicalIsKept, SynthesisIsKept
    <3>. QED
      BY <1>2, <1>4, <2>5, <3>1, <3>2 DEF AskedInv
  <2>7. CASE ~disturbed
    <3>. DEFINE call == [key |-> source, rev |-> source, answer |-> answer, at |-> briefingClock]
    <3>1. asked' = [asked EXCEPT !["technical"] = call]
      BY <2>1, <2>7 DEF AskProvider
    <3>2. /\ asked'["technical"] = call /\ asked'["synthesis"] = asked["synthesis"]
          /\ asked' = [cache \in Caches |-> asked'[cache]]
      BY <1>5, <3>1 DEF Caches
    <3>3. SynthesisIsKept'
      BY <1>2, <1>3, <3>2, SynthesisStays DEF AskedInv
    <3>4. call \in CallsOf(SourceRevisions, SourceRevisions) /\ call.rev = call.key
      BY <1>1 DEF CallsOf
    <3>5. Recalls(call, worker'[w].brief.key, worker'[w].answer.status, worker'[w].answer.retry)
      BY <1>1, <2>1 DEF Recalls, GoesWith, RetryAt
    <3>6. \A v \in Workers : worker'[v].at = "save technical" => v = w
      BY <1>3, <2>2, <2>7
    <3>. HIDE DEF call
    <3>7. TechnicalIsKept'
      BY <1>3, <3>2, <3>4, <3>5, <3>6 DEF TechnicalIsKept, NobodySaves
    <3>. QED
      BY <1>2, <1>4, <2>5, <2>7, <3>2, <3>3, <3>7 DEF AskedInv
  <2>. QED
    BY <2>6, <2>7
<1>7. CASE ~configured
  <2>1. asked' = [asked EXCEPT !["technical"] = None] /\ repeated' = repeated
    BY <1>7 DEF Decompose
  <2>2. /\ asked'["technical"] = None /\ asked'["synthesis"] = asked["synthesis"]
        /\ asked' = [cache \in Caches |-> asked'[cache]]
    BY <1>5, <2>1 DEF Caches
  <2>3. SynthesisIsKept'
    BY <1>2, <1>3, <2>2, SynthesisStays DEF AskedInv
  <2>4. TechnicalIsKept'
    BY <2>2 DEF TechnicalIsKept
  <2>5. disturbed' => \A cache \in Caches : asked'[cache] = None
    BY <1>2, <2>2 DEF AskedInv, Caches
  <2>. QED
    BY <1>2, <1>4, <2>1, <2>2, <2>3, <2>4, <2>5 DEF AskedInv, ProviderIsAskedSparingly
<1>. QED
  BY <1>6, <1>7

LEMMA SynthesizeKeepsAsked ==
  ASSUME ProseInv, DecisionInv, AskedInv, NEW w \in Workers, Synthesize(w)
  PROVE  AskedInv'
<1>. DEFINE brief == worker[w].brief
            last == asked["synthesis"]
<1>1. /\ worker \in [Workers -> Carrier] /\ briefingClock \in Nat /\ Cooldown \in Nat
      /\ brief \in Brief /\ brief.rev \in Rev /\ Hash(brief) \in Hashes
      /\ Hash(brief).rev = brief.rev /\ Hash(brief).timing = brief.timing
      /\ dated => brief.timing = "DATED"
  <2>1. brief \in Brief
    BY Carried DEF Synthesize, Carries, Briefed
  <2>2. dated => brief.timing = "DATED"
    BY DEF Synthesize, AskedInv, DatedBriefs, Briefed
  <2>. QED
    BY <2>1, <2>2, BriefingAssumption DEF ProseInv, BriefingTypeOK, Brief, Hash, Hashes
<1>2. /\ worker[w].at = "synthesis" /\ UNCHANGED <<dated, technical, synthesis, disturbed>>
      /\ \A row \in Cached(brief) : row.status # "AVAILABLE" /\ ~Waits(row)
  BY DEF Synthesize
<1>3. PICK answer \in ProviderAnswers :
        /\ AskProvider("synthesis", Hash(brief), brief.rev, answer)
        /\ GoesWith(w, "save synthesis", brief, [status |-> answer, retry |-> RetryAt(answer)])
  BY DEF Synthesize
<1>4. /\ worker'[w].at = "save synthesis" /\ worker'[w].brief = brief
      /\ worker'[w].answer.status = answer /\ worker'[w].answer.retry = RetryAt(answer)
      /\ \A v \in Workers \ {w} : worker'[v] = worker[v]
  BY <1>1, <1>3 DEF GoesWith, RetryAt
<1>5. DatedBriefs'
  BY <1>1, <1>2, <1>4 DEF AskedInv, DatedBriefs
<1>6. asked = [cache \in Caches |-> asked[cache]]
  BY DEF AskedInv
<1>7. ASSUME ~disturbed
      PROVE  \A v \in Workers : worker[v].at # "idle" => v = w
  BY <1>2, <1>7 DEF DecisionInv, OneWorks
<1>8. ASSUME ~disturbed, last # None, last.key = Hash(brief)
      PROVE  /\ last.answer # "AVAILABLE"
             /\ ~(last.answer = "TIMEOUT" /\ briefingClock < last.at + Cooldown)
  <2>1. NobodySaves("save synthesis")
    BY <1>2, <1>7, <1>8 DEF NobodySaves
  <2>2. synthesis # None /\ Recalls(last, synthesis.hash, synthesis.status, synthesis.retry)
    BY <1>8, <2>1 DEF AskedInv, SynthesisIsKept
  <2>3. synthesis \in Cached(brief)
    BY <1>8, <2>2 DEF Cached, Recalls
  <2>4. last.at \in Nat
    BY <1>8 DEF AskedInv, SynthesisIsKept, CallsOf
  <2>. QED
    BY <1>1, <1>2, <2>2, <2>3, <2>4, BriefingAssumption DEF Recalls, Waits
<1>9. ASSUME ~disturbed, last # None, dated, last.rev = brief.rev
      PROVE  last.key = Hash(brief)
  <2>1. last.key \in Hashes /\ last.key.rev = brief.rev /\ last.key.timing = "DATED"
    BY <1>9 DEF AskedInv, SynthesisIsKept, CallsOf
  <2>. QED
    BY <1>1, <1>9, <2>1 DEF Hashes
<1>10. ProviderIsAskedSparingly'
  BY <1>2, <1>3, <1>8, <1>9, CallIsNew DEF Caches, AskedInv
<1>11. CASE disturbed
  <2>1. asked' = asked /\ asked["technical"] = None /\ asked["synthesis"] = None
    BY <1>3, <1>11 DEF AskProvider, AskedInv, Caches
  <2>2. TechnicalIsKept' /\ SynthesisIsKept'
    BY <2>1 DEF TechnicalIsKept, SynthesisIsKept
  <2>. QED
    BY <1>2, <1>5, <1>10, <2>1, <2>2 DEF AskedInv
<1>12. CASE ~disturbed
  <2>. DEFINE call == [key |-> Hash(brief), rev |-> brief.rev, answer |-> answer,
                       at |-> briefingClock]
  <2>1. asked' = [asked EXCEPT !["synthesis"] = call]
    BY <1>3, <1>12 DEF AskProvider
  <2>2. /\ asked'["synthesis"] = call /\ asked'["technical"] = asked["technical"]
        /\ asked' = [cache \in Caches |-> asked'[cache]]
    BY <1>6, <2>1 DEF Caches
  <2>3. TechnicalIsKept'
    BY <1>2, <1>4, <2>2, TechnicalStays DEF AskedInv
  <2>4. /\ call \in CallsOf(Hashes, Rev) /\ call.rev = call.key.rev
        /\ dated => call.key.timing = "DATED"
    BY <1>1 DEF CallsOf
  <2>5. Recalls(call, Hash(brief), worker'[w].answer.status, worker'[w].answer.retry)
    <3>1. call.key = Hash(brief) /\ call.answer = answer /\ call.at = briefingClock
      OBVIOUS
    <3>2. answer = "TIMEOUT" => RetryAt(answer) = briefingClock + Cooldown
      BY DEF RetryAt
    <3>. HIDE DEF call, brief
    <3>. QED
      BY <1>4, <3>1, <3>2 DEF Recalls
  <2>6. Hash(worker'[w].brief) = Hash(brief)
    BY <1>4 DEF Hash
  <2>7. \A v \in Workers : worker'[v].at = "save synthesis" => v = w
    BY <1>4, <1>7, <1>12
  <2>. HIDE DEF call
  <2>8. SynthesisIsKept'
    <3>1. \A v \in Workers : worker'[v].at = "save synthesis" =>
            Recalls(call, Hash(worker'[v].brief), worker'[v].answer.status, worker'[v].answer.retry)
      BY <2>5, <2>6, <2>7
    <3>2. ~NobodySaves("save synthesis")'
      BY <1>4 DEF NobodySaves
    <3>3. dated' => call.key.timing = "DATED"
      BY <1>2, <2>4
    <3>. QED
      BY <2>2, <2>4, <3>1, <3>2, <3>3 DEF SynthesisIsKept
  <2>. QED
    BY <1>2, <1>5, <1>10, <1>12, <2>2, <2>3, <2>8 DEF AskedInv
<1>. QED
  BY <1>11, <1>12

\* Without a provider the attempt is kept, and what was asked before forgotten.
LEMMA NotConfiguredKeepsAsked ==
  ASSUME ProseInv, AskedInv, NEW w \in Workers, SynthesisNotConfigured(w)
  PROVE  AskedInv'
<1>1. worker \in [Workers -> Carrier]
  BY DEF ProseInv, BriefingTypeOK
<1>2. /\ worker[w].at = "synthesis" /\ UNCHANGED <<dated, technical, disturbed, repeated>>
      /\ worker'[w].at = "publication" /\ \A v \in Workers \ {w} : worker'[v] = worker[v]
  BY <1>1 DEF SynthesisNotConfigured, GoesWith
<1>3. /\ asked'["synthesis"] = None /\ asked'["technical"] = asked["technical"]
      /\ asked' = [cache \in Caches |-> asked'[cache]]
  BY DEF SynthesisNotConfigured, AskedInv, Caches
<1>4. TechnicalIsKept'
  BY <1>2, <1>3, TechnicalStays DEF AskedInv
<1>5. SynthesisIsKept'
  BY <1>3 DEF SynthesisIsKept
<1>6. disturbed' => \A cache \in Caches : asked'[cache] = None
  BY <1>2, <1>3 DEF AskedInv, Caches
<1>7. DatedBriefs'
  BY <1>2 DEF AskedInv, DatedBriefs, Briefed
<1>. QED
  BY <1>2, <1>3, <1>4, <1>5, <1>6, <1>7 DEF AskedInv, ProviderIsAskedSparingly

\* An answer that is saved is in its cache, where the carrier left it.
LEMMA SavesKeepAsked ==
  ASSUME ProseInv, DecisionInv, AskedInv, NEW w \in Workers,
         SaveDecomposition(w) \/ SaveSynthesis(w)
  PROVE  AskedInv'
<1>1. /\ worker \in [Workers -> Carrier]
      /\ worker[w].at \in {"save technical", "save synthesis"}
      /\ UNCHANGED <<dated, asked, disturbed, repeated>>
  BY DEF ProseInv, BriefingTypeOK, SaveDecomposition, SaveSynthesis
<1>2. /\ worker'[w].at \in {"prepare", "publication"}
      /\ \A v \in Workers \ {w} : worker'[v] = worker[v]
  <2>1. CASE SaveDecomposition(w)
    BY <1>1, <2>1 DEF SaveDecomposition, GoesWith
  <2>2. CASE SaveSynthesis(w)
    BY <1>1, <2>2 DEF SaveSynthesis, GoesWith
  <2>. QED
    BY <2>1, <2>2
<1>3. ASSUME ~disturbed
      PROVE  \A v \in Workers : worker[v].at # "idle" => v = w
  BY <1>1, <1>3 DEF DecisionInv, OneWorks
<1>4. DatedBriefs'
  BY <1>1, <1>2 DEF AskedInv, DatedBriefs, Briefed
<1>5. TechnicalIsKept' /\ SynthesisIsKept'
  <2>1. CASE disturbed
    BY <1>1, <2>1 DEF AskedInv, Caches, TechnicalIsKept, SynthesisIsKept
  <2>2. CASE ~disturbed /\ SaveDecomposition(w)
    <3>1. SynthesisIsKept'
      BY <1>1, <1>2, <2>2, SynthesisStays DEF AskedInv, SaveDecomposition
    <3>2. \A v \in Workers : worker'[v].at # "save technical"
      BY <1>2, <1>3, <2>2
    <3>3. \E row \in technical' :
            /\ row.current /\ row.key = worker[w].brief.key
            /\ row.status = worker[w].answer.status /\ row.retry = worker[w].answer.retry
      <4>. DEFINE key == worker[w].brief.key
                  status == worker[w].answer.status
                  retry == worker[w].answer.retry
      <4>1. /\ key \in SourceRevisions /\ status \in Statuses /\ retry \in Retries
            /\ SaveTechnical(key, status, retry) /\ technical \subseteq Decomposition
        BY <2>2, Carried DEF SaveDecomposition, Carries, Answer
      <4>. HIDE DEF key, status, retry
      <4>2. \E row \in technical' :
              row.current /\ row.key = key /\ row.status = status /\ row.retry = retry
        BY <4>1, SavesTechnical
      <4>. QED
        BY <4>2 DEF key, status, retry
    <3>4. TechnicalIsKept'
      BY <1>1, <2>2, <3>2, <3>3 DEF AskedInv, TechnicalIsKept, Recalls, SaveDecomposition
    <3>. QED
      BY <3>1, <3>4
  <2>3. CASE ~disturbed /\ SaveSynthesis(w)
    <3>1. TechnicalIsKept'
      BY <1>1, <1>2, <2>3, TechnicalStays DEF AskedInv, SaveSynthesis
    <3>2. \A v \in Workers : worker'[v].at # "save synthesis"
      BY <1>2, <1>3, <2>3
    <3>3. /\ synthesis'.hash = Hash(worker[w].brief)
          /\ synthesis'.status = worker[w].answer.status
          /\ synthesis'.retry = worker[w].answer.retry
      BY <2>3 DEF SaveSynthesis
    <3>4. synthesis' # None
      <4>1. /\ Hash(worker[w].brief) \in Hashes /\ worker[w].answer.status \in Statuses
            /\ worker[w].answer.retry \in Retries
        BY <2>3, Carried DEF SaveSynthesis, Carries, Answer, Briefed, Brief, Hash, Hashes
      <4>2. synthesis' \in Synthesis
        BY <2>3, <4>1 DEF SaveSynthesis, Synthesis
      <4>. QED
        BY <4>2, BriefingAssumption
    <3>5. asked["synthesis"] # None =>
            Recalls(asked["synthesis"], synthesis'.hash, synthesis'.status, synthesis'.retry)
      BY <1>1, <2>3, <3>3 DEF AskedInv, SynthesisIsKept, SaveSynthesis
    <3>6. SynthesisIsKept'
      BY <1>1, <3>2, <3>4, <3>5 DEF AskedInv, SynthesisIsKept
    <3>. QED
      BY <3>1, <3>6
  <2>. QED
    BY <2>1, <2>2, <2>3
<1>. QED
  BY <1>1, <1>4, <1>5 DEF AskedInv, ProviderIsAskedSparingly

LEMMA NextKeepsAsked ==
  ASSUME ProseInv, DecisionInv, AskedInv, [BriefingNext]_briefVars
  PROVE  AskedInv'
<1>1. CASE BriefingTick \/ Configure \/ UNCHANGED briefVars
  <2>1. UNCHANGED <<dated, technical, synthesis, worker, asked, disturbed, repeated>>
    BY <1>1 DEF BriefingTick, Configure, briefVars
  <2>. QED
    BY <2>1 DEF AskedInv, DatedBriefs, TechnicalIsKept, SynthesisIsKept, NobodySaves,
                ProviderIsAskedSparingly
<1>2. ASSUME NEW w \in Workers,
             \/ Start(w) \/ SkipTechnical(w) \/ Decompose(w) \/ SaveDecomposition(w)
             \/ Prepare(w) \/ PersistPrepared(w)
             \/ SkipSynthesis(w) \/ SynthesisNotConfigured(w) \/ Synthesize(w) \/ SaveSynthesis(w)
             \/ Render(w) \/ PersistPublication(w) \/ CycleEnds(w)
      PROVE  AskedInv'
  BY <1>2, QuietKeepsAsked, CyclesKeepAsked, DecomposeKeepsAsked, SynthesizeKeepsAsked,
     NotConfiguredKeepsAsked, SavesKeepAsked
<1>. QED
  BY <1>1, <1>2 DEF BriefingNext

LEMMA InitBriefing == BriefingInit => BriefingInv
<1>. SUFFICES ASSUME BriefingInit PROVE DecisionInv /\ AskedInv
  BY InitProse DEF BriefingInv
<1>1. worker \in [Workers -> Carrier] /\ \A w \in Workers : worker[w].at = "idle"
  BY DEF BriefingInit, Carrier, Stages
<1>2. DecisionInv
  BY <1>1 DEF BriefingInit, DecisionInv, DecisionIsCurrent, OneWorks, Briefed
<1>3. AskedInv
  BY <1>1 DEF BriefingInit, AskedInv, DatedBriefs, Briefed, TechnicalIsKept, SynthesisIsKept,
              Caches, ProviderIsAskedSparingly
<1>. QED
  BY <1>2, <1>3

LEMMA BriefingInvHolds == BriefingSpec => []BriefingInv
<1>1. BriefingInit => BriefingInv
  BY InitBriefing
<1>2. BriefingInv /\ [BriefingNext]_briefVars => BriefingInv'
  BY NextKeepsProse, NextKeepsDecision, NextKeepsAsked DEF BriefingInv
<1>. QED
  BY <1>1, <1>2, PTL DEF BriefingSpec

\* Whoever writes when, even with two cycles at once: an assessment shows prose only if
\* the provider wrote it about the revision of the assessment, and what is published
\* rests on such prose (apply_cached_synthesis, apply_persisted_assessment).
THEOREM ProseOnItsRevision == BriefingSpec => []ProseIsAboutItsRevision
<1>1. BriefingInv => ProseIsAboutItsRevision
  BY DEF BriefingInv, ProseInv
<1>. QED
  BY <1>1, BriefingInvHolds, PTL

\* Unless cycles overlapped, the current assessment is what the last cycle decided on, about
\* the source revision of that cycle, and versions never go back to an older source.
THEOREM DecidesOnCurrent == BriefingSpec => []DecisionIsCurrent
<1>1. BriefingInv => DecisionIsCurrent
  BY DEF BriefingInv, DecisionInv
<1>. QED
  BY <1>1, BriefingInvHolds, PTL

\* Whatever cycles fail in between, as long as no answer is lost and no cycles overlap: a
\* failed call waits for its cooldown, an answered question is not asked again, and
\* nothing unchanged is written about twice of an event with a date of its own.
THEOREM AskedSparingly == BriefingSpec => []ProviderIsAskedSparingly
<1>1. BriefingInv => ProviderIsAskedSparingly
  BY DEF BriefingInv, AskedInv
<1>. QED
  BY <1>1, BriefingInvHolds, PTL
=============================================================================
