--------------------------- MODULE WorkerCycleProofs ---------------------------
(***************************************************************************)
(* The safety properties of OperationalLock, for any set of workers, and   *)
(* those of the cycle inside it, for any number of sources and any times.  *)
(***************************************************************************)
EXTENDS WorkerCycle, TLAPS

\* While a cycle goes on, a session that is still open never lost the lock.
OpenIsExclusive ==
  \A w \in Workers :
    worker[w] \in {"collecting", "releasing", "unlocking"} /\ session[w] = "open"
      => exclusive[w]

\* What is reported was unlocked first: nothing can be lost any more.
ReportIsAfterUnlock ==
  \A w \in Workers :
    worker[w] = "exiting" /\ report[w] \in Reported
      => exclusive[w] /\ session[w] = "none"

LockInv == TypeOK /\ OpenIsExclusive /\ ReportIsAfterUnlock /\ ConnectionHasOneUser

LEMMA InitLock == Init => LockInv
  BY NoneAssumption
     DEF Init, LockInv, TypeOK, OpenIsExclusive, ReportIsAfterUnlock, ConnectionHasOneUser

LEMMA NextLock == LockInv /\ [Next]_vars => LockInv'
<1> SUFFICES ASSUME LockInv, [Next]_vars PROVE LockInv'
  OBVIOUS
<1> USE NoneAssumption
    DEF LockInv, TypeOK, OpenIsExclusive, ReportIsAfterUnlock, ConnectionHasOneUser,
        Reported, Goes, Reports
<1>1. ASSUME NEW w \in Workers, Acquire(w) PROVE LockInv'
  BY <1>1 DEF Acquire
<1>2. ASSUME NEW w \in Workers, AcquireFails(w) PROVE LockInv'
  BY <1>2 DEF AcquireFails
<1>3. ASSUME NEW w \in Workers, Skip(w) PROVE LockInv'
  BY <1>3 DEF Skip
<1>4. ASSUME NEW w \in Workers, LoseSession(w) PROVE LockInv'
  BY <1>4 DEF LoseSession, EndSession
<1>5. ASSUME NEW w \in Workers, Beat(w) \/ Hang(w) \/ Return(w) PROVE LockInv'
  BY <1>5 DEF Beat, Hang, Return
<1>6. ASSUME NEW w \in Workers, EndCycle(w) PROVE LockInv'
  BY <1>6 DEF EndCycle
<1>7. ASSUME NEW w \in Workers, JoinTimeout(w) PROVE LockInv'
  BY <1>7 DEF JoinTimeout, Raise
<1>8. ASSUME NEW w \in Workers, Join(w) PROVE LockInv'
  BY <1>8 DEF Join, Raise
<1>9. ASSUME NEW w \in Workers, Unlock(w) PROVE LockInv'
  BY <1>9 DEF Unlock, EndSession
<1>10. ASSUME NEW w \in Workers, UnlockFails(w) PROVE LockInv'
  BY <1>10 DEF UnlockFails, Raise
<1>11. ASSUME NEW w \in Workers, Exit(w) PROVE LockInv'
  BY <1>11 DEF Exit, End, EndSession
<1>12. ASSUME NEW w \in Workers, HardDeadline(w) PROVE LockInv'
  BY <1>12 DEF HardDeadline, End, EndSession
<1>13. CASE UNCHANGED vars
  BY <1>13 DEF vars
<1> QED
  BY <1>1, <1>2, <1>3, <1>4, <1>5, <1>6, <1>7, <1>8, <1>9, <1>10, <1>11, <1>12, <1>13
     DEF Next

LEMMA LockInvariant == Spec => []LockInv
  BY InitLock, NextLock, PTL DEF Spec

\* Types, and: the lock always belongs to a session that is open, however
\* sessions and processes end.
THEOREM LockTypeCorrect == Spec => []TypeOK
  BY LockInvariant, PTL DEF LockInv

\* What a worker reports of a cycle was done with the lock from the first to the
\* last step of it: operational_lock never lets a lost session pass for a
\* finished cycle.
THEOREM ReportsAreExclusive == Spec => []ReportWasExclusive
<1>1. LockInv => ReportWasExclusive
  BY DEF LockInv, ReportIsAfterUnlock, ReportWasExclusive
<1> QED
  BY LockInvariant, <1>1, PTL

\* The release never uses the connection of the lock while its heartbeat may.
THEOREM OneUserOfConnection == Spec => []ConnectionHasOneUser
  BY LockInvariant, PTL DEF LockInv

-----------------------------------------------------------------------------
(***************************************************************************)
(* The cycle.                                                              *)
(***************************************************************************)

Ends == {"report", "refused", "raised"}

\* The stages of a cycle follow the states of its worker, and what a worker reports of
\* a cycle is what the stages came to.
StageFits ==
  /\ worker[Observed] = "idle" => stage = "none"
  /\ worker[Observed] = "collecting" => stage # "none"
  /\ worker[Observed] \in {"releasing", "unlocking"} => stage \in Ends
  /\ worker[Observed] = "exiting" /\ report[Observed] \in Reported =>
       stage \in Ends /\ report[Observed] = Status

\* Optional work follows a collection of all sources; a report does, or says why not.
CollectedAll ==
  /\ stage \in OptionalStage => Waiting = 0 /\ runs # <<>>
  /\ stage = "report" => Waiting = 0 \/ exhausted

\* What the sources that wait lack of their minimum was taken by keeping what was read.
EnoughIsLeft ==
  /\ stage \in {"startup", "market"} => ~enough /\ ~exhausted /\ runs = <<>> /\ storing = 0
  /\ enough /\ stage = "collect" =>
       /\ left + storing >= Waiting * MinStart
       /\ exhausted /\ Waiting > 0 => storing + MinStart > Waiting * MinStart
  /\ enough /\ stage \in OptionalStage \cup {"report"} /\ Waiting > 0 =>
       storing + MinStart > Waiting * MinStart

CycleInv == LockInv /\ CycleTypeOK /\ StageFits /\ CollectedAll /\ EnoughIsLeft

\* Every step of the cycle is one of the lock, or leaves the lock alone.
LEMMA CycleIsLock == [CycleNext]_allVars => [Next]_vars
<1> SUFFICES ASSUME CycleNext PROVE [Next]_vars
  BY DEF allVars, vars
<1>1. CASE Begin
  BY <1>1, CycleAssumption DEF Begin, Next
<1>2. CASE Request \/ MarketRefresh \/ Collect \/ StopCollecting \/ EndCollection
  BY <1>2 DEF Request, MarketRefresh, Collect, StopCollecting, EndCollection
<1>3. CASE OptionalItem \/ StopOptional \/ EndOptional \/ CycleRaises
  BY <1>3 DEF OptionalItem, StopOptional, EndOptional, CycleRaises
<1>4. CASE EndOfCycle \/ UnlockAndReport \/ Leave
  BY <1>4, CycleAssumption DEF EndOfCycle, UnlockAndReport, Leave, Next
<1>5. ASSUME NEW w \in Workers, LockStep(w) PROVE Next
  BY <1>5 DEF LockStep, Next
<1> QED
  BY <1>1, <1>2, <1>3, <1>4, <1>5 DEF CycleNext

LEMMA OptionalStages5 ==
  /\ OptionalStage = {"projection", "research", "technical", "synthesis", "explanations"}
  /\ \A s \in OptionalStage : StageAfter(s) \in OptionalStage \cup {"report"}
<1>1. OptionalStage = {"projection", "research", "technical", "synthesis", "explanations"}
  <2>1. 1..5 = {1, 2, 3, 4, 5}
    OBVIOUS
  <2> QED
    BY <2>1 DEF OptionalStage, OptionalStages
<1>2. ASSUME NEW s \in OptionalStage PROVE StageAfter(s) \in OptionalStage \cup {"report"}
  <2>1. CASE s = "explanations"
    BY <2>1 DEF StageAfter
  <2>2. CASE s # "explanations"
    <3>1. \E i \in 1..4 : OptionalStages[i] = s
      BY <1>1, <2>2 DEF OptionalStages
    <3> DEFINE i == CHOOSE j \in 1..4 : OptionalStages[j] = s
    <3>2. i \in 1..4
      BY <3>1
    <3>3. StageAfter(s) = OptionalStages[1 + i]
      BY <2>2 DEF StageAfter
    <3> HIDE DEF i
    <3>4. 1 + i \in 1..5
      BY <3>2
    <3> QED
      BY <3>3, <3>4 DEF OptionalStage
  <2> QED
    BY <2>1, <2>2
<1> QED
  BY <1>1, <1>2

LEMMA Distributes ==
  ASSUME NEW a \in Nat \ {0}, NEW b \in Nat
  PROVE  a * b = (a - 1) * b + b /\ (a - 1) * b \in Nat
  OBVIOUS

LEMMA TimesIsMonotone ==
  ASSUME NEW a \in Nat, NEW b \in Nat, NEW c \in Nat, b <= c
  PROVE  a * b <= a * c
  OBVIOUS

\* What the share of a source leaves, and what it took to keep, is enough for the others.
LEMMA ShareLeavesEnough ==
  ASSUME NEW m \in Nat, NEW waiting \in Nat \ {0}, NEW time \in Nat, NEW kept \in Nat,
         time + kept >= waiting * m,
         NEW window \in Nat, NEW spent \in 0..window,
         window <= m \/ window <= time \div waiting
  PROVE  time - spent + kept >= (waiting - 1) * m
<1>1. waiting * m = (waiting - 1) * m + m /\ (waiting - 1) * m \in Nat
  BY Distributes
<1>2. CASE window <= m
  BY <1>1, <1>2
<1>3. CASE window > m
  <2> DEFINE q == time \div waiting
  <2>1. q \in Nat /\ waiting * q <= time
    OBVIOUS
  <2>2. q > m /\ spent <= q
    BY <1>3, <2>1
  <2> HIDE DEF q
  <2>3. waiting * q = (waiting - 1) * q + q /\ (waiting - 1) * q \in Nat
    BY <2>1, Distributes
  <2>4. waiting - 1 \in Nat
    OBVIOUS
  <2>5. (waiting - 1) * m <= (waiting - 1) * q
    BY <2>1, <2>2, <2>4, TimesIsMonotone
  <2> QED
    BY <1>1, <2>1, <2>2, <2>3, <2>5
<1> QED
  BY <1>2, <1>3

-----------------------------------------------------------------------------
LEMMA InitCycle == CycleInit => CycleInv
<1> SUFFICES ASSUME CycleInit PROVE CycleInv
  OBVIOUS
<1>1. LockInv
  BY InitLock DEF CycleInit
<1>2. worker[Observed] = "idle"
  BY CycleAssumption DEF CycleInit, Init
<1>3. runs \in Seq(BOOLEAN) /\ Len(runs) = 0
  BY DEF CycleInit
<1>4. market \in BOOLEAN /\ exhausted \in BOOLEAN /\ enough \in BOOLEAN
  BY Zenon DEF CycleInit
<1>5. left \in 0..Budget /\ sources \in 0..MaxSources /\ items \in 0..MaxItems /\ Len(runs) <= sources
  BY <1>3, CycleAssumption DEF CycleInit
<1>6. CycleTypeOK
  BY <1>3, <1>4, <1>5, Zenon DEF CycleInit, CycleTypeOK
<1> QED
  BY <1>1, <1>2, <1>6, OptionalStages5
     DEF CycleInit, CycleInv, StageFits, CollectedAll, EnoughIsLeft

\* What a cycle has of its own, apart from the lock.
OwnInv == CycleTypeOK /\ StageFits /\ CollectedAll /\ EnoughIsLeft

LEMMA TypesOfCycle ==
  ASSUME CycleInv
  PROVE  /\ left \in Nat /\ sources \in Nat /\ items \in Nat /\ storing \in Nat
         /\ Len(runs) \in Nat /\ Waiting \in Nat
         /\ Len(Append(runs, TRUE)) = Len(runs) + 1
BY CycleAssumption DEF CycleInv, CycleTypeOK, Waiting

LEMMA BeginKeeps == ASSUME CycleInv, Begin PROVE OwnInv'
<1>1. /\ stage' = "startup" /\ left' = Budget /\ sources' = 0 /\ runs' = <<>> /\ items' = 0
      /\ market' = FALSE /\ exhausted' = FALSE /\ enough' = FALSE /\ storing' = 0
  BY DEF Begin
<1>2. worker'[Observed] = "collecting"
  BY CycleAssumption DEF Begin, Acquire, Goes, CycleInv, LockInv, TypeOK
<1>3. runs' \in Seq(BOOLEAN) /\ Len(runs') = 0
  BY <1>1
<1>4. market' \in BOOLEAN /\ exhausted' \in BOOLEAN /\ enough' \in BOOLEAN
  BY <1>1, Zenon
<1>5. left' \in 0..Budget /\ sources' \in 0..MaxSources /\ items' \in 0..MaxItems /\ Len(runs') <= sources'
  BY <1>1, <1>3, CycleAssumption
<1>6. CycleTypeOK'
  BY <1>1, <1>3, <1>4, <1>5, Zenon DEF CycleTypeOK
<1> QED
  BY <1>1, <1>2, <1>6, OptionalStages5
     DEF OwnInv, StageFits, CollectedAll, EnoughIsLeft

LEMMA RequestKeeps == ASSUME CycleInv, Request PROVE OwnInv'
<1> USE DEF CycleInv, OwnInv, CycleTypeOK, StageFits, CollectedAll, EnoughIsLeft, Ends
<1>1. /\ worker[Observed] = "collecting" /\ worker' = worker /\ stage = "startup"
      /\ UNCHANGED <<left, runs, market, exhausted, items, enough, storing>>
      /\ runs = <<>> /\ ~enough /\ ~exhausted /\ storing = 0
  BY DEF Request, InCycle, vars
<1>2. CASE stage' = "refused" /\ UNCHANGED sources
  BY <1>1, <1>2, OptionalStages5
<1>3. CASE stage' = "market" /\ \E n \in 0..MaxSources : sources' = n
  BY <1>1, <1>3, OptionalStages5
<1> QED
  BY <1>2, <1>3 DEF Request

LEMMA MarketRefreshKeeps == ASSUME CycleInv, MarketRefresh PROVE OwnInv'
<1> USE DEF CycleInv, OwnInv, CycleTypeOK, StageFits, CollectedAll, EnoughIsLeft, Ends
<1>1. /\ worker[Observed] = "collecting" /\ worker' = worker /\ stage = "market"
      /\ stage' = "collect" /\ market' \in BOOLEAN /\ enough' = (left' >= sources * MinStart)
      /\ UNCHANGED <<sources, runs, exhausted, items, storing>>
      /\ runs = <<>> /\ ~exhausted /\ storing = 0
  BY DEF MarketRefresh, InCycle, vars
<1>2. left' \in 0..Budget
  BY CycleAssumption DEF MarketRefresh, Takes
<1>3. Waiting' = sources
  BY <1>1 DEF Waiting
<1> QED
  BY <1>1, <1>2, <1>3, OptionalStages5

LEMMA CollectKeeps == ASSUME CycleInv, Collect PROVE OwnInv'
<1>1. /\ worker[Observed] = "collecting" /\ worker' = worker
      /\ stage = "collect" /\ stage' = "collect"
      /\ Waiting > 0 /\ left >= MinStart /\ ~exhausted
      /\ exhausted' = (left' = 0)
      /\ UNCHANGED <<sources, market, items, enough>>
  BY DEF Collect, InCycle, vars
<1>2. PICK failed \in BOOLEAN : runs' = Append(runs, failed)
  BY DEF Collect
<1>3. /\ runs' \in Seq(BOOLEAN) /\ Len(runs') = Len(runs) + 1
      /\ Waiting \in Nat \ {0} /\ Waiting' = Waiting - 1
  BY <1>1, <1>2, TypesOfCycle DEF CycleInv, CycleTypeOK, Waiting
<1>4. /\ left \in Nat /\ left <= Budget /\ MinStart \in Nat /\ Budget \in Nat
      /\ SourceTime \in Nat /\ SourceTime <= left
      /\ SourceTime <= MinStart \/ SourceTime <= left \div Waiting
  BY <1>1, <1>3, CycleAssumption, TypesOfCycle DEF SourceTime, CycleInv, CycleTypeOK
<1>5. PICK reading \in 0..SourceTime : \E rest \in 0..(left - reading) :
        left' = left - reading - rest /\ storing' = IF enough THEN storing + rest ELSE 0
  BY DEF Collect
<1>a. PICK rest \in 0..(left - reading) :
        left' = left - reading - rest /\ storing' = IF enough THEN storing + rest ELSE 0
  BY <1>5
<1>b. storing \in Nat /\ reading \in Nat /\ rest \in Nat /\ reading <= left
  BY <1>4, <1>5, <1>a, TypesOfCycle
<1>6. left' \in 0..Budget /\ storing' \in Nat
  BY <1>4, <1>a, <1>b
<1>7. enough => left' + storing' >= Waiting' * MinStart
  <2> SUFFICES ASSUME enough PROVE left' + storing' >= Waiting' * MinStart
    OBVIOUS
  <2>1. left + storing >= Waiting * MinStart
    BY <1>1 DEF CycleInv, EnoughIsLeft
  <2>2. left - reading + storing >= (Waiting - 1) * MinStart
    BY <2>1, <1>3, <1>4, <1>5, <1>b, ShareLeavesEnough
  <2>3. left' + storing' = left - reading + storing
    BY <1>4, <1>a, <1>b
  <2> QED
    BY <2>2, <2>3, <1>3
<1>8. enough /\ exhausted' /\ Waiting' > 0 => storing' + MinStart > Waiting' * MinStart
  <2> SUFFICES ASSUME enough, left' = 0 PROVE storing' + MinStart > Waiting' * MinStart
    BY <1>1
  <2>1. Waiting' \in Nat /\ Waiting' * MinStart \in Nat
    BY <1>3, <1>4
  <2>2. PICK need \in Nat : need = Waiting' * MinStart
    BY <2>1
  <2>3. storing' >= need
    BY <1>6, <1>7, <2>2
  <2> QED
    BY <1>6, <2>2, <2>3, CycleAssumption
<1>9. Len(runs') <= sources'
  BY <1>1, <1>3, TypesOfCycle DEF Waiting
<1> QED
  BY <1>1, <1>3, <1>6, <1>7, <1>8, <1>9, OptionalStages5
     DEF CycleInv, OwnInv, CycleTypeOK, StageFits, CollectedAll, EnoughIsLeft, Ends

LEMMA StopCollectingKeeps == ASSUME CycleInv, StopCollecting PROVE OwnInv'
<1>1. /\ worker[Observed] = "collecting" /\ worker' = worker
      /\ stage = "collect" /\ stage' = "collect"
      /\ Waiting > 0 /\ left < MinStart /\ exhausted' = TRUE
      /\ UNCHANGED <<left, sources, runs, market, items, enough, storing>>
  BY DEF StopCollecting, InCycle, vars
<1>2. enough => storing + MinStart > Waiting * MinStart
  <2>1. Waiting * MinStart \in Nat /\ left \in Nat /\ storing \in Nat
    BY <1>1, TypesOfCycle, CycleAssumption
  <2> QED
    BY <1>1, <2>1, CycleAssumption DEF CycleInv, EnoughIsLeft
<1>3. Waiting' = Waiting
  BY <1>1 DEF Waiting
<1> QED
  BY <1>1, <1>2, <1>3, OptionalStages5
     DEF CycleInv, OwnInv, CycleTypeOK, StageFits, CollectedAll, EnoughIsLeft, Ends

LEMMA EndCollectionKeeps == ASSUME CycleInv, EndCollection PROVE OwnInv'
<1>1. /\ worker[Observed] = "collecting" /\ worker' = worker /\ stage = "collect"
      /\ Waiting = 0 \/ exhausted
      /\ stage' = IF runs # <<>> /\ ~exhausted THEN "projection" ELSE "report"
      /\ storing' = IF Waiting = 0 THEN 0 ELSE storing
      /\ UNCHANGED <<left, sources, runs, market, exhausted, items, enough>>
  BY DEF EndCollection, InCycle, vars
<1>2. Waiting' = Waiting /\ Waiting \in Nat /\ storing' \in Nat
  BY <1>1, TypesOfCycle DEF Waiting
<1>3. enough' /\ Waiting' > 0 => storing' + MinStart > Waiting' * MinStart
  BY <1>1, <1>2 DEF CycleInv, EnoughIsLeft
<1> QED
  BY <1>1, <1>2, <1>3, OptionalStages5
     DEF CycleInv, OwnInv, CycleTypeOK, StageFits, CollectedAll, EnoughIsLeft, Ends

\* A step within the optional stages, or out of them.
LEMMA OptionalKeeps ==
  ASSUME CycleInv, OptionalItem \/ StopOptional \/ EndOptional PROVE OwnInv'
<1>1. /\ worker[Observed] = "collecting" /\ worker' = worker /\ stage \in OptionalStage
      /\ stage' \in OptionalStage \cup {"report"}
      /\ UNCHANGED <<sources, runs, market, enough, storing>>
      /\ exhausted' \in BOOLEAN
  BY OptionalStages5
     DEF OptionalItem, StopOptional, EndOptional, vars, CycleInv, CycleTypeOK
<1>2. left' \in 0..Budget
  <2>1. CASE OptionalItem
    BY <2>1, CycleAssumption DEF OptionalItem, Takes, CycleInv, CycleTypeOK
  <2>2. CASE StopOptional \/ EndOptional
    BY <2>2 DEF StopOptional, EndOptional, CycleInv, CycleTypeOK
  <2> QED
    BY <2>1, <2>2
<1>3. items' \in 0..MaxItems
  BY CycleAssumption DEF OptionalItem, StopOptional, EndOptional, CycleInv, CycleTypeOK
<1>4. Waiting' = Waiting
  BY <1>1 DEF Waiting
<1> QED
  BY <1>1, <1>2, <1>3, <1>4, OptionalStages5
     DEF CycleInv, OwnInv, CycleTypeOK, StageFits, CollectedAll, EnoughIsLeft, Ends

LEMMA CycleRaisesKeeps == ASSUME CycleInv, CycleRaises PROVE OwnInv'
<1>1. /\ worker[Observed] = "collecting" /\ worker' = worker /\ stage' = "raised"
      /\ UNCHANGED <<left, sources, runs, market, exhausted, items, enough, storing>>
  BY DEF CycleRaises, vars
<1> QED
  BY <1>1, OptionalStages5
     DEF CycleInv, OwnInv, CycleTypeOK, StageFits, CollectedAll, EnoughIsLeft, Ends

\* The reports of a worker that is not Observed, and its steps, are not those of the cycle.
LEMMA OthersKeep ==
  ASSUME CycleInv, NEW w \in Workers, w # Observed,
         Acquire(w) \/ EndCycle(w) \/ Unlock(w) \/ Exit(w) \/ HardDeadline(w)
  PROVE  worker'[Observed] = worker[Observed] /\ report'[Observed] = report[Observed]
BY CycleAssumption
   DEF Acquire, EndCycle, Unlock, Exit, HardDeadline, End, Goes, Reports, CycleInv, LockInv, TypeOK

LEMMA LockStepKeeps ==
  ASSUME CycleInv, NEW w \in Workers, LockStep(w) PROVE OwnInv'
<1>1. UNCHANGED cycleVars
  BY DEF LockStep
<1>2. CycleTypeOK' /\ CollectedAll' /\ EnoughIsLeft' /\ Waiting' = Waiting
  BY <1>1 DEF cycleVars, CycleInv, CycleTypeOK, CollectedAll, EnoughIsLeft, Waiting
<1>3. StageFits'
  <2>1. CASE worker'[Observed] = worker[Observed] /\ report'[Observed] = report[Observed]
    BY <1>1, <2>1 DEF cycleVars, CycleInv, StageFits, Status, Failed
  <2>2. CASE w # Observed
    <3>1. worker'[Observed] = worker[Observed]
          /\ (report'[Observed] = report[Observed])
      <4>1. CASE Acquire(w) \/ EndCycle(w) \/ Unlock(w) \/ Exit(w) \/ HardDeadline(w)
        BY <2>2, <4>1, OthersKeep
      <4>2. CASE \/ AcquireFails(w) \/ Skip(w) \/ LoseSession(w) \/ Beat(w) \/ Hang(w)
                 \/ Return(w) \/ JoinTimeout(w) \/ Join(w) \/ UnlockFails(w)
        BY <2>2, <4>2, CycleAssumption
           DEF AcquireFails, Skip, LoseSession, Beat, Hang, Return, JoinTimeout, Join, UnlockFails,
               Raise, Goes, Reports, CycleInv, LockInv, TypeOK
      <4> QED
        BY <2>2, <4>1, <4>2 DEF LockStep
    <3> QED
      BY <3>1, <2>1
  <2>3. CASE w = Observed
    <3>1. CASE AcquireFails(w) \/ JoinTimeout(w) \/ UnlockFails(w)
      <4>1. worker'[Observed] = "exiting" /\ report'[Observed] = "WORKER_ERROR"
        BY <2>3, <3>1, CycleAssumption
           DEF AcquireFails, JoinTimeout, UnlockFails, Raise, Goes, Reports, CycleInv, LockInv, TypeOK
      <4> QED
        BY <4>1 DEF StageFits, Reported
    <3>2. CASE Skip(w)
      <4>1. worker' = worker /\ worker[Observed] = "idle"
        BY <2>3, <3>2 DEF Skip
      <4> QED
        BY <4>1, <1>1 DEF cycleVars, CycleInv, StageFits
    <3>3. CASE LoseSession(w) \/ Beat(w) \/ Hang(w) \/ Return(w)
      BY <3>3, <2>1 DEF LoseSession, Beat, Hang, Return
    <3>4. CASE Join(w)
      <4>1. worker[Observed] = "releasing" /\ stage \in Ends
        BY <2>3, <3>4 DEF Join, CycleInv, StageFits
      <4>2. \/ worker'[Observed] = "unlocking"
            \/ worker'[Observed] = "exiting" /\ report'[Observed] = "WORKER_ERROR"
        BY <2>3, <3>4, CycleAssumption DEF Join, Raise, Goes, Reports, CycleInv, LockInv, TypeOK
      <4> QED
        BY <4>1, <4>2, <1>1 DEF StageFits, Reported, cycleVars
    <3> QED
      BY <2>3, <3>1, <3>2, <3>3, <3>4 DEF LockStep
  <2> QED
    BY <2>2, <2>3
<1> QED
  BY <1>2, <1>3 DEF OwnInv

LEMMA EndOfCycleKeeps == ASSUME CycleInv, EndOfCycle PROVE OwnInv'
<1>1. /\ stage \in Ends /\ UNCHANGED cycleVars
      /\ worker'[Observed] = "releasing" /\ report' = report
  BY CycleAssumption DEF EndOfCycle, EndCycle, Goes, Ends, CycleInv, LockInv, TypeOK
<1> QED
  BY <1>1 DEF cycleVars, CycleInv, OwnInv, CycleTypeOK, StageFits, CollectedAll, EnoughIsLeft, Waiting

LEMMA UnlockAndReportKeeps == ASSUME CycleInv, UnlockAndReport PROVE OwnInv'
<1>1. /\ worker[Observed] = "unlocking" /\ worker'[Observed] = "exiting"
      /\ UNCHANGED cycleVars /\ report'[Observed] = Status
  BY CycleAssumption DEF UnlockAndReport, Unlock, Goes, CycleInv, LockInv, TypeOK
<1>2. stage \in Ends /\ Status' = Status
  BY <1>1 DEF CycleInv, StageFits, cycleVars, Status, Failed
<1> QED
  BY <1>1, <1>2
     DEF cycleVars, CycleInv, OwnInv, CycleTypeOK, StageFits, CollectedAll, EnoughIsLeft, Waiting

LEMMA LeaveKeeps == ASSUME CycleInv, Leave PROVE OwnInv'
<1>1. /\ stage' = "none" /\ left' = 0 /\ sources' = 0 /\ runs' = <<>> /\ items' = 0
      /\ market' = FALSE /\ exhausted' = FALSE /\ enough' = FALSE /\ storing' = 0
  BY DEF Leave, Forget
<1>2. worker'[Observed] = "idle"
  BY CycleAssumption DEF Leave, Exit, HardDeadline, End, Goes, CycleInv, LockInv, TypeOK
<1>3. runs' \in Seq(BOOLEAN) /\ Len(runs') = 0
  BY <1>1
<1>4. market' \in BOOLEAN /\ exhausted' \in BOOLEAN /\ enough' \in BOOLEAN
  BY <1>1, Zenon
<1>5. left' \in 0..Budget /\ sources' \in 0..MaxSources /\ items' \in 0..MaxItems /\ Len(runs') <= sources'
  BY <1>1, <1>3, CycleAssumption
<1>6. CycleTypeOK'
  BY <1>1, <1>3, <1>4, <1>5, Zenon DEF CycleTypeOK
<1> QED
  BY <1>1, <1>2, <1>6, OptionalStages5
     DEF OwnInv, StageFits, CollectedAll, EnoughIsLeft

LEMMA NextCycle == CycleInv /\ [CycleNext]_allVars => CycleInv'
<1> SUFFICES ASSUME CycleInv, [CycleNext]_allVars PROVE CycleInv'
  OBVIOUS
<1>1. LockInv'
  BY CycleIsLock, NextLock DEF CycleInv
<1>2. OwnInv'
  <2>1. ASSUME UNCHANGED allVars PROVE OwnInv'
    BY <2>1 DEF allVars, vars, cycleVars, CycleInv, OwnInv, CycleTypeOK, StageFits, Status, Failed,
                CollectedAll, EnoughIsLeft, Waiting
  <2>2. ASSUME CycleNext PROVE OwnInv'
    BY <2>2, BeginKeeps, RequestKeeps, MarketRefreshKeeps, CollectKeeps, StopCollectingKeeps,
       EndCollectionKeeps, OptionalKeeps, CycleRaisesKeeps, EndOfCycleKeeps,
       UnlockAndReportKeeps, LeaveKeeps, LockStepKeeps
       DEF CycleNext
  <2> QED
    BY <2>1, <2>2
<1> QED
  BY <1>1, <1>2 DEF CycleInv, OwnInv

LEMMA CycleInvariant == CycleSpec => []CycleInv
  BY InitCycle, NextCycle, PTL DEF CycleSpec

-----------------------------------------------------------------------------
\* The cycle with its sources, its stages and its deadline does with the lock only what the
\* specification of the lock says, and so all that is proved of the lock is true of it.
THEOREM CycleImplementsLock == CycleSpec => Init /\ [][Next]_vars
<1>1. CycleInit => Init
  BY DEF CycleInit
<1> QED
  BY <1>1, CycleIsLock, PTL DEF CycleSpec

\* A scheduler that sees the exit code 0 of run_worker's process knows that every configured source
\* was collected without a failure, at least one, that the deadline stopped nothing but a
\* synthesis or a refresh of the market series, and that the lock was held all the time.
THEOREM ZeroExitIsHonest == CycleSpec => []ZeroIsHonest
<1>1. CycleInv => ZeroIsHonest
  <2> SUFFICES ASSUME CycleInv, worker[Observed] = "exiting", report[Observed] # None, ExitCode = 0
               PROVE  /\ Waiting = 0 /\ sources > 0
                      /\ \A i \in DOMAIN runs : ~runs[i]
                      /\ ~market /\ ~exhausted
                      /\ exclusive[Observed]
    BY DEF ZeroIsHonest
  <2>1. /\ report[Observed] \notin {"OVERLAP_SKIPPED", "INVALID_SOURCE", "WORKER_ERROR"}
        /\ ~Failed /\ runs # <<>> /\ ~exhausted /\ ~market
    BY DEF ExitCode
  <2>2. report[Observed] \in Reported
    BY <2>1, CycleAssumption DEF CycleInv, LockInv, TypeOK, Reported
  <2>3. stage = "report"
    BY <2>1, <2>2 DEF CycleInv, StageFits, Status, Ends
  <2>4. Waiting = 0 /\ sources > 0
    <3>1. runs \in Seq(BOOLEAN) /\ Len(runs) > 0 /\ Len(runs) <= sources /\ sources \in Nat
      BY <2>1, CycleAssumption DEF CycleInv, CycleTypeOK
    <3> QED
      BY <2>1, <2>3, <3>1 DEF CycleInv, CollectedAll
  <2>5. exclusive[Observed]
    BY <2>2, CycleAssumption DEF CycleInv, LockInv, ReportIsAfterUnlock
  <2> QED
    BY <2>1, <2>4, <2>5 DEF Failed
<1> QED
  BY CycleInvariant, <1>1, PTL

\* However slowly sources answer, those that wait lack no more of their minimum start than it
\* took to keep what was read of the others, and what is optional begins only after all of
\* them and with a whole provider timeout left.
THEOREM CycleTimeIsShared == CycleSpec => TimeIsShared
<1>1. CycleInv => NoSourceIsStarved
  BY DEF CycleInv, EnoughIsLeft, NoSourceIsStarved
<1>2. CycleInv /\ [CycleNext]_allVars => StartsInTime
  <2> SUFFICES ASSUME CycleInv, [CycleNext]_allVars, items' > items
               PROVE  left >= AiTimeout /\ Waiting = 0 /\ sources > 0
    BY DEF StartsInTime
  <2>1. items \in Nat
    BY TypesOfCycle
  <2>2. OptionalItem
    <3>1. ~(items' = 0) /\ ~(items' = items)
      BY <2>1
    <3> QED
      BY <3>1 DEF CycleNext, allVars, cycleVars, Begin, Request, MarketRefresh, Collect, StopCollecting,
           EndCollection, StopOptional, EndOptional, CycleRaises, EndOfCycle, UnlockAndReport, Leave,
           Forget, LockStep
  <2>3. stage \in OptionalStage /\ left >= AiTimeout
    BY <2>2 DEF OptionalItem, CanStartOptional
  <2>4. runs \in Seq(BOOLEAN) /\ Len(runs) > 0 /\ Len(runs) <= sources /\ sources \in Nat
    BY <2>3, CycleAssumption DEF CycleInv, CycleTypeOK, CollectedAll
  <2> QED
    BY <2>3, <2>4 DEF CycleInv, CollectedAll
<1> QED
  BY CycleInvariant, NextCycle, <1>1, <1>2, PTL DEF CycleSpec, TimeIsShared
=============================================================================
