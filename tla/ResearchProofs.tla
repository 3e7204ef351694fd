--------------------------- MODULE ResearchProofs ----------------------------
(***************************************************************************)
(* Theorems about research: the journal, for any number of workers, steps, *)
(* results and clock readings, and the coordinator, whose workers are      *)
(* killed and taken over at any moment and share one journal.              *)
(***************************************************************************)
EXTENDS ResearchCoordinator, FiniteSetTheorems, TLAPS

-----------------------------------------------------------------------------
(***************************************************************************)
(* The journal.                                                            *)
(***************************************************************************)
\* The lease token of a RUNNING run is the one its last attempt drew, and no
\* other run has one.
TokenIsCurrent ==
  IF run.status = "RUNNING"
    THEN run.token = run.attempts /\ run.attempts > 0
    ELSE run.token = NoToken

\* Every step was started by an attempt that has begun.
StepsHaveAttempts == \A i \in DOMAIN steps : steps[i].by <= run.attempts

\* The inductive invariant.  OneAdmittedCall alone is not inductive: that the
\* open step is the current owner's needs TokenIsCurrent, and that steps stay
\* in the order of the attempts needs StepsHaveAttempts.
IInv ==
  /\ TypeOK
  /\ TokenIsCurrent
  /\ StepsHaveAttempts
  /\ OneAdmittedCall
  /\ ClosedByItsWorker
  /\ AttemptsInOrder

-----------------------------------------------------------------------------
LEMMA InitIInv == Init => IInv
<1>. SUFFICES ASSUME Init PROVE IInv
  OBVIOUS
<1>1. TypeOK
  BY JournalAssumption DEF Init, TypeOK, Times, Run, RunStatus, NoToken, NoLease
<1>2. TokenIsCurrent /\ StepsHaveAttempts /\ OneAdmittedCall
      /\ ClosedByItsWorker /\ AttemptsInOrder
  BY DEF Init, TokenIsCurrent, StepsHaveAttempts, OneAdmittedCall,
         ClosedByItsWorker, AttemptsInOrder, Open
<1>. QED
  BY <1>1, <1>2 DEF IInv

LEMMA AcquireKeepsIInv ==
  ASSUME IInv, NEW t \in Readings, NEW lease \in Leases, Acquire(t, lease)
  PROVE  IInv'
<1>. USE JournalAssumption DEF IInv, TypeOK
<1>1. /\ t \in Nat
      /\ lease \in Nat
      /\ run.attempts \in Nat
      /\ run.attempts + 1 \in Tokens
  BY DEF Acquire, Acquirable, Readings, Run, Tokens
<1>2. run' \in Run
  <2>1. t + lease \in Nat /\ run.attempts + 1 \in 0..MaxAttempts
    BY <1>1 DEF Tokens
  <2>. QED
    BY <1>1, <2>1 DEF Acquire, Run, RunStatus
<1>3. /\ Len(steps') = Len(steps)
      /\ DOMAIN steps' = DOMAIN steps
      /\ \A i \in DOMAIN steps : steps'[i] = Interrupted(steps[i])
      /\ steps' \in Seq(Step)
  <2>1. \A step \in Step : Interrupted(step) \in Step
    BY DEF Interrupted, Step, StepStatus
  <2>2. /\ steps' = [i \in 1..Len(steps) |-> Interrupted(steps[i])]
        /\ Len(steps) \in Nat
        /\ \A i \in 1..Len(steps) : steps[i] \in Step
    BY DEF Acquire
  <2>. QED
    BY <2>1, <2>2
<1>4. \A i \in DOMAIN steps :
        /\ steps'[i].status # "STARTED"
        /\ steps'[i].by = steps[i].by
        /\ steps'[i].status \in {"COMPLETED", "FAILED"} =>
             /\ steps[i].status \in {"COMPLETED", "FAILED"}
             /\ steps'[i].closed_by = steps[i].closed_by
        /\ steps[i].by \in Nat
  <2>. TAKE i \in DOMAIN steps
  <2>1. steps[i] \in Step
    OBVIOUS
  <2>2. steps[i].by \in Nat
    BY <2>1 DEF Step, Tokens
  <2>3. CASE steps[i].status = "STARTED"
    BY <1>3, <2>1, <2>2, <2>3 DEF Interrupted, Step
  <2>4. CASE steps[i].status # "STARTED"
    BY <1>3, <2>1, <2>2, <2>4 DEF Interrupted, Step
  <2>. QED
    BY <2>3, <2>4
<1>5. TypeOK'
  BY <1>2, <1>3 DEF Acquire
<1>6. /\ run'.attempts = run.attempts + 1
      /\ run'.token = run.attempts + 1
      /\ run'.status = "RUNNING"
  BY DEF Acquire, Run
<1>7. TokenIsCurrent' /\ StepsHaveAttempts'
  BY <1>1, <1>3, <1>4, <1>6 DEF TokenIsCurrent, StepsHaveAttempts
<1>8. OneAdmittedCall'
  BY <1>3, <1>4 DEF OneAdmittedCall, Open
<1>9. ClosedByItsWorker' /\ AttemptsInOrder'
  BY <1>3, <1>4 DEF ClosedByItsWorker, AttemptsInOrder
<1>. QED
  BY <1>5, <1>7, <1>8, <1>9

LEMMA StartStepKeepsIInv ==
  ASSUME IInv, NEW t \in Readings, NEW token \in Tokens, NEW tool \in Tools,
         StartStep(token, tool, t)
  PROVE  IInv'
<1>. USE JournalAssumption DEF IInv, TypeOK
<1>. DEFINE new == [tool |-> tool, status |-> "STARTED", started_at |-> t,
                    result |-> None, by |-> token, closed_by |-> NoToken]
<1>1. new \in Step /\ t \in Nat /\ token \in Nat
  BY JournalAssumption DEF Readings, Step, StepStatus, Tokens
<1>2. /\ steps' = Append(steps, new)
      /\ UNCHANGED <<clock, run>>
      /\ run.status = "RUNNING"
      /\ run.token = token
      /\ Open = {}
  BY DEF StartStep, Owned
<1>3. /\ Len(steps) \in Nat
      /\ DOMAIN steps = 1..Len(steps)
      /\ Len(steps') = Len(steps) + 1
      /\ DOMAIN steps' = 1..(Len(steps) + 1)
      /\ \A i \in DOMAIN steps : steps'[i] = steps[i]
      /\ steps'[Len(steps) + 1] = new
      /\ steps' \in Seq(Step)
  BY <1>1, <1>2
<1>4. \A i \in DOMAIN steps : steps[i].by \in Nat
  <2>1. \A step \in Step : step.by \in Nat
    BY DEF Step, Tokens
  <2>. QED
    BY <2>1
<1>5. token = run.attempts
  BY <1>2 DEF TokenIsCurrent
<1>6. TypeOK' /\ TokenIsCurrent'
  BY <1>2, <1>3 DEF TokenIsCurrent
<1>7. StepsHaveAttempts'
  BY <1>1, <1>2, <1>3, <1>5 DEF StepsHaveAttempts
<1>8. OneAdmittedCall'
  BY <1>2, <1>3 DEF OneAdmittedCall, Open
<1>9. ClosedByItsWorker'
  BY <1>3 DEF ClosedByItsWorker
<1>10. AttemptsInOrder'
  BY <1>1, <1>2, <1>3, <1>4, <1>5 DEF AttemptsInOrder, StepsHaveAttempts
<1>. QED
  BY <1>6, <1>7, <1>8, <1>9, <1>10

LEMMA CompleteStepKeepsIInv ==
  ASSUME IInv, NEW t \in Readings, NEW token \in Tokens,
         NEW number \in DOMAIN steps, NEW result \in Results,
         NEW failed \in BOOLEAN, CompleteStep(token, number, result, failed, t)
  PROVE  IInv'
<1>. USE JournalAssumption DEF IInv, TypeOK
<1>1. /\ t \in Nat
      /\ Progress(failed) \in Nat
  BY JournalAssumption DEF Readings, Progress
<1>2. /\ run.status = "RUNNING"
      /\ run.token = token
      /\ number \in Open
      /\ steps[number].by = token
  BY DEF CompleteStep, Owned, Admitted, OneAdmittedCall
<1>3. /\ Len(steps') = Len(steps)
      /\ DOMAIN steps' = DOMAIN steps
      /\ steps' \in Seq(Step)
  <2>. DEFINE closed == [steps[number] EXCEPT
                           !.status = IF failed THEN "FAILED" ELSE "COMPLETED",
                           !.result = result, !.closed_by = token]
  <2>1. closed \in Step
    <3>1. steps[number] \in Step
      OBVIOUS
    <3>. QED
      BY <3>1 DEF Step, StepStatus
  <2>2. steps' = [steps EXCEPT ![number] = closed]
    BY DEF CompleteStep
  <2>. QED
    BY <2>1, <2>2
<1>4. /\ \A i \in DOMAIN steps \ {number} : steps'[i] = steps[i]
      /\ steps'[number].status \in {"COMPLETED", "FAILED"}
      /\ steps'[number].by = token
      /\ steps'[number].closed_by = token
  <2>1. steps[number] \in Step
    OBVIOUS
  <2>2. \A i \in DOMAIN steps \ {number} : steps'[i] = steps[i]
    BY DEF CompleteStep
  <2>3. /\ steps'[number].status \in {"COMPLETED", "FAILED"}
        /\ steps'[number].by = steps[number].by
        /\ steps'[number].closed_by = token
    BY <2>1 DEF CompleteStep, Step
  <2>. QED
    BY <1>2, <2>2, <2>3
<1>5. /\ run' \in Run
      /\ run'.status = run.status
      /\ run'.token = run.token
      /\ run'.attempts = run.attempts
  <2>1. run.completed + Progress(failed) \in Nat
    BY <1>1 DEF Run
  <2>. QED
    BY <1>1, <2>1 DEF CompleteStep, Run
<1>6. TypeOK' /\ TokenIsCurrent'
  BY <1>3, <1>5 DEF TokenIsCurrent, CompleteStep
<1>7. StepsHaveAttempts' /\ ClosedByItsWorker' /\ AttemptsInOrder'
  BY <1>2, <1>3, <1>4, <1>5 DEF StepsHaveAttempts, ClosedByItsWorker, AttemptsInOrder
<1>8. OneAdmittedCall'
  BY <1>2, <1>3, <1>4, <1>5 DEF OneAdmittedCall, Open
<1>. QED
  BY <1>6, <1>7, <1>8

LEMMA FinishKeepsIInv ==
  ASSUME IInv, NEW t \in Readings, NEW token \in Tokens, NEW result \in Results,
         NEW complete \in BOOLEAN, Finish(token, result, complete, t)
  PROVE  IInv'
<1>. USE JournalAssumption DEF IInv, TypeOK
<1>1. /\ run' \in Run
      /\ run'.status # "RUNNING"
      /\ run'.token = NoToken
      /\ run'.attempts = run.attempts
      /\ Open = {}
      /\ UNCHANGED <<clock, steps>>
  <2>1. t \in Nat
    BY JournalAssumption DEF Readings
  <2>. QED
    BY <2>1 DEF Finish, Run, RunStatus, NoLease
<1>2. TypeOK' /\ TokenIsCurrent' /\ StepsHaveAttempts'
  BY <1>1 DEF TokenIsCurrent, StepsHaveAttempts
<1>3. OneAdmittedCall' /\ ClosedByItsWorker' /\ AttemptsInOrder'
  BY <1>1 DEF OneAdmittedCall, ClosedByItsWorker, AttemptsInOrder, Open
<1>. QED
  BY <1>2, <1>3

LEMMA PublicationKeepsIInv ==
  ASSUME IInv, NEW t \in Readings, NEW outcome \in Outcomes,
         RecordPublication(outcome, t)
  PROVE  IInv'
<1>. USE JournalAssumption DEF IInv, TypeOK
<1>1. /\ run' \in Run
      /\ run'.status = run.status
      /\ run'.token = run.token
      /\ run'.attempts = run.attempts
      /\ UNCHANGED <<clock, steps>>
  <2>1. t \in Nat
    BY JournalAssumption DEF Readings
  <2>. QED
    BY <2>1 DEF RecordPublication, Run
<1>2. TypeOK' /\ TokenIsCurrent' /\ StepsHaveAttempts'
  BY <1>1 DEF TokenIsCurrent, StepsHaveAttempts
<1>3. OneAdmittedCall' /\ ClosedByItsWorker' /\ AttemptsInOrder'
  BY <1>1 DEF OneAdmittedCall, ClosedByItsWorker, AttemptsInOrder, Open
<1>. QED
  BY <1>2, <1>3

LEMMA NextKeepsIInv == IInv /\ [Next]_vars => IInv'
<1>. SUFFICES ASSUME IInv, [Next]_vars PROVE IInv'
  OBVIOUS
<1>1. CASE Tick \/ UNCHANGED vars
  <2>1. TypeOK'
    BY <1>1, JournalAssumption DEF Tick, vars, IInv, TypeOK, Times
  <2>2. UNCHANGED <<run, steps>>
    BY <1>1 DEF Tick, vars
  <2>. QED
    BY <2>1, <2>2 DEF IInv, TokenIsCurrent, StepsHaveAttempts, OneAdmittedCall,
                      ClosedByItsWorker, AttemptsInOrder, Open
<1>2. ASSUME NEW t \in Readings, Write(t) PROVE IInv'
  BY <1>2, AcquireKeepsIInv, StartStepKeepsIInv, CompleteStepKeepsIInv,
     FinishKeepsIInv, PublicationKeepsIInv DEF Write
<1>. QED
  BY <1>1, <1>2 DEF Next

\* The inductive invariant holds of every behaviour of the journal.
THEOREM JournalInvariant == Spec => []IInv
<1>. QED
  BY InitIInv, NextKeepsIInv, PTL DEF Spec

\* The rows of the journal always have their types, so in particular attempts
\* stay within the budget whatever workers crash and whenever they return.
THEOREM TypeCorrect == Spec => []TypeOK
<1>1. IInv => TypeOK
  BY DEF IInv
<1>. QED
  BY <1>1, JournalInvariant, PTL

\* At most one call is admitted, and it is the current owner's.
THEOREM OneCallAtATime == Spec => []OneAdmittedCall
<1>1. IInv => OneAdmittedCall
  BY DEF IInv
<1>. QED
  BY <1>1, JournalInvariant, PTL

\* Fencing: a step is only ever closed by the attempt that started it.
THEOREM Fenced == Spec => []ClosedByItsWorker
<1>1. IInv => ClosedByItsWorker
  BY DEF IInv
<1>. QED
  BY <1>1, JournalInvariant, PTL

-----------------------------------------------------------------------------
\* The journal has no more steps than its budget.
StepsBounded == Len(steps) <= MaxSteps

LEMMA StepsStayBounded == IInv /\ StepsBounded /\ [Next]_vars => StepsBounded'
<1>. SUFFICES ASSUME IInv, StepsBounded, [Next]_vars PROVE StepsBounded'
  OBVIOUS
<1>1. steps \in Seq(Step) /\ Len(steps) \in Nat /\ MaxSteps \in Nat
  BY JournalAssumption DEF IInv, TypeOK
<1>2. CASE UNCHANGED steps
  BY <1>2 DEF StepsBounded
<1>3. ASSUME NEW t \in Readings, NEW lease \in Leases, Acquire(t, lease) PROVE StepsBounded'
  <2>1. steps' = [i \in 1..Len(steps) |-> Interrupted(steps[i])]
    BY <1>1, <1>3 DEF Acquire
  <2>2. Len(steps') = Len(steps)
    BY <1>1, <2>1
  <2>. QED
    BY <2>2 DEF StepsBounded
<1>4. ASSUME NEW t \in Readings, NEW token \in Tokens, NEW tool \in Tools,
             StartStep(token, tool, t)
      PROVE  StepsBounded'
  <2>1. Len(steps') = Len(steps) + 1 /\ Len(steps) < MaxSteps
    BY <1>1, <1>4 DEF StartStep
  <2>. QED
    BY <1>1, <2>1 DEF StepsBounded
<1>5. ASSUME NEW t \in Readings, NEW token \in Tokens, NEW number \in DOMAIN steps,
             NEW result \in Results, NEW failed \in BOOLEAN,
             CompleteStep(token, number, result, failed, t)
      PROVE  StepsBounded'
  <2>1. Len(steps') = Len(steps)
    BY <1>1, <1>5 DEF CompleteStep
  <2>. QED
    BY <2>1 DEF StepsBounded
<1>6. ASSUME NEW t \in Readings, Write(t) PROVE StepsBounded'
  BY <1>2, <1>3, <1>4, <1>5, <1>6 DEF Write, Finish, RecordPublication
<1>7. CASE Tick \/ UNCHANGED vars
  BY <1>2, <1>7 DEF Tick, vars
<1>. QED
  BY <1>6, <1>7 DEF Next

LEMMA InitPromise == Init => Promise!Init
<1>. SUFFICES ASSUME Init PROVE Promise!Init
  OBVIOUS
<1>1. Phase = "idle" /\ Outcome = {} /\ run.attempts = 0
  BY DEF Init, Phase, Outcome
<1>2. Evidence = {}
  BY DEF Init, Evidence, Answered
<1>. QED
  BY <1>1, <1>2 DEF Promise!Init, Phase, Evidence, Outcome

\* A step that changes nothing the abstract run is told of is a stutter of it.
LEMMA Stutters ==
  ASSUME UNCHANGED <<Phase, run.attempts, Evidence, Outcome>>
  PROVE  UNCHANGED Promise!vars
BY DEF Promise!vars, Phase, Evidence, Outcome

LEMMA AcquireBegins ==
  ASSUME IInv, NEW t \in Readings, NEW lease \in Leases, Acquire(t, lease)
  PROVE  Promise!Begin
<1>. USE DEF IInv, TypeOK
<1>1. /\ run.status \in {"ABSENT", "RUNNING", "PAUSED"} /\ run.attempts < MaxAttempts
      /\ run'.status = "RUNNING" /\ run'.attempts = run.attempts + 1
  BY DEF Acquire, Acquirable, Run, RunStatus
<1>2. Phase \in {"idle", "active"} /\ Phase' = "active" /\ Outcome = {} /\ Outcome' = {}
  BY <1>1 DEF Phase, Outcome
<1>3. Evidence' = Evidence
  <2>1. /\ steps' = [i \in DOMAIN steps |-> Interrupted(steps[i])]
        /\ DOMAIN steps' = DOMAIN steps
        /\ \A i \in DOMAIN steps : steps[i] \in Step
    BY DEF Acquire
  <2>2. \A i \in DOMAIN steps : steps[i].status = "COMPLETED" => steps'[i] = steps[i]
    BY <2>1 DEF Interrupted
  <2>3. \A i \in DOMAIN steps : steps'[i].status = "COMPLETED" <=> steps[i].status = "COMPLETED"
    BY <2>1 DEF Interrupted, Step
  <2>4. Answered' = Answered
    BY <2>1, <2>3 DEF Answered
  <2>. QED
    BY <2>2, <2>4 DEF Evidence, Answered
<1>. QED
  BY <1>1, <1>2, <1>3 DEF Promise!Begin, Phase, Evidence, Outcome

LEMMA CompletionRecords ==
  ASSUME IInv, StepsBounded, NEW t \in Readings, NEW token \in Tokens,
         NEW number \in DOMAIN steps, NEW result \in Results, NEW failed \in BOOLEAN,
         CompleteStep(token, number, result, failed, t)
  PROVE  Promise!Record \/ UNCHANGED Promise!vars
<1>. USE DEF IInv, TypeOK
<1>1. /\ run.status = "RUNNING" /\ run'.status = "RUNNING" /\ run'.attempts = run.attempts
      /\ number \notin Answered
      /\ \A i \in DOMAIN steps : steps[i] \in Step
  BY DEF CompleteStep, Owned, Admitted, Open, Answered, Run
<1>2. Phase = "active" /\ UNCHANGED <<Phase, run.attempts, Outcome>>
  BY <1>1 DEF Phase, Outcome
<1>3. /\ DOMAIN steps' = DOMAIN steps
      /\ \A i \in DOMAIN steps \ {number} : steps'[i] = steps[i]
      /\ steps'[number].status = IF failed THEN "FAILED" ELSE "COMPLETED"
      /\ steps'[number].result = result
  BY <1>1 DEF CompleteStep, Step
<1>4. number \in 1..MaxSteps
  BY JournalAssumption DEF StepsBounded
<1>5. CASE failed
  <2>1. Answered' = Answered
    BY <1>1, <1>3, <1>5 DEF Answered
  <2>2. Evidence' = Evidence
    BY <1>1, <1>3, <2>1 DEF Evidence, Answered
  <2>. QED
    BY <1>2, <2>2, Stutters
<1>6. CASE ~failed
  <2>1. Answered' = Answered \cup {number}
    BY <1>1, <1>3, <1>6 DEF Answered
  <2>2. \A i \in Answered : steps'[i].result = steps[i].result
    BY <1>1, <1>3 DEF Answered
  <2>3. Evidence' = Evidence \cup {<<number, result>>}
    BY <1>3, <2>1, <2>2 DEF Evidence
  <2>4. \A e \in Evidence : e[1] # number
    BY <1>1 DEF Evidence
  <2>. QED
    BY <1>2, <1>4, <2>3, <2>4 DEF Promise!Record, Phase, Evidence, Outcome
<1>. QED
  BY <1>5, <1>6

LEMMA FinishSettles ==
  ASSUME IInv, NEW t \in Readings, NEW token \in Tokens, NEW result \in Results,
         NEW complete \in BOOLEAN, Finish(token, result, complete, t)
  PROVE  Promise!Suspend \/ Promise!Seal
<1>. USE DEF IInv, TypeOK
<1>1. /\ run.status = "RUNNING" /\ run'.attempts = run.attempts
      /\ run'.status = IF complete THEN "COMPLETED" ELSE "PAUSED"
      /\ run'.result = result /\ UNCHANGED steps
  BY DEF Finish, Owned, Run
<1>2. Evidence' = Evidence
  BY <1>1 DEF Evidence, Answered
<1>3. CASE complete
  <2>1. Phase = "active" /\ Phase' = "sealed" /\ Outcome' = {result}
    BY <1>1, <1>3 DEF Phase, Outcome
  <2>. QED
    BY <1>1, <1>2, <2>1 DEF Promise!Seal, Phase, Evidence, Outcome
<1>4. CASE ~complete
  <2>1. Phase = "active" /\ Phase' = "idle" /\ Outcome = {} /\ Outcome' = {}
    BY <1>1, <1>4 DEF Phase, Outcome
  <2>. QED
    BY <1>1, <1>2, <2>1 DEF Promise!Suspend, Phase, Evidence, Outcome
<1>. QED
  BY <1>3, <1>4

LEMMA NextPromise == IInv /\ StepsBounded /\ [Next]_vars => [Promise!Next]_(Promise!vars)
<1>. SUFFICES ASSUME IInv, StepsBounded, [Next]_vars
              PROVE  Promise!Next \/ UNCHANGED Promise!vars
  OBVIOUS
<1>1. CASE Tick \/ UNCHANGED vars
  <2>1. UNCHANGED <<Phase, run.attempts, Evidence, Outcome>>
    BY <1>1 DEF Tick, vars, Phase, Evidence, Outcome, Answered
  <2>. QED
    BY <2>1, Stutters
<1>2. ASSUME NEW t \in Readings, NEW outcome \in Outcomes, RecordPublication(outcome, t)
      PROVE  UNCHANGED Promise!vars
  <2>1. /\ run'.status = run.status /\ run'.attempts = run.attempts
        /\ run'.result = run.result /\ UNCHANGED steps
    BY <1>2 DEF RecordPublication, IInv, TypeOK, Run
  <2>2. UNCHANGED <<Phase, run.attempts, Evidence, Outcome>>
    BY <2>1 DEF Phase, Evidence, Outcome, Answered
  <2>. QED
    BY <2>2, Stutters
<1>3. ASSUME NEW t \in Readings, NEW token \in Tokens, NEW tool \in Tools,
             StartStep(token, tool, t)
      PROVE  UNCHANGED Promise!vars
  <2>1. /\ UNCHANGED run
        /\ DOMAIN steps \subseteq DOMAIN steps'
        /\ \A i \in DOMAIN steps : steps'[i] = steps[i]
        /\ \A i \in DOMAIN steps' \ DOMAIN steps : steps'[i].status = "STARTED"
    BY <1>3 DEF StartStep, IInv, TypeOK
  <2>2. Answered' = Answered
    BY <2>1 DEF Answered
  <2>3. UNCHANGED <<Phase, run.attempts, Evidence, Outcome>>
    BY <2>1, <2>2 DEF Phase, Evidence, Outcome, Answered
  <2>. QED
    BY <2>3, Stutters
<1>4. ASSUME NEW t \in Readings, Write(t)
      PROVE  Promise!Next \/ UNCHANGED Promise!vars
  BY <1>2, <1>3, <1>4, AcquireBegins, CompletionRecords, FinishSettles
     DEF Write, Promise!Next
<1>. QED
  BY <1>1, <1>4 DEF Next

\* Every behaviour of the journal is one that the abstract run allows: attempts within the
\* budget, evidence that only grows, an outcome that is final.
THEOREM JournalKeepsPromise == Spec => ImplementsPromise
<1>1. Init => StepsBounded
  BY JournalAssumption DEF Init, StepsBounded
<1>2. Spec => []StepsBounded
  BY <1>1, StepsStayBounded, JournalInvariant, PTL DEF Spec
<1>. QED
  BY <1>2, InitPromise, NextPromise, JournalInvariant, PTL
     DEF Spec, ImplementsPromise, Promise!Spec

-----------------------------------------------------------------------------
(***************************************************************************)
(* The coordinator.                                                        *)
(***************************************************************************)
\* A worker that is at work, and one whose token the journal still accepts.
Active(w) == worker[w].pc \notin {"idle", "aborted"}

Holds(w) == Active(w) /\ run.token = worker[w].token

\* Tokens are drawn from the journal, and no two workers have drawn the same.
TokenIsDrawn(w) == Active(w) => worker[w].token \in 1..run.attempts

TokensAreOwn ==
  \A v, w \in Workers :
    Active(v) /\ Active(w) /\ worker[v].token = worker[w].token => v = w

\* What a worker remembers of the evidence is in the journal, whoever works on
\* the run now: answers are never taken back.
MemoryIsEvidence(w) ==
  Active(w) => /\ worker[w].passages => Passages # {}
               /\ worker[w].finished => worker[w].pc = "finishing" /\ worker[w].passages

\* While no other worker has taken the run over, what a worker remembers of the
\* tools is exactly what the journal says.
HolderKnows(w) ==
  Holds(w) =>
    /\ Open = IF worker[w].pc \in {"choosing", "reading", "deciding"}
                THEN {worker[w].number} ELSE {}
    /\ worker[w].pc # "loading" => worker[w].used = Cardinality(ToolSteps)
    /\ worker[w].pc \in {"choosing", "chosen"} => worker[w].used < MaxTools
    /\ worker[w].pc \in {"chosen", "reading"} => worker[w].choice \in PublicTools
    /\ worker[w].pc = "reading" => steps[worker[w].number].tool = worker[w].choice
    /\ worker[w].finished =>
         /\ steps[Len(steps)].status = "COMPLETED"
         /\ steps[Len(steps)].result = "done"

\* Steps come in pairs of a choice and its read; each attempt may add one that
\* has no read, and has not yet done so while it is loading, looping or reading.
AttemptIsPaired(w) ==
  Holds(w) /\ worker[w].pc \in {"loading", "looping", "reading"} =>
    Len(steps) + 1 <= 2 * Cardinality(ToolSteps) + run.attempts

StepsArePaired == Len(steps) <= 2 * Cardinality(ToolSteps) + run.attempts

WorkerInv(w) ==
  /\ TokenIsDrawn(w)
  /\ MemoryIsEvidence(w)
  /\ HolderKnows(w)
  /\ AttemptIsPaired(w)

\* The inductive invariant: the journal's own, and what ties the workers to it.
CInv ==
  /\ IInv
  /\ worker \in [Workers -> Worker]
  /\ TokensAreOwn
  /\ \A w \in Workers : WorkerInv(w)
  /\ StepsArePaired
  /\ ToolBudgetSurvivesRestarts
  /\ CompleteOnEvidence

-----------------------------------------------------------------------------
\* The journal's transactions as a worker with a current reading calls them.

LEMMA Constants ==
  /\ MaxTools \in Nat /\ MaxAttempts \in Nat /\ MaxSteps \in Nat /\ Skew \in Nat
  /\ Margin \in Nat /\ Timeout \in Nat /\ Delay \in Nat
  /\ \A window \in Windows : window \in Nat /\ LeaseFor(window) \in Leases
  /\ \A w \in Workers : Offset[w] \in Nat /\ Offset[w] <= Skew
  BY JournalAssumption, CoordinatorAssumption DEF LeaseFor

\* What a worker's clock shows is a reading its transactions may carry.
LEMMA Now ==
  ASSUME TypeOK, NEW w \in Workers
  PROVE  Reading(w) \in Readings /\ Arrival(w) \in Nat /\ clock \in Nat
<1>1. clock \in 1..MaxClock /\ MaxClock \in Nat
  BY JournalAssumption DEF TypeOK, Times
<1>. QED
  BY <1>1, Constants DEF Readings, Reading, Arrival

LEMMA FiniteSteps ==
  ASSUME TypeOK
  PROVE  /\ Len(steps) \in Nat
         /\ DOMAIN steps = 1..Len(steps)
         /\ \A i \in DOMAIN steps : steps[i] \in Step
         /\ IsFiniteSet(ToolSteps)
         /\ Cardinality(ToolSteps) \in Nat
<1>1. /\ Len(steps) \in Nat
      /\ DOMAIN steps = 1..Len(steps)
      /\ \A i \in DOMAIN steps : steps[i] \in Step
  BY DEF TypeOK
<1>2. IsFiniteSet(1..Len(steps))
  BY <1>1, FS_Interval
<1>3. ToolSteps \subseteq 1..Len(steps)
  BY <1>1 DEF ToolSteps
<1>4. IsFiniteSet(ToolSteps)
  BY <1>2, <1>3, FS_Subset
<1>. QED
  BY <1>1, <1>4, FS_CardinalityType

LEMMA Acquiring ==
  ASSUME IInv, NEW w \in Workers, NEW lease \in Leases, Acquire(Reading(w), lease)
  PROVE  /\ IInv'
         /\ Len(steps') = Len(steps)
         /\ Open' = {}
         /\ ToolSteps' = ToolSteps
         /\ Passages' = Passages
         /\ run.status # "COMPLETED"
         /\ run'.status = "RUNNING"
         /\ run'.token = run.attempts + 1
         /\ run'.attempts = run.attempts + 1
         /\ run'.attempts \in Tokens
<1>. USE DEF IInv
<1>1. IInv'
  BY Now, AcquireKeepsIInv
<1>2. /\ steps' = [i \in DOMAIN steps |-> Interrupted(steps[i])]
      /\ run.status # "COMPLETED"
      /\ run.attempts < MaxAttempts
  BY DEF Acquire, Acquirable
<1>3. /\ run'.status = "RUNNING"
      /\ run'.token = run.attempts + 1
      /\ run'.attempts = run.attempts + 1
      /\ run'.attempts \in Tokens
  BY <1>2, Constants DEF Acquire, TypeOK, Run, Tokens
<1>4. Len(steps') = Len(steps) /\ DOMAIN steps' = DOMAIN steps
  BY <1>2, FiniteSteps
<1>5. \A i \in DOMAIN steps :
        /\ steps'[i].status # "STARTED"
        /\ steps'[i].status = "COMPLETED" <=> steps[i].status = "COMPLETED"
        /\ steps'[i].tool = steps[i].tool
        /\ steps'[i].result = steps[i].result
  <2>. TAKE i \in DOMAIN steps
  <2>1. steps[i] \in Step /\ steps'[i] = Interrupted(steps[i])
    BY <1>2, FiniteSteps
  <2>2. CASE steps[i].status = "STARTED"
    BY <2>1, <2>2 DEF Interrupted, Step
  <2>3. CASE steps[i].status # "STARTED"
    BY <2>1, <2>3 DEF Interrupted
  <2>. QED
    BY <2>2, <2>3
<1>6. Open' = {} /\ ToolSteps' = ToolSteps
  BY <1>4, <1>5 DEF Open, ToolSteps
<1>7. Answered' = Answered
  BY <1>4, <1>5 DEF Answered
<1>8. Passages' = Passages
  BY <1>5, <1>7 DEF Passages, Documents, Answered
<1>. QED
  BY <1>1, <1>2, <1>3, <1>4, <1>6, <1>8

LEMMA Starting ==
  ASSUME IInv, NEW w \in Workers, NEW token \in Tokens, NEW tool \in Tools,
         StartStep(token, tool, Reading(w))
  PROVE  /\ IInv'
         /\ run' = run
         /\ run.status = "RUNNING" /\ run.token = token
         /\ Len(steps) + 1 \in 1..MaxSteps
         /\ Len(steps') = Len(steps) + 1
         /\ steps'[Len(steps) + 1].tool = tool
         /\ Open' = {Len(steps) + 1}
         /\ Passages' = Passages
         /\ tool \notin PublicTools => Cardinality(ToolSteps') = Cardinality(ToolSteps)
         /\ tool \in PublicTools => Cardinality(ToolSteps') = Cardinality(ToolSteps) + 1
<1>. USE DEF IInv
<1>. DEFINE new == [tool |-> tool, status |-> "STARTED", started_at |-> Reading(w),
                    result |-> None, by |-> token, closed_by |-> NoToken]
            n == Len(steps) + 1
<1>1. IInv'
  BY Now, StartStepKeepsIInv
<1>2. /\ steps' = Append(steps, new) /\ run' = run
      /\ run.status = "RUNNING" /\ run.token = token
      /\ Open = {}
      /\ Len(steps) < MaxSteps
  BY DEF StartStep, Owned
<1>3. /\ n \in 1..MaxSteps
      /\ Len(steps') = n
      /\ DOMAIN steps' = DOMAIN steps \cup {n}
      /\ n \notin DOMAIN steps
      /\ \A i \in DOMAIN steps : steps'[i] = steps[i]
      /\ steps'[n] = new
  BY <1>2, FiniteSteps, Constants
<1>4. Open' = {n}
  BY <1>2, <1>3 DEF Open
<1>5. Answered' = Answered
  BY <1>3 DEF Answered
<1>6. Passages' = Passages
  BY <1>3, <1>5 DEF Passages, Documents, Answered
<1>7. ToolSteps' = IF tool \in PublicTools THEN ToolSteps \cup {n} ELSE ToolSteps
  BY <1>3 DEF ToolSteps
<1>8. n \notin ToolSteps
  BY <1>3 DEF ToolSteps
<1>9. Cardinality(ToolSteps \cup {n}) = Cardinality(ToolSteps) + 1
  BY <1>8, FiniteSteps, FS_AddElement
<1>10. steps'[n].tool = tool
  BY <1>3
<1>. QED
  BY <1>1, <1>2, <1>3, <1>4, <1>6, <1>7, <1>9, <1>10

LEMMA Completing ==
  ASSUME IInv, NEW w \in Workers, NEW token \in Tokens, NEW number \in 0..MaxSteps,
         NEW result \in Results,
         NEW failed \in BOOLEAN, CompleteStep(token, number, result, failed, Reading(w))
  PROVE  /\ IInv'
         /\ run'.status = "RUNNING" /\ run'.token = run.token
         /\ run'.attempts = run.attempts
         /\ run.status = "RUNNING" /\ run.token = token
         /\ number = Len(steps) /\ Len(steps') = Len(steps)
         /\ Open' = {}
         /\ ToolSteps' = ToolSteps
         /\ Passages \subseteq Passages'
         /\ ~failed => steps'[Len(steps)].status = "COMPLETED"
         /\ steps'[Len(steps)].result = result
         /\ ~failed /\ steps[number].tool = "fetch_document" /\ result = "passages"
              => Passages' # {}
<1>. USE DEF IInv
<1>1. number \in DOMAIN steps /\ number \in Open
  BY DEF CompleteStep, Admitted, Open
<1>2. IInv'
  BY <1>1, Now, CompleteStepKeepsIInv
<1>3. /\ run'.status = "RUNNING" /\ run'.token = run.token
      /\ run'.attempts = run.attempts
      /\ run.status = "RUNNING" /\ run.token = token
  BY DEF CompleteStep, Owned, TypeOK, Run
<1>4. /\ number = Len(steps)
      /\ \A i \in Open : i = number
  BY <1>1 DEF OneAdmittedCall
<1>5. /\ Len(steps') = Len(steps) /\ DOMAIN steps' = DOMAIN steps
      /\ \A i \in DOMAIN steps \ {number} : steps'[i] = steps[i]
  BY FiniteSteps DEF CompleteStep, TypeOK
<1>6. /\ steps'[number].status = IF failed THEN "FAILED" ELSE "COMPLETED"
      /\ steps'[number].result = result
      /\ steps'[number].tool = steps[number].tool
  <2>1. steps[number] \in Step
    BY <1>1, FiniteSteps
  <2>. QED
    BY <1>1, <2>1 DEF CompleteStep, Step
<1>7. Open' = {}
  BY <1>4, <1>5, <1>6 DEF Open
<1>8. ToolSteps' = ToolSteps
  BY <1>1, <1>5, <1>6 DEF ToolSteps
<1>9. \A i \in Answered : i # number
  BY <1>1 DEF Open, Answered
<1>10. Passages \subseteq Passages'
  BY <1>5, <1>9 DEF Passages, Documents, Answered
<1>11. ~failed /\ steps[number].tool = "fetch_document" /\ result = "passages"
         => number \in Passages'
  BY <1>1, <1>5, <1>6 DEF Passages, Documents, Answered
<1>. QED
  BY <1>2, <1>3, <1>4, <1>5, <1>6, <1>7, <1>8, <1>10, <1>11

-----------------------------------------------------------------------------
\* A worker's step leaves the others as they were.
LEMMA ChangesOne ==
  ASSUME worker \in [Workers -> Worker], NEW w \in Workers, NEW change \in Worker,
         Becomes(w, change)
  PROVE  /\ worker' \in [Workers -> Worker]
         /\ worker'[w] = change
         /\ \A v \in Workers \ {w} : worker'[v] = worker[v]
  BY DEF Becomes

LEMMA Working ==
  ASSUME CInv, NEW w \in Workers
  PROVE  /\ worker[w] \in Worker
         /\ run.attempts \in Nat
         /\ Arrival(w) \in Nat
         /\ NoToken \notin 1..run.attempts
         /\ Active(w) => worker[w].token \in Tokens /\ worker[w].token \in 1..run.attempts
<1>1. worker[w] \in Worker /\ TokenIsDrawn(w)
  BY DEF CInv, WorkerInv
<1>2. run.attempts \in 0..MaxAttempts
  BY DEF CInv, IInv, TypeOK, Run
<1>. QED
  BY <1>1, <1>2, Constants, Now DEF CInv, IInv, TokenIsDrawn, Tokens, NoToken

\* When the worker that owns the run writes, no other worker owns it, before or after.
LEMMA OthersKeep ==
  ASSUME CInv, NEW w \in Workers, Active(w), run.token = worker[w].token,
         run'.token \in {run.token, NoToken}, run'.attempts = run.attempts,
         Passages \subseteq Passages',
         NEW v \in Workers \ {w}, worker'[v] = worker[v]
  PROVE  WorkerInv(v)'
<1>1. WorkerInv(v) /\ TokensAreOwn
  BY DEF CInv
<1>2. TokenIsDrawn(v)' /\ MemoryIsEvidence(v)'
  BY <1>1 DEF WorkerInv, TokenIsDrawn, MemoryIsEvidence, Active
<1>3. ~Holds(v)'
  BY <1>1, Working DEF TokensAreOwn, Holds, Active
<1>. QED
  BY <1>2, <1>3 DEF WorkerInv, HolderKnows, AttemptIsPaired

\* A step of a worker that leaves the journal alone keeps all but that worker's part.
LEMMA LocalStep ==
  ASSUME CInv, NEW w \in Workers, NEW change \in Worker, Becomes(w, change), UNCHANGED vars,
         \/ change.pc = "idle" \/ change.pc = "aborted"
         \/ Active(w) /\ change.token = worker[w].token,
         WorkerInv(w)'
  PROVE  CInv'
<1>1. /\ worker' \in [Workers -> Worker]
      /\ worker'[w] = change
      /\ \A v \in Workers \ {w} : worker'[v] = worker[v]
  BY ChangesOne DEF CInv
<1>2. UNCHANGED <<run, steps, clock>>
  BY DEF vars
<1>3. IInv'
  BY NextKeepsIInv DEF CInv
<1>4. TokensAreOwn'
  BY <1>1 DEF CInv, TokensAreOwn, Active
<1>5. ASSUME NEW v \in Workers \ {w} PROVE WorkerInv(v)'
  <2>1. WorkerInv(v) /\ worker'[v] = worker[v]
    BY <1>1 DEF CInv
  <2>. QED
    BY <1>2, <2>1 DEF WorkerInv, TokenIsDrawn, MemoryIsEvidence, HolderKnows,
                      AttemptIsPaired, Holds, Active, Open, ToolSteps, Passages, Documents, Answered
<1>6. StepsArePaired' /\ ToolBudgetSurvivesRestarts' /\ CompleteOnEvidence'
  BY <1>2 DEF CInv, StepsArePaired, ToolBudgetSurvivesRestarts, CompleteOnEvidence,
              ToolSteps, Passages, Documents, Answered
<1>. QED
  BY <1>1, <1>3, <1>4, <1>5, <1>6 DEF CInv

LEMMA IdleIsWorker ==
  /\ Idle \in Worker
  /\ Idle.pc = "idle" /\ Idle.token = NoToken
  /\ ~Idle.passages /\ ~Idle.finished
  /\ [Idle EXCEPT !.pc = "aborted"] \in Worker
  /\ [Idle EXCEPT !.pc = "aborted"].pc = "aborted"
<1>1. "done" \in Results /\ 0 \in 0..MaxTools /\ 0 \in 0..MaxSteps
  BY Constants, CoordinatorAssumption
<1>. QED
  BY <1>1 DEF Worker, Idle, Places

LEMMA BeginKeepsCInv ==
  ASSUME CInv, NEW w \in Workers, NEW window \in Windows, Begin(w, window)
  PROVE  CInv'
<1>. DEFINE begun == [Idle EXCEPT !.pc = "loading", !.token = run.attempts + 1,
                                  !.deadline = clock + window]
            new == [begun EXCEPT !.since = Arrival(w)]
<1>1. Acquire(Reading(w), LeaseFor(window)) /\ Becomes(w, new)
  BY DEF Begin, Goes
<1>2. /\ IInv' /\ Len(steps') = Len(steps)
      /\ Open' = {} /\ ToolSteps' = ToolSteps /\ Passages' = Passages
      /\ run.status # "COMPLETED" /\ run'.status = "RUNNING"
      /\ run'.token = run.attempts + 1 /\ run'.attempts = run.attempts + 1
      /\ run'.attempts \in Tokens
  BY <1>1, Acquiring, Constants DEF CInv
<1>3. new \in Worker
  <2>1. clock + window \in Nat /\ Arrival(w) \in Nat
    BY Now, Constants DEF CInv, IInv
  <2>2. begun \in Worker
    BY <1>2, <2>1, IdleIsWorker DEF Worker, Places
  <2>. QED
    BY <2>1, <2>2 DEF Worker
<1>4. /\ worker' \in [Workers -> Worker]
      /\ worker'[w] = new
      /\ \A v \in Workers \ {w} : worker'[v] = worker[v]
  BY <1>1, <1>3, ChangesOne DEF CInv
<1>5. /\ new.pc = "loading" /\ new.token = run.attempts + 1
      /\ ~new.passages /\ ~new.finished
  BY DEF Idle
<1>. HIDE DEF new
<1>6. /\ run.attempts \in Nat /\ Len(steps) \in Nat /\ Cardinality(ToolSteps) \in Nat
      /\ run.attempts + 1 \notin 1..run.attempts
      /\ run.attempts + 1 \in 1..(run.attempts + 1)
  BY Working, FiniteSteps DEF CInv, IInv
<1>7. ASSUME NEW v \in Workers \ {w}, Active(v)
      PROVE  worker[v].token \in 1..run.attempts /\ worker[v].token # run.attempts + 1
  BY <1>6, <1>7, Working
<1>8. TokensAreOwn'
  <2>1. \A v \in Workers \ {w} : Active(v)' => Active(v) /\ worker'[v].token = worker[v].token
    BY <1>4 DEF Active
  <2>2. \A v \in Workers \ {w} : Active(v)' => worker'[v].token # worker'[w].token
    BY <1>4, <1>5, <1>7, <2>1
  <2>3. \A u, v \in Workers \ {w} :
          Active(u)' /\ Active(v)' /\ worker'[u].token = worker'[v].token => u = v
    BY <2>1 DEF CInv, TokensAreOwn
  <2>. QED
    BY <2>2, <2>3 DEF TokensAreOwn
<1>9. WorkerInv(w)'
  <2>1. TokenIsDrawn(w)' /\ MemoryIsEvidence(w)'
    BY <1>2, <1>4, <1>5, <1>6 DEF TokenIsDrawn, MemoryIsEvidence
  <2>2. HolderKnows(w)'
    BY <1>2, <1>4, <1>5 DEF HolderKnows
  <2>3. Len(steps') + 1 <= 2 * Cardinality(ToolSteps') + run'.attempts
    BY <1>2, <1>6 DEF CInv, StepsArePaired
  <2>. QED
    BY <2>1, <2>2, <2>3 DEF WorkerInv, AttemptIsPaired
<1>10. ASSUME NEW v \in Workers \ {w} PROVE WorkerInv(v)'
  <2>1. WorkerInv(v) /\ worker'[v] = worker[v]
    BY <1>4 DEF CInv
  <2>2. TokenIsDrawn(v)'
    BY <1>2, <1>6, <1>7, <2>1 DEF TokenIsDrawn, Active
  <2>3. MemoryIsEvidence(v)'
    BY <1>2, <2>1 DEF WorkerInv, MemoryIsEvidence, Active
  <2>4. ~Holds(v)'
    BY <1>2, <1>7, <2>1 DEF Holds, Active
  <2>5. HolderKnows(v)' /\ AttemptIsPaired(v)'
    BY <2>4 DEF HolderKnows, AttemptIsPaired
  <2>. QED
    BY <2>2, <2>3, <2>5 DEF WorkerInv
<1>11. StepsArePaired' /\ ToolBudgetSurvivesRestarts' /\ CompleteOnEvidence'
  BY <1>2, <1>6 DEF CInv, StepsArePaired, ToolBudgetSurvivesRestarts, CompleteOnEvidence
<1>. QED
  BY <1>2, <1>4, <1>8, <1>9, <1>10, <1>11 DEF CInv

LEMMA LoadKeepsCInv ==
  ASSUME CInv, NEW w \in Workers, Load(w) PROVE CInv'
<1>. DEFINE local == [worker[w] EXCEPT !.pc = "looping", !.used = Cardinality(ToolSteps),
                                     !.documents = Documents # {},
                                     !.passages = Passages # {}]
            new == [local EXCEPT !.since = Arrival(w)]
<1>1. worker[w].pc = "loading" /\ Active(w) /\ Becomes(w, new) /\ UNCHANGED vars
  BY DEF Goes, Load, At, Active, UsedTools
<1>2. worker[w] \in Worker /\ Cardinality(ToolSteps) \in 0..MaxTools
  BY Working, FiniteSteps, Constants DEF CInv, IInv, ToolBudgetSurvivesRestarts
<1>3. new \in Worker
  BY <1>2, Working DEF Worker, Places
<1>4. /\ new.pc = "looping" /\ new.token = worker[w].token
      /\ new.used = Cardinality(ToolSteps) /\ new.finished = worker[w].finished
  BY <1>2 DEF Worker
<1>4a. new.passages = (Passages # {})
  BY <1>2 DEF Worker
<1>. HIDE DEF new
<1>5. worker'[w] = new
  BY <1>1, <1>3, ChangesOne DEF CInv
<1>6. UNCHANGED <<run, steps>>
  BY <1>1 DEF vars
<1>7. ~worker[w].finished
  BY <1>1 DEF CInv, WorkerInv, MemoryIsEvidence
<1>8. TokenIsDrawn(w)' /\ MemoryIsEvidence(w)'
  BY <1>1, <1>4, <1>4a, <1>5, <1>6, <1>7
     DEF CInv, WorkerInv, TokenIsDrawn, MemoryIsEvidence, Active, Passages, Documents, Answered
<1>9. HolderKnows(w)'
  BY <1>1, <1>4, <1>5, <1>6, <1>7
     DEF CInv, WorkerInv, HolderKnows, Holds, Active, Open, ToolSteps
<1>10. AttemptIsPaired(w)'
  BY <1>1, <1>4, <1>5, <1>6
     DEF CInv, WorkerInv, AttemptIsPaired, Holds, Active, ToolSteps
<1>. QED
  BY <1>1, <1>3, <1>4, <1>8, <1>9, <1>10, LocalStep DEF WorkerInv

LEMMA StopKeepsCInv ==
  ASSUME CInv, NEW w \in Workers, Stop(w) PROVE CInv'
<1>. DEFINE local == [worker[w] EXCEPT !.pc = "finishing"]
            new == [local EXCEPT !.since = Arrival(w)]
<1>1. worker[w].pc = "looping" /\ Active(w) /\ Becomes(w, new) /\ UNCHANGED vars
  BY DEF Goes, Stop, At, Active
<1>2. new \in Worker
  BY Working DEF Worker, Places
<1>3. /\ new.pc = "finishing" /\ new.token = worker[w].token /\ new.used = worker[w].used
      /\ new.finished = worker[w].finished /\ new.passages = worker[w].passages
  BY Working DEF Worker
<1>. HIDE DEF new
<1>4. worker'[w] = new
  BY <1>1, <1>2, ChangesOne DEF CInv
<1>5. UNCHANGED <<run, steps>>
  BY <1>1 DEF vars
<1>6. ~worker[w].finished
  BY <1>1 DEF CInv, WorkerInv, MemoryIsEvidence
<1>7. TokenIsDrawn(w)' /\ MemoryIsEvidence(w)'
  BY <1>1, <1>3, <1>4, <1>5, <1>6
     DEF CInv, WorkerInv, TokenIsDrawn, MemoryIsEvidence, Active, Passages, Documents, Answered
<1>8. HolderKnows(w)' /\ AttemptIsPaired(w)'
  BY <1>1, <1>3, <1>4, <1>5, <1>6
     DEF CInv, WorkerInv, HolderKnows, AttemptIsPaired, Holds, Active, Open, ToolSteps
<1>. QED
  BY <1>1, <1>2, <1>3, <1>7, <1>8, LocalStep DEF WorkerInv

\* A worker that ends, loses its lease or is killed holds nothing afterwards.
LEMMA LeavingKeeps ==
  ASSUME CInv, NEW w \in Workers, NEW change \in Worker, change.pc \in {"idle", "aborted"},
         Becomes(w, change), UNCHANGED vars
  PROVE  CInv'
<1>1. worker'[w] = change
  BY ChangesOne DEF CInv
<1>2. /\ TokenIsDrawn(w)' /\ MemoryIsEvidence(w)'
      /\ HolderKnows(w)' /\ AttemptIsPaired(w)'
  BY <1>1 DEF TokenIsDrawn, MemoryIsEvidence, HolderKnows, AttemptIsPaired, Holds, Active
<1>3. change.pc = "idle" \/ change.pc = "aborted"
  OBVIOUS
<1>. QED
  BY <1>2, <1>3, LocalStep DEF WorkerInv

LEMMA LeavingKeepsCInv ==
  ASSUME CInv, NEW w \in Workers, LoseLease(w) \/ Crash(w) PROVE CInv'
<1>1. \/ Becomes(w, Idle) /\ UNCHANGED vars
      \/ Becomes(w, [Idle EXCEPT !.pc = "aborted"]) /\ UNCHANGED vars
  BY DEF LoseLease, Crash
<1>. DEFINE aborted == [Idle EXCEPT !.pc = "aborted"]
<1>2. Idle \in Worker /\ Idle.pc = "idle" /\ aborted \in Worker /\ aborted.pc = "aborted"
  BY IdleIsWorker
<1>3. (\/ Becomes(w, Idle) \/ Becomes(w, aborted)) /\ UNCHANGED vars
  BY <1>1
<1>. HIDE DEF aborted
<1>4. CASE Becomes(w, Idle)
  BY <1>2, <1>3, <1>4, LeavingKeeps
<1>5. CASE Becomes(w, aborted)
  BY <1>2, <1>3, <1>5, LeavingKeeps
<1>. QED
  BY <1>3, <1>4, <1>5

-----------------------------------------------------------------------------
\* A worker that writes the journal keeps the parts that only others' actions or
\* other rows could disturb.
LEMMA WriterStep ==
  ASSUME CInv, NEW w \in Workers, NEW change \in Worker, Becomes(w, change),
         Active(w), run.token = worker[w].token,
         change.pc = "idle" \/ change.token = worker[w].token,
         IInv', run'.token \in {run.token, NoToken}, run'.attempts = run.attempts,
         Passages \subseteq Passages',
         MemoryIsEvidence(w)', HolderKnows(w)', AttemptIsPaired(w)',
         StepsArePaired', ToolBudgetSurvivesRestarts', CompleteOnEvidence'
  PROVE  CInv'
<1>1. /\ worker' \in [Workers -> Worker]
      /\ worker'[w] = change
      /\ \A v \in Workers \ {w} : worker'[v] = worker[v]
  BY ChangesOne DEF CInv
<1>2. TokensAreOwn'
  BY <1>1 DEF CInv, TokensAreOwn, Active
<1>3. TokenIsDrawn(w)'
  BY <1>1, Working DEF TokenIsDrawn, Active
<1>4. WorkerInv(w)'
  BY <1>3 DEF WorkerInv
<1>5. \A v \in Workers \ {w} : WorkerInv(v)'
  BY <1>1, OthersKeep DEF WorkerInv
<1>. QED
  BY <1>1, <1>2, <1>4, <1>5 DEF CInv

\* What the owner of the run knows before its step.
LEMMA OwnerKnows ==
  ASSUME CInv, NEW w \in Workers, Active(w), run.token = worker[w].token
  PROVE  /\ worker[w] \in Worker /\ worker[w].token \in Tokens
         /\ MemoryIsEvidence(w) /\ HolderKnows(w) /\ AttemptIsPaired(w) /\ Holds(w)
         /\ IInv /\ StepsArePaired /\ ToolBudgetSurvivesRestarts /\ CompleteOnEvidence
         /\ Len(steps) \in Nat /\ Cardinality(ToolSteps) \in Nat /\ run.attempts \in Nat
         /\ run.attempts <= MaxAttempts
<1>1. run.attempts \in 0..MaxAttempts
  BY DEF CInv, IInv, TypeOK, Run
<1>. QED
  BY <1>1, Constants, Working, FiniteSteps DEF CInv, IInv, WorkerInv, Holds

\* A step the worker starts: it waits for the step's answer afterwards.
LEMMA StartingKeepsCInv ==
  ASSUME CInv, NEW w \in Workers, NEW tool \in Tools, NEW change \in Worker,
         worker[w].pc \in {"looping", "chosen"},
         StartStep(worker[w].token, tool, Reading(w)), Becomes(w, change),
         change.pc \in {"choosing", "reading", "deciding"},
         change.token = worker[w].token, change.number = Len(steps'),
         change.passages = worker[w].passages, change.finished = worker[w].finished,
         change.choice = worker[w].choice,
         change.pc = "choosing" => worker[w].used < MaxTools,
         tool \in PublicTools <=> change.pc = "reading",
         change.pc = "reading" <=> worker[w].pc = "chosen",
         change.pc = "reading" => tool = worker[w].choice,
         change.used = IF tool \in PublicTools THEN worker[w].used + 1 ELSE worker[w].used
  PROVE  CInv'
<1>. DEFINE token == worker[w].token
            tools == Cardinality(ToolSteps)
<1>1. Active(w) /\ token \in Tokens /\ worker[w] \in Worker
  BY Working DEF Active
<1>2. /\ IInv' /\ run' = run /\ run.status = "RUNNING" /\ run.token = token
      /\ Len(steps') = Len(steps) + 1
      /\ steps'[Len(steps) + 1].tool = tool
      /\ Open' = {Len(steps) + 1}
      /\ Passages' = Passages
      /\ Cardinality(ToolSteps') = IF tool \in PublicTools THEN tools + 1 ELSE tools
  BY <1>1, Starting DEF CInv
<1>3. /\ MemoryIsEvidence(w) /\ HolderKnows(w) /\ AttemptIsPaired(w) /\ Holds(w)
      /\ StepsArePaired /\ ToolBudgetSurvivesRestarts
      /\ Len(steps) \in Nat /\ tools \in Nat /\ run.attempts \in Nat
  BY <1>1, <1>2, OwnerKnows
<1>4. worker'[w] = change
  BY ChangesOne DEF CInv
<1>5. worker[w].used = tools /\ ~worker[w].finished
  BY <1>1, <1>3 DEF HolderKnows, MemoryIsEvidence
<1>6. worker[w].pc = "chosen" => tools < MaxTools /\ worker[w].choice \in PublicTools
  BY <1>3, <1>5 DEF HolderKnows
<1>7. MemoryIsEvidence(w)'
  BY <1>1, <1>2, <1>3, <1>4, <1>5 DEF MemoryIsEvidence
<1>8. HolderKnows(w)'
  BY <1>2, <1>4, <1>5, <1>6 DEF HolderKnows
<1>9. worker[w].pc = "looping" => Len(steps) + 1 <= 2 * tools + run.attempts
  BY <1>3 DEF AttemptIsPaired
<1>10. StepsArePaired' /\ AttemptIsPaired(w)'
  <2>1. CASE worker[w].pc = "looping"
    BY <1>2, <1>3, <1>4, <1>9, <2>1 DEF StepsArePaired, AttemptIsPaired
  <2>2. CASE worker[w].pc = "chosen"
    <3>1. Len(steps') + 1 <= 2 * Cardinality(ToolSteps') + run'.attempts
      BY <1>2, <1>3, <2>2 DEF StepsArePaired
    <3>. QED
      BY <1>2, <1>3, <3>1 DEF StepsArePaired, AttemptIsPaired
  <2>. QED
    BY <2>1, <2>2
<1>11. ToolBudgetSurvivesRestarts'
  BY <1>2, <1>3, <1>6, Constants DEF ToolBudgetSurvivesRestarts
<1>12. CompleteOnEvidence'
  BY <1>2 DEF CompleteOnEvidence
<1>. QED
  BY <1>1, <1>2, <1>4, <1>7, <1>8, <1>10, <1>11, <1>12, WriterStep

\* A step the worker was waiting for is closed.
LEMMA CompletingKeepsCInv ==
  ASSUME CInv, NEW w \in Workers, NEW result \in Results, NEW failed \in BOOLEAN,
         NEW change \in Worker,
         worker[w].pc \in {"choosing", "reading", "deciding"},
         CompleteStep(worker[w].token, worker[w].number, result, failed, Reading(w)),
         Becomes(w, change),
         change.pc \in {"chosen", "looping", "finishing"},
         change.token = worker[w].token, change.used = worker[w].used,
         change.pc = "chosen" => worker[w].pc = "choosing" /\ change.choice \in PublicTools,
         change.pc = "looping" => worker[w].pc = "reading",
         change.passages =>
           \/ worker[w].passages
           \/ /\ worker[w].pc = "reading" /\ worker[w].choice = "fetch_document"
              /\ result = "passages" /\ ~failed,
         change.finished => /\ change.pc = "finishing" /\ change.passages
                            /\ result = "done" /\ ~failed
  PROVE  CInv'
<1>. DEFINE token == worker[w].token
            tools == Cardinality(ToolSteps)
<1>1. Active(w) /\ token \in Tokens /\ worker[w] \in Worker
  BY Working DEF Active
<1>2. worker[w].number \in 0..MaxSteps
  BY <1>1 DEF Worker
<1>3. /\ IInv' /\ run'.status = "RUNNING" /\ run'.token = run.token
      /\ run'.attempts = run.attempts /\ run.token = token
      /\ worker[w].number = Len(steps) /\ Len(steps') = Len(steps)
      /\ Open' = {} /\ ToolSteps' = ToolSteps /\ Passages \subseteq Passages'
      /\ ~failed => steps'[Len(steps)].status = "COMPLETED"
      /\ steps'[Len(steps)].result = result
      /\ ~failed /\ steps[Len(steps)].tool = "fetch_document" /\ result = "passages"
           => Passages' # {}
  BY <1>1, <1>2, Completing DEF CInv
<1>4. /\ MemoryIsEvidence(w) /\ HolderKnows(w) /\ AttemptIsPaired(w) /\ Holds(w)
      /\ StepsArePaired /\ ToolBudgetSurvivesRestarts
      /\ Len(steps) \in Nat /\ tools \in Nat /\ run.attempts \in Nat
  BY <1>1, <1>3, OwnerKnows
<1>5. worker'[w] = change
  BY ChangesOne DEF CInv
<1>6. /\ worker[w].used = tools
      /\ worker[w].pc = "choosing" => tools < MaxTools
      /\ worker[w].pc = "reading" => steps[Len(steps)].tool = worker[w].choice
  BY <1>3, <1>4 DEF HolderKnows
<1>7. change.passages => Passages' # {}
  <2>1. CASE worker[w].passages
    BY <1>1, <1>3, <1>4, <2>1 DEF MemoryIsEvidence
  <2>2. CASE ~worker[w].passages
    BY <1>3, <1>6, <2>2
  <2>. QED
    BY <2>1, <2>2
<1>8. MemoryIsEvidence(w)'
  BY <1>5, <1>7 DEF MemoryIsEvidence
<1>9. HolderKnows(w)'
  BY <1>3, <1>5, <1>6 DEF HolderKnows
<1>10. AttemptIsPaired(w)' /\ StepsArePaired'
  BY <1>3, <1>4, <1>5 DEF AttemptIsPaired, StepsArePaired
<1>11. ToolBudgetSurvivesRestarts' /\ CompleteOnEvidence'
  BY <1>3, <1>4 DEF ToolBudgetSurvivesRestarts, CompleteOnEvidence
<1>. QED
  BY <1>1, <1>3, <1>5, <1>8, <1>9, <1>10, <1>11, WriterStep

LEMMA SelectKeepsCInv ==
  ASSUME CInv, NEW w \in Workers, Select(w) PROVE CInv'
<1>. DEFINE local == [worker[w] EXCEPT !.pc = "choosing", !.number = Len(steps')]
            new == [local EXCEPT !.since = Arrival(w)]
<1>1. /\ worker[w].pc = "looping" /\ worker[w].used < MaxTools
      /\ StartStep(worker[w].token, "select_public_read", Reading(w)) /\ Becomes(w, new)
  BY DEF Goes, Select, At, ToolsLeft
<1>2. worker[w] \in Worker /\ worker[w].token \in Tokens
  BY <1>1, Working DEF Active
<1>3. "select_public_read" \in Tools /\ "select_public_read" \notin PublicTools
  BY CoordinatorAssumption DEF PublicTools
<1>4. Len(steps') \in 0..MaxSteps
  BY <1>1, <1>2, <1>3, Starting, Constants DEF CInv
<1>5. new \in Worker
  BY <1>2, <1>4, Working DEF Worker, Places
<1>6. /\ new.pc = "choosing" /\ new.token = worker[w].token /\ new.number = Len(steps')
      /\ new.passages = worker[w].passages /\ new.finished = worker[w].finished
      /\ new.choice = worker[w].choice /\ new.used = worker[w].used
  BY <1>2 DEF Worker
<1>. HIDE DEF new
<1>. QED
  BY <1>1, <1>3, <1>5, <1>6, StartingKeepsCInv

LEMMA AdmitKeepsCInv ==
  ASSUME CInv, NEW w \in Workers, Admit(w) PROVE CInv'
<1>. DEFINE local == [worker[w] EXCEPT !.pc = "reading", !.number = Len(steps'), !.used = @ + 1]
            new == [local EXCEPT !.since = Arrival(w)]
<1>1. /\ worker[w].pc = "chosen"
      /\ StartStep(worker[w].token, worker[w].choice, Reading(w)) /\ Becomes(w, new)
  BY DEF Goes, Admit, At
<1>2. /\ worker[w] \in Worker /\ worker[w].token \in Tokens
      /\ Active(w) /\ run.token = worker[w].token
  BY <1>1, Working DEF Active, StartStep, Owned
<1>3. /\ worker[w].choice \in PublicTools /\ worker[w].choice \in Tools
      /\ worker[w].used < MaxTools
  BY <1>1, <1>2, OwnerKnows, CoordinatorAssumption DEF HolderKnows, PublicTools
<1>4. Len(steps') \in 0..MaxSteps /\ worker[w].used + 1 \in 0..MaxTools
  BY <1>1, <1>2, <1>3, Starting, Constants DEF CInv, Worker
<1>5. new \in Worker
  BY <1>2, <1>4, Working DEF Worker, Places
<1>6. /\ new.pc = "reading" /\ new.token = worker[w].token /\ new.number = Len(steps')
      /\ new.passages = worker[w].passages /\ new.finished = worker[w].finished
      /\ new.choice = worker[w].choice /\ new.used = worker[w].used + 1
  BY <1>2 DEF Worker
<1>. HIDE DEF new
<1>. QED
  BY <1>1, <1>3, <1>5, <1>6, StartingKeepsCInv

LEMMA AskSufficiencyKeepsCInv ==
  ASSUME CInv, NEW w \in Workers, AskSufficiency(w) PROVE CInv'
<1>. DEFINE local == [worker[w] EXCEPT !.pc = "deciding", !.number = Len(steps')]
            new == [local EXCEPT !.since = Arrival(w)]
<1>1. /\ worker[w].pc = "looping"
      /\ StartStep(worker[w].token, "decide_evidence_sufficiency", Reading(w)) /\ Becomes(w, new)
  BY DEF Goes, AskSufficiency, At
<1>2. worker[w] \in Worker /\ worker[w].token \in Tokens
  BY <1>1, Working DEF Active
<1>3. "decide_evidence_sufficiency" \in Tools /\ "decide_evidence_sufficiency" \notin PublicTools
  BY CoordinatorAssumption DEF PublicTools
<1>4. Len(steps') \in 0..MaxSteps
  BY <1>1, <1>2, <1>3, Starting, Constants DEF CInv
<1>5. new \in Worker
  BY <1>2, <1>4, Working DEF Worker, Places
<1>6. /\ new.pc = "deciding" /\ new.token = worker[w].token /\ new.number = Len(steps')
      /\ new.passages = worker[w].passages /\ new.finished = worker[w].finished
      /\ new.choice = worker[w].choice /\ new.used = worker[w].used
  BY <1>2 DEF Worker
<1>. HIDE DEF new
<1>. QED
  BY <1>1, <1>3, <1>5, <1>6, StartingKeepsCInv

LEMMA ChooseKeepsCInv ==
  ASSUME CInv, NEW w \in Workers, NEW choice \in {"done"} \cup PublicTools, Choose(w, choice)
  PROVE  CInv'
<1>. DEFINE local == [worker[w] EXCEPT
                      !.pc = IF choice = "done" THEN "finishing" ELSE "chosen",
                      !.choice = choice, !.finished = choice = "done" /\ worker[w].passages]
            new == [local EXCEPT !.since = Arrival(w)]
<1>1. /\ worker[w].pc = "choosing"
      /\ CompleteStep(worker[w].token, worker[w].number, choice, FALSE, Reading(w)) /\ Becomes(w, new)
  BY DEF Goes, Choose, At
<1>2. worker[w] \in Worker
  BY Working
<1>3. choice \in Results /\ "done" \notin PublicTools
  BY CoordinatorAssumption DEF PublicTools
<1>4. new \in Worker
  BY <1>2, <1>3, Working DEF Worker, Places
<1>5. /\ new.pc = IF choice = "done" THEN "finishing" ELSE "chosen"
      /\ new.token = worker[w].token /\ new.used = worker[w].used
      /\ new.choice = choice
  BY <1>2 DEF Worker
<1>6. new.passages = worker[w].passages
  BY <1>2 DEF Worker
<1>7. new.finished = (choice = "done" /\ worker[w].passages)
  BY <1>2 DEF Worker
<1>. HIDE DEF new
<1>. QED
  BY <1>1, <1>3, <1>4, <1>5, <1>6, <1>7, CompletingKeepsCInv

LEMMA ReadKeepsCInv ==
  ASSUME CInv, NEW w \in Workers, NEW result \in Results, Read(w, result)
  PROVE  CInv'
<1>. DEFINE local == [worker[w] EXCEPT
                      !.pc = "looping",
                      !.documents = @ \/ worker[w].choice = "fetch_document",
                      !.passages = @ \/ result = "passages"]
            new == [local EXCEPT !.since = Arrival(w)]
<1>1. /\ worker[w].pc = "reading"
      /\ CompleteStep(worker[w].token, worker[w].number, result, FALSE, Reading(w)) /\ Becomes(w, new)
      /\ result = "passages" => worker[w].choice = "fetch_document"
  BY DEF Goes, Read, At
<1>2. worker[w] \in Worker
  BY Working
<1>3. new \in Worker
  BY <1>2, Working DEF Worker, Places
<1>4. new.pc = "looping" /\ new.token = worker[w].token /\ new.used = worker[w].used
  BY <1>2 DEF Worker
<1>5. new.passages = (worker[w].passages \/ result = "passages")
  BY <1>2 DEF Worker
<1>6. ~new.finished
  <2>1. new.finished = worker[w].finished
    BY <1>2 DEF Worker
  <2>2. ~worker[w].finished
    BY <1>1 DEF CInv, WorkerInv, MemoryIsEvidence, Active
  <2>. QED
    BY <2>1, <2>2
<1>. HIDE DEF new
<1>. QED
  BY <1>1, <1>3, <1>4, <1>5, <1>6, CompletingKeepsCInv

LEMMA DecideKeepsCInv ==
  ASSUME CInv, NEW w \in Workers, Decide(w) PROVE CInv'
<1>. DEFINE local == [worker[w] EXCEPT !.pc = "finishing", !.finished = Sufficient(w)]
            new == [local EXCEPT !.since = Arrival(w)]
<1>1. /\ worker[w].pc = "deciding"
      /\ CompleteStep(worker[w].token, worker[w].number, "done", FALSE, Reading(w)) /\ Becomes(w, new)
  BY DEF Goes, Decide, At
<1>2. worker[w] \in Worker
  BY Working
<1>3. "done" \in Results
  BY CoordinatorAssumption
<1>4. new \in Worker
  BY <1>2, Working DEF Worker, Places, Sufficient
<1>5. new.pc = "finishing" /\ new.token = worker[w].token /\ new.used = worker[w].used
  BY <1>2 DEF Worker
<1>6. new.passages = worker[w].passages /\ new.finished = worker[w].passages
  BY <1>2 DEF Worker, Sufficient
<1>. HIDE DEF new
<1>. QED
  BY <1>1, <1>3, <1>4, <1>5, <1>6, CompletingKeepsCInv

LEMMA FailKeepsCInv ==
  ASSUME CInv, NEW w \in Workers, Fail(w) PROVE CInv'
<1>. DEFINE local == [worker[w] EXCEPT !.pc = "finishing"]
            new == [local EXCEPT !.since = Arrival(w)]
<1>1. /\ worker[w].pc \in {"choosing", "reading", "deciding"}
      /\ CompleteStep(worker[w].token, worker[w].number, "failure", TRUE, Reading(w)) /\ Becomes(w, new)
  BY DEF Goes, Fail
<1>2. worker[w] \in Worker
  BY Working
<1>3. "failure" \in Results
  BY CoordinatorAssumption
<1>4. new \in Worker
  BY <1>2, Working DEF Worker, Places
<1>5. /\ new.pc = "finishing" /\ new.token = worker[w].token /\ new.used = worker[w].used
      /\ new.passages = worker[w].passages /\ new.finished = worker[w].finished
  BY <1>2 DEF Worker
<1>6. ~worker[w].finished
  BY <1>1 DEF CInv, WorkerInv, MemoryIsEvidence, Active
<1>. HIDE DEF new
<1>. QED
  BY <1>1, <1>3, <1>4, <1>5, <1>6, CompletingKeepsCInv

\* The run is completed by a worker whose last step was a provider's "done", with a
\* passage in the journal: this is where CompleteOnEvidence is decided.
LEMMA CloseKeepsCInv ==
  ASSUME CInv, NEW w \in Workers, Close(w) PROVE CInv'
<1>. DEFINE result == IF worker[w].finished THEN "recorded" ELSE "stopped"
            complete == worker[w].finished
<1>1. /\ worker[w].pc = "finishing" /\ Active(w)
      /\ Finish(worker[w].token, result, complete, Reading(w)) /\ Becomes(w, Idle)
  BY DEF Close, At, Active
<1>2. /\ worker[w] \in Worker /\ worker[w].token \in Tokens
      /\ run.token = worker[w].token
  BY <1>1, Working DEF Finish, Owned
<1>3. result \in Results /\ complete \in BOOLEAN
  <2>1. result \in Results
    BY CoordinatorAssumption
  <2>2. complete \in BOOLEAN
    BY <1>2 DEF Worker
  <2>. QED
    BY <2>1, <2>2
<1>4. IInv'
  BY <1>1, <1>2, <1>3, Now, FinishKeepsIInv DEF CInv, IInv
<1>5. /\ run'.status = "COMPLETED" => worker[w].finished
      /\ run'.token = NoToken /\ run'.attempts = run.attempts
      /\ UNCHANGED steps /\ Open = {}
  BY <1>1 DEF Finish, CInv, IInv, TypeOK, Run
<1>6. Open' = Open /\ ToolSteps' = ToolSteps /\ Passages' = Passages
  BY <1>5 DEF Open, ToolSteps, Passages, Documents, Answered
<1>7. worker'[w] = Idle
  BY <1>1, IdleIsWorker, ChangesOne DEF CInv
<1>8. MemoryIsEvidence(w)' /\ HolderKnows(w)' /\ AttemptIsPaired(w)'
  BY <1>7, IdleIsWorker DEF MemoryIsEvidence, HolderKnows, AttemptIsPaired, Holds, Active
<1>9. StepsArePaired' /\ ToolBudgetSurvivesRestarts'
  BY <1>5, <1>6 DEF CInv, StepsArePaired, ToolBudgetSurvivesRestarts
<1>10. CompleteOnEvidence'
  <2>. SUFFICES ASSUME worker[w].finished
                PROVE  /\ Passages # {}
                       /\ steps[Len(steps)].status = "COMPLETED"
                       /\ steps[Len(steps)].result = "done"
    BY <1>5, <1>6 DEF CompleteOnEvidence
  <2>. QED
    BY <1>1, <1>2, OwnerKnows DEF MemoryIsEvidence, HolderKnows
<1>. QED
  BY <1>1, <1>2, <1>4, <1>5, <1>6, <1>8, <1>9, <1>10, IdleIsWorker, WriterStep

LEMMA TickKeepsCInv ==
  ASSUME CInv, CTick \/ UNCHANGED cvars PROVE CInv'
<1>1. UNCHANGED <<run, steps, worker>> /\ [Next]_vars
  BY DEF CTick, Tick, cvars, vars, Next
<1>2. IInv'
  BY <1>1, NextKeepsIInv DEF CInv
<1>. QED
  BY <1>1, <1>2 DEF CInv, WorkerInv, TokensAreOwn, TokenIsDrawn, MemoryIsEvidence,
                    HolderKnows, AttemptIsPaired, Holds, Active, StepsArePaired,
                    ToolBudgetSurvivesRestarts, CompleteOnEvidence,
                    Open, ToolSteps, Passages, Documents, Answered

-----------------------------------------------------------------------------
LEMMA InitCInv == CInit => CInv
<1>. SUFFICES ASSUME CInit PROVE CInv
  OBVIOUS
<1>1. IInv
  BY InitIInv DEF CInit
<1>2. worker \in [Workers -> Worker] /\ \A w \in Workers : ~Active(w)
  BY IdleIsWorker DEF CInit, Active
<1>3. TokensAreOwn /\ \A w \in Workers : WorkerInv(w)
  BY <1>2 DEF TokensAreOwn, WorkerInv, TokenIsDrawn, MemoryIsEvidence, HolderKnows,
              AttemptIsPaired, Holds
<1>4. steps = <<>> /\ run.status = "ABSENT" /\ run.attempts = 0
  BY DEF CInit, Init
<1>5. ToolSteps = {} /\ Len(steps) = 0
  BY <1>4 DEF ToolSteps
<1>6. StepsArePaired /\ ToolBudgetSurvivesRestarts /\ CompleteOnEvidence
  BY <1>4, <1>5, FS_EmptySet, Constants
     DEF StepsArePaired, ToolBudgetSurvivesRestarts, CompleteOnEvidence
<1>. QED
  BY <1>1, <1>2, <1>3, <1>6 DEF CInv

LEMMA NextKeepsCInv == CInv /\ [CNext]_cvars => CInv'
<1>. SUFFICES ASSUME CInv, [CNext]_cvars PROVE CInv'
  OBVIOUS
<1>1. CASE CTick \/ UNCHANGED cvars
  BY <1>1, TickKeepsCInv
<1>2. ASSUME NEW w \in Workers, NEW window \in Windows, Begin(w, window) PROVE CInv'
  BY <1>2, BeginKeepsCInv
<1>3. ASSUME NEW w \in Workers, Progresses(w) PROVE CInv'
  BY <1>3, LoadKeepsCInv, SelectKeepsCInv, StopKeepsCInv, AdmitKeepsCInv,
     AskSufficiencyKeepsCInv, DecideKeepsCInv, FailKeepsCInv, CloseKeepsCInv,
     LeavingKeepsCInv, ChooseKeepsCInv, ReadKeepsCInv DEF Progresses
<1>4. ASSUME NEW w \in Workers, Crash(w) PROVE CInv'
  BY <1>4, LeavingKeepsCInv
<1>. QED
  BY <1>1, <1>2, <1>3, <1>4 DEF CNext

LEMMA CoordinatorInvariant == CSpec => []CInv
  BY InitCInv, NextKeepsCInv, PTL DEF CSpec

\* The worker and the journal stay together: one budget of reads for all attempts, no
\* journal call of a worker that owns the run refused, and never more steps than
\* max_steps, so that ResearchBudgetExhausted is not reached.
THEOREM AttemptsShare == CSpec => []AttemptsShareTheJournal
<1>1. CInv => AttemptsShareTheJournal
  <2>. SUFFICES ASSUME CInv PROVE AttemptsShareTheJournal
    OBVIOUS
  <2>1. WorkerAgreesWithJournal
    BY DEF CInv, WorkerInv, HolderKnows, Holds, Active, WorkerAgreesWithJournal
  <2>2. StepsWithinBudget
    <3>1. run.attempts \in 0..MaxAttempts
      BY DEF CInv, IInv, TypeOK, Run
    <3>2. Len(steps) \in Nat /\ Cardinality(ToolSteps) \in Nat
      BY FiniteSteps DEF CInv, IInv
    <3>. QED
      BY <3>1, <3>2, Constants
         DEF CInv, StepsArePaired, ToolBudgetSurvivesRestarts, StepsWithinBudget
  <2>. QED
    BY <2>1, <2>2 DEF CInv, AttemptsShareTheJournal
<1>. QED
  BY <1>1, CoordinatorInvariant, PTL

\* A run is marked complete only when the journal itself holds a passage and its last
\* step is a provider's "done", whoever recorded them.
THEOREM CompleteIsEvidenced == CSpec => []CompleteOnEvidence
<1>1. CInv => CompleteOnEvidence
  BY DEF CInv
<1>. QED
  BY <1>1, CoordinatorInvariant, PTL

-----------------------------------------------------------------------------
LEMMA WorkersAreCallers == CInv /\ [CNext]_cvars => [Next]_vars
<1>. SUFFICES ASSUME CInv, [CNext]_cvars PROVE [Next]_vars
  OBVIOUS
<1>1. \A w \in Workers : Reading(w) \in Readings
  BY Now DEF CInv, IInv
<1>2. CASE CTick \/ UNCHANGED cvars
  BY <1>2 DEF CTick, cvars, Next
<1>3. ASSUME NEW w \in Workers, NEW window \in Windows, Begin(w, window) PROVE Next
  BY <1>1, <1>3, Constants DEF Begin, Next, Write
<1>4. ASSUME NEW w \in Workers, Load(w) \/ Stop(w) \/ LoseLease(w) \/ Crash(w)
      PROVE  UNCHANGED vars
  BY <1>4 DEF Load, Stop, LoseLease, Crash
<1>5. ASSUME NEW w \in Workers, Active(w)
      PROVE  worker[w] \in Worker /\ worker[w].token \in Tokens
  BY <1>5, Working
<1>6. ASSUME NEW w \in Workers, Select(w) \/ Admit(w) \/ AskSufficiency(w) PROVE Next
  <2>1. PICK tool : StartStep(worker[w].token, tool, Reading(w)) /\ tool \in Tools
    <3>1. CASE Select(w)
      BY <3>1, CoordinatorAssumption DEF Select
    <3>2. CASE Admit(w)
      <4>1. Active(w) /\ run.token = worker[w].token /\ worker[w].pc = "chosen"
        BY <3>2 DEF Admit, At, Active, StartStep, Owned
      <4>2. worker[w].choice \in Tools
        BY <4>1, OwnerKnows, CoordinatorAssumption DEF HolderKnows, PublicTools
      <4>. QED
        BY <3>2, <4>2 DEF Admit
    <3>3. CASE AskSufficiency(w)
      BY <3>3, CoordinatorAssumption DEF AskSufficiency
    <3>. QED
      BY <1>6, <3>1, <3>2, <3>3
  <2>2. Active(w)
    BY <1>6 DEF Select, Admit, AskSufficiency, At, Active
  <2>3. Write(Reading(w))
    BY <1>5, <2>1, <2>2 DEF Write
  <2>. QED
    BY <1>1, <2>3 DEF Next
<1>7. ASSUME NEW w \in Workers, NEW result \in Results, NEW failed \in BOOLEAN, Active(w),
             CompleteStep(worker[w].token, worker[w].number, result, failed, Reading(w))
      PROVE  Next
  <2>1. worker[w].number \in DOMAIN steps
    BY <1>7 DEF CompleteStep, Admitted, Open
  <2>2. Write(Reading(w))
    BY <1>5, <1>7, <2>1 DEF Write
  <2>. QED
    BY <1>1, <2>2 DEF Next
<1>8. ASSUME NEW w \in Workers, Decide(w) PROVE Next
  BY <1>7, <1>8, CoordinatorAssumption DEF Decide, At, Active
<1>9. ASSUME NEW w \in Workers, Fail(w) PROVE Next
  BY <1>7, <1>9, CoordinatorAssumption DEF Fail, Active
<1>10. ASSUME NEW w \in Workers, NEW choice \in {"done"} \cup PublicTools, Choose(w, choice)
       PROVE  Next
  <2>1. choice \in Results
    BY CoordinatorAssumption DEF PublicTools
  <2>. QED
    BY <1>7, <1>10, <2>1 DEF Choose, At, Active
<1>11. ASSUME NEW w \in Workers, NEW result \in Results, Read(w, result) PROVE Next
  BY <1>7, <1>11 DEF Read, At, Active
<1>12. ASSUME NEW w \in Workers, Close(w) PROVE Next
  <2>1. Active(w) /\ worker[w].finished \in BOOLEAN
    BY <1>5, <1>12 DEF Close, At, Active, Worker
  <2>2. (IF worker[w].finished THEN "recorded" ELSE "stopped") \in Results
    BY CoordinatorAssumption
  <2>. QED
    BY <1>1, <1>5, <1>12, <2>1, <2>2 DEF Close, Next, Write
<1>. QED
  BY <1>2, <1>3, <1>4, <1>6, <1>8, <1>9, <1>10, <1>11, <1>12 DEF CNext, Progresses

\* The coordinator is one of the journal's clients: everything proved of the journal, the
\* refinement of the abstract run included, holds of it.
THEOREM CoordinatorKeepsJournal == CSpec => Spec
<1>1. CInit => Init
  BY DEF CInit
<1>. QED
  BY <1>1, WorkersAreCallers, CoordinatorInvariant, PTL DEF CSpec, Spec

\* So a coordinated run, too, is one that the abstract run allows.
THEOREM CoordinatorKeepsPromise == CSpec => ImplementsPromise
  BY CoordinatorKeepsJournal, JournalKeepsPromise, PTL

-----------------------------------------------------------------------------
(***************************************************************************)
(* A prompt worker keeps its run.                                          *)
(***************************************************************************)
\* The latest a prompt worker comes to a place, and how long it may stay there.
Latest(local) ==
  CASE local.pc = "loading"   -> local.deadline
    [] local.pc = "looping"   -> local.deadline + 3 * Delay + Timeout
    [] local.pc = "choosing"  -> local.deadline
    [] local.pc = "chosen"    -> local.deadline + Delay
    [] local.pc = "reading"   -> local.deadline + 2 * Delay
    [] local.pc = "deciding"  -> local.deadline
    [] local.pc = "finishing" -> local.deadline + 4 * Delay + Timeout

OnSchedule(local) ==
  /\ local.since <= Latest(local)
  /\ local.pc = "choosing" => local.since + Timeout <= local.deadline
  /\ local.pc \in {"loading", "looping", "chosen", "finishing"} =>
       clock <= local.since + Delay
  /\ local.pc \in {"choosing", "deciding"} => clock <= local.since + Timeout + Delay
  /\ local.pc = "reading" =>
       IF local.choice = "fetch_document"
         THEN clock <= local.since + Delay \/ clock <= local.deadline + Delay
         ELSE clock <= local.since + Timeout + Delay

\* It owns the run, and its lease lasts the margin longer than its time.
Keeps(w) ==
  /\ run.status = "RUNNING"
  /\ run.token = worker[w].token
  /\ run.lease_until = worker[w].deadline + Margin + Offset[w]
  /\ OnSchedule(worker[w])

\* The inductive invariant: that an answer is in time rests on when the worker came
\* where it waits for it, and that on all the places it has been.
PInv == CInv /\ \A w \in Prompt : Active(w) => Keeps(w)

LEMMA PromptTypes ==
  ASSUME CInv, NEW w \in Prompt
  PROVE  /\ w \in Workers /\ worker[w] \in Worker
         /\ worker[w].deadline \in Nat /\ worker[w].since \in Nat /\ clock \in Nat
         /\ Arrival(w) = clock
         /\ Offset[w] \in Nat /\ Offset[w] <= Skew
         /\ Margin \in Nat /\ Timeout \in Nat /\ Delay \in Nat /\ Skew \in Nat
         /\ Active(w) => worker[w].pc \in {"loading", "looping", "choosing", "chosen",
                                           "reading", "deciding", "finishing"}
<1>1. w \in Workers
  BY CoordinatorAssumption
<1>2. worker[w] \in Worker
  BY <1>1 DEF CInv
<1>3. clock \in Nat
  BY <1>1, Now DEF CInv, IInv
<1>4. worker[w].deadline \in Nat /\ worker[w].since \in Nat /\ worker[w].pc \in Places
  BY <1>2 DEF Worker
<1>. QED
  BY <1>1, <1>2, <1>3, <1>4, Constants DEF Places, Active, Arrival

\* The latest a prompt worker leaves each place.
LEMMA Departures ==
  ASSUME CInv, NEW w \in Prompt, Active(w), OnSchedule(worker[w])
  PROVE  LET deadline == worker[w].deadline IN
         /\ clock <= deadline + 5 * Delay + Timeout
         /\ worker[w].pc = "loading" => clock <= deadline + Delay
         /\ worker[w].pc = "looping" => clock <= deadline + 4 * Delay + Timeout
         /\ worker[w].pc = "choosing" => clock <= deadline + Delay
         /\ worker[w].pc = "chosen" => clock <= deadline + 2 * Delay
         /\ worker[w].pc = "reading" => clock <= deadline + 3 * Delay + Timeout
         /\ worker[w].pc = "deciding" => clock <= deadline + Timeout + Delay
<1>. DEFINE local == worker[w]
<1>0. /\ local.deadline \in Nat /\ local.since \in Nat /\ clock \in Nat
      /\ Timeout \in Nat /\ Delay \in Nat
      /\ local.pc \in {"loading", "looping", "choosing", "chosen",
                       "reading", "deciding", "finishing"}
      /\ OnSchedule(local)
  BY PromptTypes
<1>. HIDE DEF local
<1>1. CASE local.pc = "loading"
  BY <1>0, <1>1 DEF OnSchedule, Latest, local
<1>2. CASE local.pc = "looping"
  BY <1>0, <1>2 DEF OnSchedule, Latest, local
<1>3. CASE local.pc = "choosing"
  BY <1>0, <1>3 DEF OnSchedule, Latest, local
<1>4. CASE local.pc = "chosen"
  BY <1>0, <1>4 DEF OnSchedule, Latest, local
<1>5. CASE local.pc = "reading"
  BY <1>0, <1>5 DEF OnSchedule, Latest, local
<1>6. CASE local.pc = "deciding"
  BY <1>0, <1>6 DEF OnSchedule, Latest, local
<1>7. CASE local.pc = "finishing"
  BY <1>0, <1>7 DEF OnSchedule, Latest, local
<1>. QED
  BY <1>0, <1>1, <1>2, <1>3, <1>4, <1>5, <1>6, <1>7

\* However far ahead another worker's clock is, the lease is live on it.
LEMMA LeaseIsLive ==
  ASSUME MarginSuffices, CInv, NEW w \in Prompt, Active(w), Keeps(w)
  PROVE  clock + Skew < run.lease_until
<1>1. clock <= worker[w].deadline + 5 * Delay + Timeout
  BY Departures DEF Keeps
<1>. QED
  BY <1>1, PromptTypes DEF Keeps, MarginSuffices

\* The writes of a worker that owns the run leave it the owner.
LeaseStays ==
  /\ UNCHANGED clock
  /\ run'.status = "RUNNING" /\ run'.token = run.token
  /\ run'.lease_until = run.lease_until

LEMMA StartingKeepsTheLease ==
  ASSUME NEW token, NEW tool, NEW t, StartStep(token, tool, t)
  PROVE  LeaseStays
  BY DEF StartStep, Owned, LeaseStays

LEMMA CompletingKeepsTheLease ==
  ASSUME CInv, NEW token, NEW number, NEW result, NEW failed, NEW t,
         CompleteStep(token, number, result, failed, t)
  PROVE  LeaseStays
<1>1. run \in Run
  BY DEF CInv, IInv, TypeOK
<1>2. /\ run.status = "RUNNING" /\ UNCHANGED clock
      /\ run' = [run EXCEPT !.updated_at = t, !.completed = @ + Progress(failed)]
  BY DEF CompleteStep, Owned
<1>. QED
  BY <1>1, <1>2 DEF Run, LeaseStays

\* A step to the worker's next place leaves it on schedule when it comes there in time.
LEMMA MovesOn ==
  ASSUME CInv, NEW w \in Prompt, Keeps(w), NEW local,
         Becomes(w, local),
         local.token = worker[w].token, local.deadline = worker[w].deadline,
         local.since = clock, clock <= Latest(local),
         local.pc = "choosing" => clock + Timeout <= local.deadline,
         LeaseStays
  PROVE  Keeps(w)'
<1>1. worker'[w] = local
  BY PromptTypes DEF CInv, Becomes
<1>2. clock \in Nat /\ Timeout \in Nat /\ Delay \in Nat /\ clock' = clock
  BY PromptTypes DEF LeaseStays
<1>3. OnSchedule(local)'
  <2>1. (local.since <= Latest(local))'
    BY DEF Latest
  <2>2. /\ clock' <= local.since + Delay
        /\ clock' <= local.since + Timeout + Delay
        /\ local.pc = "choosing" => local.since + Timeout <= local.deadline
    BY <1>2
  <2>. QED
    BY <2>1, <2>2 DEF OnSchedule
<1>4. OnSchedule(worker[w])'
  BY <1>1, <1>3
<1>. QED
  BY <1>1, <1>4 DEF Keeps, LeaseStays

\* Only the owner writes the run: no other worker's step changes it.
LEMMA OthersLeaveIt ==
  ASSUME MarginSuffices, CInv, NEW w \in Prompt, Active(w), Keeps(w),
         NEW v \in Workers \ {w},
         Progresses(v) \/ Crash(v) \/ \E window \in Windows : Begin(v, window)
  PROVE  UNCHANGED <<run, clock>> /\ worker'[w] = worker[w]
<1>1. w \in Workers /\ worker \in [Workers -> Worker]
  BY CoordinatorAssumption DEF CInv
<1>2. ASSUME Active(v), NEW t, Owned(worker[v].token, t) PROVE FALSE
  BY <1>1, <1>2 DEF Owned, Keeps, CInv, TokensAreOwn
<1>3. ASSUME NEW window \in Windows, Begin(v, window) PROVE FALSE
  <2>1. run.lease_until <= Reading(v)
    <3>1. Acquire(Reading(v), LeaseFor(window))
      BY <1>3, Zenon DEF Begin
    <3>. QED
      BY <3>1 DEF Acquire, Acquirable
  <2>2. Reading(v) <= clock + Skew /\ Reading(v) \in Nat /\ clock \in Nat /\ Skew \in Nat
    BY PromptTypes, Constants, Now DEF Reading, CInv, IInv
  <2>3. run.lease_until \in Nat
    BY DEF CInv, IInv, TypeOK, Run
  <2>. QED
    BY <2>1, <2>2, <2>3, LeaseIsLive
<1>4. ASSUME Load(v) \/ Stop(v) \/ LoseLease(v) \/ Crash(v)
      PROVE  UNCHANGED <<run, clock>> /\ worker'[w] = worker[w]
  BY <1>1, <1>4 DEF Load, Stop, LoseLease, Crash, Goes, Becomes, vars
<1>5. ASSUME Select(v) \/ Admit(v) \/ AskSufficiency(v) PROVE FALSE
  BY <1>2, <1>5 DEF Select, Admit, AskSufficiency, StartStep, At, Active
<1>6. ASSUME Decide(v) \/ Fail(v) PROVE FALSE
  BY <1>2, <1>6 DEF Decide, Fail, CompleteStep, At, Active
<1>7. ASSUME NEW choice, Choose(v, choice) PROVE FALSE
  BY <1>2, <1>7 DEF Choose, CompleteStep, At, Active
<1>8. ASSUME NEW result, Read(v, result) PROVE FALSE
  BY <1>2, <1>8 DEF Read, CompleteStep, At, Active
<1>9. ASSUME Close(v) PROVE FALSE
  BY <1>2, <1>9 DEF Close, Finish, At, Active
<1>. QED
  BY <1>3, <1>4, <1>5, <1>6, <1>7, <1>8, <1>9 DEF Progresses


LEMMA OwnStepKeeps ==
  ASSUME CInv, NEW w \in Prompt, Active(w), Keeps(w), Progresses(w) \/ Crash(w)
  PROVE  Active(w)' => Keeps(w)'
<1>. DEFINE deadline == worker[w].deadline
            Stamped(local) == [local EXCEPT !.since = Arrival(w)]
<1>1. /\ w \in Workers /\ worker[w] \in Worker /\ worker \in [Workers -> Worker]
      /\ deadline \in Nat /\ clock \in Nat /\ Timeout \in Nat /\ Delay \in Nat
      /\ Arrival(w) = clock
  BY PromptTypes DEF CInv
<1>2. /\ worker[w].pc = "loading" => clock <= deadline + Delay
      /\ worker[w].pc = "looping" => clock <= deadline + 4 * Delay + Timeout
      /\ worker[w].pc = "choosing" => clock <= deadline + Delay
      /\ worker[w].pc = "chosen" => clock <= deadline + 2 * Delay
      /\ worker[w].pc = "reading" => clock <= deadline + 3 * Delay + Timeout
      /\ worker[w].pc = "deciding" => clock <= deadline + Timeout + Delay
  BY Departures DEF Keeps
<1>3. CASE Load(w)
  <2>. DEFINE new == Stamped([worker[w] EXCEPT !.pc = "looping", !.used = Cardinality(UsedTools),
                                               !.documents = Documents # {},
                                               !.passages = Passages # {}])
  <2>1. worker[w].pc = "loading" /\ Becomes(w, new) /\ UNCHANGED vars
    BY <1>3 DEF Load, At, Goes
  <2>2. /\ new.pc = "looping" /\ new.since = clock
        /\ new.token = worker[w].token /\ new.deadline = deadline
    BY <1>1 DEF Worker
  <2>. HIDE DEF new
  <2>3. clock <= Latest(new)
    BY <1>1, <1>2, <2>1, <2>2 DEF Latest
  <2>4. LeaseStays
    BY <2>1 DEF Keeps, LeaseStays, vars
  <2>. QED
    BY <2>1, <2>2, <2>3, <2>4, MovesOn
<1>4. CASE Select(w)
  <2>. DEFINE new == Stamped([worker[w] EXCEPT !.pc = "choosing", !.number = Len(steps')])
  <2>1. /\ worker[w].pc = "looping" /\ clock + Timeout <= deadline /\ Becomes(w, new)
        /\ StartStep(worker[w].token, "select_public_read", Reading(w))
    BY <1>4 DEF Select, At, Goes, TimeFor
  <2>2. /\ new.pc = "choosing" /\ new.since = clock
        /\ new.token = worker[w].token /\ new.deadline = deadline
    BY <1>1 DEF Worker
  <2>. HIDE DEF new
  <2>3. clock <= Latest(new)
    BY <1>1, <2>1, <2>2 DEF Latest
  <2>. QED
    BY <2>1, <2>2, <2>3, StartingKeepsTheLease, MovesOn
<1>5. CASE Stop(w)
  <2>. DEFINE new == Stamped([worker[w] EXCEPT !.pc = "finishing"])
  <2>1. worker[w].pc = "looping" /\ Becomes(w, new) /\ UNCHANGED vars
    BY <1>5 DEF Stop, At, Goes
  <2>2. /\ new.pc = "finishing" /\ new.since = clock
        /\ new.token = worker[w].token /\ new.deadline = deadline
    BY <1>1 DEF Worker
  <2>. HIDE DEF new
  <2>3. clock <= Latest(new)
    BY <1>1, <1>2, <2>1, <2>2 DEF Latest
  <2>4. LeaseStays
    BY <2>1 DEF Keeps, LeaseStays, vars
  <2>. QED
    BY <2>1, <2>2, <2>3, <2>4, MovesOn
<1>6. CASE Admit(w)
  <2>. DEFINE new == Stamped([worker[w] EXCEPT !.pc = "reading", !.number = Len(steps'),
                                               !.used = @ + 1])
  <2>1. /\ worker[w].pc = "chosen" /\ Becomes(w, new)
        /\ StartStep(worker[w].token, worker[w].choice, Reading(w))
    BY <1>6 DEF Admit, At, Goes
  <2>2. /\ new.pc = "reading" /\ new.since = clock
        /\ new.token = worker[w].token /\ new.deadline = deadline
    BY <1>1 DEF Worker
  <2>. HIDE DEF new
  <2>3. clock <= Latest(new)
    BY <1>1, <1>2, <2>1, <2>2 DEF Latest
  <2>. QED
    BY <2>1, <2>2, <2>3, StartingKeepsTheLease, MovesOn
<1>7. CASE AskSufficiency(w)
  <2>. DEFINE new == Stamped([worker[w] EXCEPT !.pc = "deciding", !.number = Len(steps')])
  <2>1. /\ worker[w].pc = "looping" /\ clock + 1 <= deadline /\ Becomes(w, new)
        /\ StartStep(worker[w].token, "decide_evidence_sufficiency", Reading(w))
    BY <1>7 DEF AskSufficiency, AsksSufficiency, At, Goes, TimeFor
  <2>2. /\ new.pc = "deciding" /\ new.since = clock
        /\ new.token = worker[w].token /\ new.deadline = deadline
    BY <1>1 DEF Worker
  <2>. HIDE DEF new
  <2>3. clock <= Latest(new)
    BY <1>1, <2>1, <2>2 DEF Latest
  <2>. QED
    BY <2>1, <2>2, <2>3, StartingKeepsTheLease, MovesOn
<1>8. ASSUME NEW choice, Choose(w, choice) PROVE Keeps(w)'
  <2>. DEFINE new == Stamped([worker[w] EXCEPT
                        !.pc = IF choice = "done" THEN "finishing" ELSE "chosen",
                        !.choice = choice, !.finished = choice = "done" /\ worker[w].passages])
  <2>1. /\ worker[w].pc = "choosing" /\ Becomes(w, new)
        /\ CompleteStep(worker[w].token, worker[w].number, choice, FALSE, Reading(w))
    BY <1>8 DEF Choose, At, Goes
  <2>2. /\ new.pc \in {"finishing", "chosen"} /\ new.since = clock
        /\ new.token = worker[w].token /\ new.deadline = deadline
    BY <1>1 DEF Worker
  <2>. HIDE DEF new
  <2>3. clock <= Latest(new)
    BY <1>1, <1>2, <2>1, <2>2 DEF Latest
  <2>. QED
    BY <2>1, <2>2, <2>3, CompletingKeepsTheLease, MovesOn
<1>9. ASSUME NEW result, Read(w, result) PROVE Keeps(w)'
  <2>. DEFINE new == Stamped([worker[w] EXCEPT
                        !.pc = "looping",
                        !.documents = @ \/ worker[w].choice = "fetch_document",
                        !.passages = @ \/ result = "passages"])
  <2>1. /\ worker[w].pc = "reading" /\ Becomes(w, new)
        /\ CompleteStep(worker[w].token, worker[w].number, result, FALSE, Reading(w))
    BY <1>9 DEF Read, At, Goes
  <2>2. /\ new.pc = "looping" /\ new.since = clock
        /\ new.token = worker[w].token /\ new.deadline = deadline
    BY <1>1 DEF Worker
  <2>. HIDE DEF new
  <2>3. clock <= Latest(new)
    BY <1>1, <1>2, <2>1, <2>2 DEF Latest
  <2>. QED
    BY <2>1, <2>2, <2>3, CompletingKeepsTheLease, MovesOn
<1>10. CASE Decide(w)
  <2>. DEFINE new == Stamped([worker[w] EXCEPT !.pc = "finishing", !.finished = Sufficient(w)])
  <2>1. /\ worker[w].pc = "deciding" /\ Becomes(w, new)
        /\ CompleteStep(worker[w].token, worker[w].number, "done", FALSE, Reading(w))
    BY <1>10 DEF Decide, At, Goes
  <2>2. /\ new.pc = "finishing" /\ new.since = clock
        /\ new.token = worker[w].token /\ new.deadline = deadline
    BY <1>1 DEF Worker
  <2>. HIDE DEF new
  <2>3. clock <= Latest(new)
    BY <1>1, <1>2, <2>1, <2>2 DEF Latest
  <2>. QED
    BY <2>1, <2>2, <2>3, CompletingKeepsTheLease, MovesOn
<1>11. CASE Fail(w)
  <2>. DEFINE new == Stamped([worker[w] EXCEPT !.pc = "finishing"])
  <2>1. /\ worker[w].pc \in {"choosing", "reading", "deciding"} /\ Becomes(w, new)
        /\ CompleteStep(worker[w].token, worker[w].number, "failure", TRUE, Reading(w))
    BY <1>11 DEF Fail, Goes
  <2>2. /\ new.pc = "finishing" /\ new.since = clock
        /\ new.token = worker[w].token /\ new.deadline = deadline
    BY <1>1 DEF Worker
  <2>. HIDE DEF new
  <2>3. clock <= Latest(new)
    BY <1>1, <1>2, <2>1, <2>2 DEF Latest
  <2>. QED
    BY <2>1, <2>2, <2>3, CompletingKeepsTheLease, MovesOn
<1>12. CASE Close(w) \/ LoseLease(w) \/ Crash(w)
  <2>1. Becomes(w, Idle) \/ Becomes(w, [Idle EXCEPT !.pc = "aborted"])
    BY <1>12 DEF Close, LoseLease, Crash
  <2>2. ~Active(w)'
    BY <1>1, <2>1, IdleIsWorker DEF Becomes, Active
  <2>. QED
    BY <2>2
<1>. QED
  BY <1>3, <1>4, <1>5, <1>6, <1>7, <1>8, <1>9, <1>10, <1>11, <1>12 DEF Progresses

\* A worker begins with its lease as long as its time and the margin.
LEMMA BeginKeeps ==
  ASSUME CInv, NEW w \in Prompt, NEW window \in Windows, Begin(w, window)
  PROVE  Keeps(w)'
<1>. DEFINE begun == [Idle EXCEPT !.pc = "loading", !.token = run.attempts + 1,
                                  !.deadline = clock + window]
            new == [begun EXCEPT !.since = Arrival(w)]
<1>1. /\ w \in Workers /\ worker \in [Workers -> Worker] /\ run \in Run
      /\ clock \in Nat /\ window \in Nat /\ Delay \in Nat /\ Margin \in Nat
      /\ Offset[w] \in Nat /\ Arrival(w) = clock
  BY PromptTypes, Constants DEF CInv, IInv, TypeOK
<1>2. Acquire(Reading(w), LeaseFor(window)) /\ Becomes(w, new)
  BY DEF Begin, Goes
<1>3. /\ new.pc = "loading" /\ new.since = clock
      /\ new.token = run.attempts + 1 /\ new.deadline = clock + window
  <2>1. /\ begun.pc = "loading" /\ begun.token = run.attempts + 1
        /\ begun.deadline = clock + window
        /\ DOMAIN begun = DOMAIN Idle /\ "since" \in DOMAIN Idle
    BY DEF Idle
  <2>. HIDE DEF begun
  <2>. QED
    BY <1>1, <2>1
<1>. HIDE DEF new
<1>4. PICK local : local = new
  OBVIOUS
<1>5. /\ worker'[w] = local
      /\ local.pc = "loading" /\ local.since = clock
      /\ local.token = run.attempts + 1 /\ local.deadline = clock + window
  BY <1>1, <1>2, <1>3, <1>4 DEF Becomes
<1>6. /\ run'.status = "RUNNING" /\ run'.token = run.attempts + 1
      /\ run'.lease_until = clock + Offset[w] + (window + Margin)
      /\ clock' = clock
  BY <1>1, <1>2 DEF Acquire, Run, Reading, LeaseFor
<1>7. OnSchedule(local)'
  <2>1. local.since <= Latest(local)
    BY <1>1, <1>5 DEF Latest
  <2>2. (local.since <= Latest(local))'
    BY <2>1 DEF Latest
  <2>3. clock' <= local.since + Delay
    BY <1>1, <1>5, <1>6
  <2>. QED
    BY <1>5, <2>2, <2>3 DEF OnSchedule
<1>8. OnSchedule(worker[w])'
  BY <1>5, <1>7
<1>. QED
  BY <1>1, <1>5, <1>6, <1>8 DEF Keeps

\* The clock does not pass the moment a prompt worker must have gone on.
LEMMA TickKeeps ==
  ASSUME CInv, NEW w \in Prompt, Active(w), Keeps(w), CTick
  PROVE  Keeps(w)'
<1>. DEFINE local == worker[w]
<1>1. /\ local.deadline \in Nat /\ local.since \in Nat /\ clock \in Nat
      /\ Timeout \in Nat /\ Delay \in Nat
      /\ local.pc \in {"loading", "looping", "choosing", "chosen",
                       "reading", "deciding", "finishing"}
      /\ OnSchedule(local)
  BY PromptTypes DEF Keeps
<1>2. UNCHANGED <<run, worker>> /\ clock' = clock + 1 /\ ~Overdue(w)
  BY DEF CTick, Tick
<1>3. /\ local.pc \in {"loading", "looping", "chosen", "finishing"} =>
           clock < local.since + Delay
      /\ local.pc \in {"choosing", "deciding"} => clock < local.since + Timeout + Delay
      /\ local.pc = "reading" =>
           IF local.choice = "fetch_document"
             THEN clock < local.since + Delay \/ clock < local.deadline + Delay
             ELSE clock < local.since + Timeout + Delay
  BY <1>1, <1>2 DEF Overdue, At
<1>4. OnSchedule(worker[w])'
  <2>1. (local.since <= Latest(local))'
    BY <1>1, <1>2 DEF OnSchedule, Latest
  <2>2. /\ local.pc = "choosing" => local.since + Timeout <= local.deadline
        /\ local.pc \in {"loading", "looping", "chosen", "finishing"} =>
             clock' <= local.since + Delay
        /\ local.pc \in {"choosing", "deciding"} => clock' <= local.since + Timeout + Delay
        /\ local.pc = "reading" =>
             IF local.choice = "fetch_document"
               THEN clock' <= local.since + Delay \/ clock' <= local.deadline + Delay
               ELSE clock' <= local.since + Timeout + Delay
    BY <1>1, <1>2, <1>3 DEF OnSchedule
  <2>3. local' = local
    BY <1>2
  <2>. QED
    BY <2>1, <2>2, <2>3 DEF OnSchedule
<1>. QED
  BY <1>2, <1>4 DEF Keeps

\* A worker's step is its own, and one that is not at work begins with Begin only.
LEMMA StepOfOne ==
  ASSUME CInv, NEW v \in Workers,
         Progresses(v) \/ Crash(v) \/ \E window \in Windows : Begin(v, window)
  PROVE  /\ \A w \in Workers \ {v} : worker'[w] = worker[w]
         /\ ~Active(v) => ~Active(v)' \/ \E window \in Windows : Begin(v, window)
<1>1. worker \in [Workers -> Worker]
  BY DEF CInv
<1>2. ASSUME NEW local, Becomes(v, local)
      PROVE  \A w \in Workers \ {v} : worker'[w] = worker[w]
  BY <1>1, <1>2 DEF Becomes
<1>3. ASSUME NEW window \in Windows, Begin(v, window)
      PROVE  \A w \in Workers \ {v} : worker'[w] = worker[w]
  BY <1>2, <1>3, Zenon DEF Begin, Goes
<1>4. CASE Crash(v)
  <2>1. Becomes(v, Idle)
    BY <1>4 DEF Crash
  <2>2. ~Active(v)'
    BY <1>1, <2>1, IdleIsWorker DEF Becomes, Active
  <2>. QED
    BY <1>2, <2>1, <2>2
<1>5. CASE Progresses(v)
  <2>1. ASSUME Load(v) \/ Select(v) \/ Stop(v) \/ Admit(v) \/ AskSufficiency(v)
        PROVE  Active(v) /\ \E local : Becomes(v, local)
    <3>1. Active(v)
      BY <2>1 DEF Load, Select, Stop, Admit, AskSufficiency, At, Active
    <3>2. \E local : Becomes(v, local)
      BY <2>1, Zenon DEF Load, Select, Stop, Admit, AskSufficiency, Goes
    <3>. QED
      BY <3>1, <3>2
  <2>2. ASSUME Decide(v) \/ Fail(v) \/ Close(v) \/ LoseLease(v)
        PROVE  Active(v) /\ \E local : Becomes(v, local)
    <3>1. Active(v)
      BY <2>2 DEF Decide, Fail, Close, LoseLease, LeaseLost, At, Active
    <3>2. \E local : Becomes(v, local)
      BY <2>2, Zenon DEF Decide, Fail, Close, LoseLease, Goes
    <3>. QED
      BY <3>1, <3>2
  <2>3. ASSUME NEW choice, Choose(v, choice)
        PROVE  Active(v) /\ \E local : Becomes(v, local)
    BY <2>3, Zenon DEF Choose, Goes, At, Active
  <2>4. ASSUME NEW result, Read(v, result)
        PROVE  Active(v) /\ \E local : Becomes(v, local)
    BY <2>4, Zenon DEF Read, Goes, At, Active
  <2>5. Active(v) /\ \E local : Becomes(v, local)
    BY <1>5, <2>1, <2>2, <2>3, <2>4 DEF Progresses
  <2>. QED
    BY <1>2, <2>5
<1>. QED
  BY <1>3, <1>4, <1>5

LEMMA NextKeepsPInv ==
  ASSUME MarginSuffices, PInv, [CNext]_cvars
  PROVE  PInv'
<1>1. CInv'
  BY NextKeepsCInv DEF PInv
<1>. SUFFICES ASSUME NEW w \in Prompt, Active(w)' PROVE Keeps(w)'
  BY <1>1 DEF PInv
<1>. CInv /\ w \in Workers /\ (Active(w) => Keeps(w))
  BY CoordinatorAssumption DEF PInv
<1>2. CASE CTick
  BY <1>2, TickKeeps DEF CTick, Active
<1>3. CASE UNCHANGED cvars
  BY <1>3 DEF cvars, vars, Active, Keeps, OnSchedule, Latest
<1>4. ASSUME NEW window \in Windows, Begin(w, window) PROVE Keeps(w)'
  BY <1>4, BeginKeeps
<1>5. ASSUME Progresses(w) \/ Crash(w) PROVE Keeps(w)'
  <2>1. CASE Active(w)
    BY <1>5, <2>1, OwnStepKeeps
  <2>2. CASE ~Active(w)
    BY <1>4, <1>5, <2>2, StepOfOne
  <2>. QED
    BY <2>1, <2>2
<1>6. ASSUME NEW v \in Workers \ {w},
             Progresses(v) \/ Crash(v) \/ \E window \in Windows : Begin(v, window)
      PROVE  Keeps(w)'
  <2>1. worker'[w] = worker[w]
    BY <1>6, StepOfOne
  <2>2. Active(w) /\ Keeps(w)
    BY <2>1 DEF Active
  <2>3. UNCHANGED <<run, clock>>
    BY <1>6, <2>2, OthersLeaveIt
  <2>. QED
    BY <2>1, <2>2, <2>3 DEF Keeps, OnSchedule, Latest
<1>. QED
  BY <1>2, <1>3, <1>4, <1>5, <1>6 DEF CNext

\* A worker that keeps to its timeouts and is not killed owns its run, with a live lease on
\* its own clock, from acquire to finish: no number of other workers, late answers and
\* clocks that differ by Skew takes the run from it, as long as the margin covers what the
\* deadline leaves undone.
THEOREM PromptWorkIsKept ==
  ASSUME MarginSuffices
  PROVE  CSpec => []OnTimeWorkIsKept
<1>1. CInit => PInv
  BY InitCInv, CoordinatorAssumption DEF CInit, PInv, Active, Idle
<1>2. PInv /\ [CNext]_cvars => PInv'
  BY NextKeepsPInv
<1>3. PInv => OnTimeWorkIsKept
  <2>. SUFFICES ASSUME PInv, NEW w \in Prompt, Active(w)
                PROVE  Owned(worker[w].token, Reading(w))
    BY DEF OnTimeWorkIsKept, Active
  <2>1. CInv /\ Keeps(w)
    BY DEF PInv
  <2>2. worker[w].token # NoToken
    BY <2>1, PromptTypes, Working DEF NoToken, Tokens
  <2>3. run.lease_until > Reading(w)
    <3>1. clock + Skew < run.lease_until /\ run.lease_until \in Nat
      BY <2>1, LeaseIsLive DEF CInv, IInv, TypeOK, Run
    <3>. QED
      BY <2>1, <3>1, PromptTypes DEF Reading
  <2>. QED
    BY <2>1, <2>2, <2>3 DEF Keeps, Owned
<1>. QED
  BY <1>1, <1>2, <1>3, PTL DEF CSpec
=============================================================================
