----------------------------- MODULE ResearchRun -----------------------------
(***************************************************************************)
(* What the Monitor promises about one public research run, without the    *)
(* leases, tokens, clocks and step rows that the journal keeps to deliver  *)
(* it: the run is worked on in a bounded number of attempts, the evidence  *)
(* it gathers only ever grows, and once it is sealed its outcome is final. *)
(***************************************************************************)
EXTENDS Naturals

CONSTANTS
  Reads,         \* the reads an investigation may make
  Results,       \* what a read, or a whole investigation, can record
  MaxAttempts    \* attempts the run may be given

VARIABLES
  phase,         \* "idle": nobody works on it; "active"; "sealed"
  attempt,       \* attempts begun so far
  evidence,      \* <<n, r>>: read n was answered with r
  outcome        \* {} until sealed, then the one sealed result

vars == <<phase, attempt, evidence, outcome>>

TypeOK ==
  /\ phase \in {"idle", "active", "sealed"}
  /\ attempt \in 0..MaxAttempts
  /\ evidence \subseteq (Reads \X Results)
  /\ outcome \in SUBSET Results

Init ==
  /\ phase = "idle"
  /\ attempt = 0
  /\ evidence = {}
  /\ outcome = {}

\* A worker takes the run, or takes it over from a worker that went silent.
Begin ==
  /\ phase \in {"idle", "active"}
  /\ attempt < MaxAttempts
  /\ phase' = "active"
  /\ attempt' = attempt + 1
  /\ UNCHANGED <<evidence, outcome>>

\* The worker of the current attempt learns one more fact: a read that was
\* not answered before.
Record ==
  /\ phase = "active"
  /\ \E n \in Reads, r \in Results :
       /\ \A e \in evidence : e[1] # n
       /\ evidence' = evidence \cup {<<n, r>>}
  /\ UNCHANGED <<phase, attempt, outcome>>

\* It gives up for now; another attempt may follow.
Suspend ==
  /\ phase = "active"
  /\ phase' = "idle"
  /\ UNCHANGED <<attempt, evidence, outcome>>

\* It declares the investigation complete.
Seal ==
  /\ phase = "active"
  /\ phase' = "sealed"
  /\ \E r \in Results : outcome' = {r}
  /\ UNCHANGED <<attempt, evidence>>

Next == Begin \/ Record \/ Suspend \/ Seal

Spec == Init /\ [][Next]_vars
=============================================================================
