--------------------------- MODULE CandidatePromotion ---------------------------
(***************************************************************************)
(* From a name in a federal award to an Account: the Monitor keeps an      *)
(* unresolved recipient, and the program the award names, as candidates;   *)
(* an operator promotes them.                                              *)
(*   normalize_usaspending_observation       monitor/usaspending.py         *)
(*   organization_candidate_for, program_candidate_for                     *)
(*                                           monitor/candidates.py         *)
(*   CandidatePromotionService, ProgramCandidatePromotionService           *)
(*                                           monitor/promotion.py          *)
(*   create_public_prospect, create_program  persistence/durable_*.py      *)
(*   refresh_durable_catalog                 api/runtime.py                *)
(*                                                                         *)
(* A promotion is one transaction, and locks no row: what it read may have *)
(* changed when it writes, and only the keys of the tables then stop it.   *)
(* A process resolves names with the catalog it composed when it started   *)
(* or when it last promoted; the others do not hear of a promotion.        *)
(***************************************************************************)
EXTENDS Naturals, Sequences

CONSTANTS
  Processes,      \* a worker and the API, one collection or promotion at a time each
  Names,          \* recipients as they are spelled; an identity key is a hash of one
  CompanyOf(_),   \* normalize_governed_name: a spelling without its corporate suffix
  Aliased,        \* names that are aliases or subsidiaries of a curated account
  Programs,       \* programs that awards name
  MaxSightings    \* bound on the awards that are collected

VARIABLES
  organizationRow,   \* monitor_organization_candidates
  programRow,        \* monitor_program_candidates
  accounts,          \* durable_public_accounts, in the order of their transactions
  programs,          \* durable_canonical_programs, likewise
  audits,            \* the candidates in monitor_candidate_promotion_audits
  programAudits,     \* those in monitor_program_candidate_promotion_audits
  catalog,           \* how many accounts and programs each process has composed
  task,              \* what each process is doing
  sightings

promotionVars == <<organizationRow, programRow, accounts, programs, audits, programAudits,
                   catalog, task, sightings>>

candidateRows == <<organizationRow, programRow>>
durableRows == <<accounts, programs, audits, programAudits>>

Unseen == [review |-> "NONE"]
NoTask == [at |-> "idle"]
NoOwner == <<"unassigned", "">>
Candidate(name) == <<"candidate", name>>
Account(name) == <<"account", name>>   \* its identifier is a hash of the same identity key
Owners == {NoOwner} \cup {Candidate(n) : n \in Names} \cup {Account(n) : n \in Names}
ProgramKeys == Owners \X Programs

AccountsOf(seq) == {seq[i].name : i \in DOMAIN seq}
Known(p) == AccountsOf(SubSeq(accounts, 1, catalog[p].accounts))
KnownPrograms(p) == {programs[i].key[2] : i \in 1..catalog[p].programs}

-----------------------------------------------------------------------------
\* _recipient_resolution
Resolution(p, name) ==
  IF name \in Known(p) THEN "RESOLVED"
  ELSE IF name \in Aliased THEN "AMBIGUOUS" ELSE "UNRESOLVED"

\* An award is rejected by its contract, or names one industry or not.
Qualities == {"invalid", "incomplete", "complete"}

\* _review_state, and what the promotion asks for beside it
CandidateRow(resolution, quality) ==
  IF quality = "invalid"
  THEN [review |-> "REJECTED", resolution |-> "REJECTED", complete |-> FALSE]
  ELSE [review |-> IF resolution = "AMBIGUOUS" THEN "AMBIGUOUS" ELSE "PENDING_REVIEW",
        resolution |-> resolution, complete |-> quality = "complete"]

\* program_candidate_for: the candidate owns the program, or else the account.
OwnerOf(p, name) == IF name \in Known(p) THEN Account(name) ELSE Candidate(name)

\* An award is normalized: by the catalog of the process, and before it is stored.
Sight(p, name, quality, mentioned) ==
  LET resolution == Resolution(p, name)
      row == CandidateRow(resolution, quality)
  IN  /\ task[p] = NoTask
      /\ sightings < MaxSightings
      /\ sightings' = sightings + 1
      /\ task' = [task EXCEPT ![p] =
           [at |-> "persist",
            organizations |-> IF resolution = "RESOLVED" THEN {} ELSE {<<name, row>>},
            programs |-> {OwnerOf(p, name)} \X (mentioned \ KnownPrograms(p))]]
      /\ UNCHANGED <<candidateRows, durableRows, catalog>>

\* An award without a recipient leaves no organization, and a program without an owner.
SightWithoutRecipient(p, mentioned) ==
  /\ task[p] = NoTask
  /\ sightings < MaxSightings
  /\ mentioned \ KnownPrograms(p) # {}
  /\ sightings' = sightings + 1
  /\ task' = [task EXCEPT ![p] =
       [at |-> "persist", organizations |-> {},
        programs |-> {NoOwner} \X (mentioned \ KnownPrograms(p))]]
  /\ UNCHANGED <<candidateRows, durableRows, catalog>>

\* persist_snapshot: what was normalized replaces the rows, promoted or not.
PersistCandidates(p) ==
  /\ task[p].at = "persist"
  /\ organizationRow' = [n \in Names |->
       IF \E o \in task[p].organizations : o[1] = n
       THEN (CHOOSE o \in task[p].organizations : o[1] = n)[2] ELSE organizationRow[n]]
  /\ programRow' = [k \in ProgramKeys |->
       IF k \in task[p].programs THEN [review |-> "PENDING_REVIEW"] ELSE programRow[k]]
  /\ task' = [task EXCEPT ![p] = NoTask]
  /\ UNCHANGED <<durableRows, catalog, sightings>>

-----------------------------------------------------------------------------
\* promote: the row and its audit. A candidate that was promoted answers with its account.
ReadCandidate(p, name) ==
  /\ task[p] = NoTask
  /\ organizationRow[name] # Unseen
  /\ name \notin audits
  /\ organizationRow[name].review = "PENDING_REVIEW"
  /\ organizationRow[name].resolution = "UNRESOLVED"
  /\ organizationRow[name].complete
  /\ task' = [task EXCEPT ![p] =
       [at |-> "create_account", name |-> name, began |-> Len(accounts)]]
  /\ UNCHANGED <<candidateRows, durableRows, catalog, sightings>>

\* Mutant: only what the process has composed is asked for the name.
SameInCatalog(p, name) == \E n \in Known(p) : CompanyOf(n) = CompanyOf(name)

\* resolve_entity over the catalog of the process and the accounts of the table
SameCompany(p, name) == \E n \in AccountsOf(accounts) : CompanyOf(n) = CompanyOf(name)

\* create_public_prospect: the same identity is given back, the same company refused.
CreateAccount(p) ==
  LET name == task[p].name
  IN  /\ task[p].at = "create_account"
      /\ task' = [task EXCEPT ![p] =
           IF SameCompany(p, name) /\ name \notin AccountsOf(accounts)
           THEN NoTask ELSE [@ EXCEPT !.at = "commit_account"]]
      /\ UNCHANGED <<candidateRows, durableRows, catalog, sightings>>

\* The account, the review state and the audit; their keys refuse a second one.
CommitAccount(p) ==
  LET name == task[p].name
  IN  /\ task[p].at = "commit_account"
      /\ IF name \in audits
         THEN /\ task' = [task EXCEPT ![p] = NoTask]
              /\ UNCHANGED <<organizationRow, accounts, audits>>
         ELSE /\ accounts' = Append(accounts, [name |-> name, began |-> task[p].began])
              /\ audits' = audits \cup {name}
              /\ organizationRow' = [organizationRow EXCEPT ![name].review = "PROMOTED"]
              /\ task' = [task EXCEPT ![p] = [at |-> "refresh"]]
      /\ UNCHANGED <<programRow, programs, programAudits, catalog, sightings>>

\* Mutant: the account is the one that the candidate was seen with.
SeenOwner(owner) == IF owner[1] = "account" THEN owner[2] ELSE ""

\* The account of a program candidate: the one it was seen with, or the one that its
\* organization was promoted to.
PromotedOwner(owner) ==
  IF owner[1] = "account" \/ (owner[1] = "candidate" /\ owner[2] \in audits) THEN owner[2] ELSE ""

\* The program's row and audit, its account, and that the process knows both or neither.
ReadProgramCandidate(p, key) ==
  LET account == PromotedOwner(key[1])
  IN  /\ task[p] = NoTask
      /\ programRow[key].review = "PENDING_REVIEW"
      /\ key \notin programAudits
      /\ key[2] \notin KnownPrograms(p)
      /\ account = "" \/ account \in Known(p)
      /\ task' = [task EXCEPT ![p] =
           [at |-> "create_program", key |-> key, account |-> account, began |-> Len(accounts)]]
      /\ UNCHANGED <<candidateRows, durableRows, catalog, sightings>>

NamesOfPrograms == {programs[i].key[2] : i \in DOMAIN programs}

\* create_program: a program of that name is refused, unless it came of this candidate.
CreateProgram(p) ==
  LET key == task[p].key
  IN  /\ task[p].at = "create_program"
      /\ task' = [task EXCEPT ![p] =
           IF key[2] \in NamesOfPrograms /\ key \notin programAudits
           THEN NoTask ELSE [@ EXCEPT !.at = "commit_program"]]
      /\ UNCHANGED <<candidateRows, durableRows, catalog, sightings>>

CommitProgram(p) ==
  LET key == task[p].key
  IN  /\ task[p].at = "commit_program"
      /\ IF key[2] \in NamesOfPrograms
         THEN /\ task' = [task EXCEPT ![p] = NoTask]
              /\ UNCHANGED <<programRow, programs, programAudits>>
         ELSE /\ programs' = Append(programs,
                   [key |-> key, account |-> task[p].account, began |-> task[p].began])
              /\ programAudits' = programAudits \cup {key}
              /\ programRow' = [programRow EXCEPT ![key].review = "PROMOTED"]
              /\ task' = [task EXCEPT ![p] = [at |-> "refresh"]]
      /\ UNCHANGED <<organizationRow, accounts, audits, catalog, sightings>>

Composed == [accounts |-> Len(accounts), programs |-> Len(programs)]

\* refresh_durable_catalog after a promotion, in this process.
RefreshCatalog(p) ==
  /\ task[p].at = "refresh"
  /\ catalog' = [catalog EXCEPT ![p] = Composed]
  /\ task' = [task EXCEPT ![p] = NoTask]
  /\ UNCHANGED <<candidateRows, durableRows, sightings>>

\* A commercial import has a new revision: environment() composes the catalog again.
RefreshOnRevision(p) ==
  /\ catalog[p] # Composed
  /\ catalog' = [catalog EXCEPT ![p] = Composed]
  /\ UNCHANGED <<candidateRows, durableRows, task, sightings>>

\* The process ends, its transaction with it, and another starts.
RestartProcess(p) ==
  /\ task[p] # NoTask
  /\ task' = [task EXCEPT ![p] = NoTask]
  /\ catalog' = [catalog EXCEPT ![p] = Composed]
  /\ UNCHANGED <<candidateRows, durableRows, sightings>>

-----------------------------------------------------------------------------
PromotionInit ==
  /\ organizationRow = [n \in Names |-> Unseen]
  /\ programRow = [k \in ProgramKeys |-> Unseen]
  /\ accounts = <<>> /\ programs = <<>>
  /\ audits = {} /\ programAudits = {}
  /\ catalog = [p \in Processes |-> [accounts |-> 0, programs |-> 0]]
  /\ task = [p \in Processes |-> NoTask]
  /\ sightings = 0

PromotionNext ==
  \E p \in Processes :
    \/ \E name \in Names :
         \/ \E quality \in Qualities, mentioned \in SUBSET Programs :
              Sight(p, name, quality, mentioned)
         \/ ReadCandidate(p, name)
    \/ \E mentioned \in SUBSET Programs : SightWithoutRecipient(p, mentioned)
    \/ \E key \in ProgramKeys : ReadProgramCandidate(p, key)
    \/ PersistCandidates(p)
    \/ CreateAccount(p) \/ CommitAccount(p)
    \/ CreateProgram(p) \/ CommitProgram(p)
    \/ RefreshCatalog(p) \/ RefreshOnRevision(p) \/ RestartProcess(p)

PromotionSpec == PromotionInit /\ [][PromotionNext]_promotionVars

-----------------------------------------------------------------------------
\* A second promotion of a company, under another spelling of its name and in any
\* process, is refused unless it began before the first was committed.
OneAccountPerCompany ==
  \A i, j \in DOMAIN accounts :
    i < j /\ CompanyOf(accounts[i].name) = CompanyOf(accounts[j].name) =>
      /\ accounts[j].began < i
      /\ accounts[i].name # accounts[j].name

\* A program has an account exactly when its owner was an account or was promoted by
\* the time the promotion of the program began; and there is one program of a name.
ProgramsFollowTheirOwners ==
  /\ \A i \in DOMAIN programs :
       LET owner == programs[i].key[1]
           before == AccountsOf(SubSeq(accounts, 1, programs[i].began))
       IN  programs[i].account =
             IF owner[1] # "unassigned" /\ owner[2] \in before THEN owner[2] ELSE ""
  /\ \A i, j \in DOMAIN programs : programs[i].key[2] = programs[j].key[2] => i = j

\* What an operator promoted stays what it was made of, through later sightings that
\* reset the review of a candidate, stale catalogs, repeated and concurrent promotions.
CatalogIsTraceable ==
  /\ OneAccountPerCompany
  /\ ProgramsFollowTheirOwners
  /\ audits = AccountsOf(accounts)
  /\ programAudits = {programs[i].key : i \in DOMAIN programs}
=============================================================================
