---------------------------- MODULE VersionedRows ----------------------------
(***************************************************************************)
(* The rows of one context that the Monitor keeps as numbered versions, one *)
(* of them current:                                                        *)
(*   save_intelligence_assessment       monitor_intelligence_assessments   *)
(*   save_technical_decomposition       monitor_technical_decompositions   *)
(*   persist_federal_assessment         federal_opportunity_assessments    *)
(*                                                   monitor/repository.py *)
(* The first two read the current row and write after it in a transaction  *)
(* that locks nothing it has read; the third holds an advisory lock.  A     *)
(* unique constraint on context and version is all that stands between two *)
(* writers.                                                                *)
(***************************************************************************)
EXTENDS Naturals

CONSTANTS
  Writers,    \* transactions: workers whose locks overlap, API requests
  Revisions,  \* input revisions, the hashes of what an assessment rests on
  NoContent,  \* nothing read
  MaxRowVersion   \* bound on the versions

ASSUME RowsAssumption == NoContent \notin Revisions

VARIABLES
  rows,  \* versions: [version, revision, current]
  seen   \* what each open transaction has read: the current row, or NoRow

rowVars == <<rows, seen>>

NoRow == [version |-> 0, revision |-> NoContent, current |-> FALSE]

Row == [version : Nat \ {0}, revision : Revisions, current : BOOLEAN]

RowsTypeOK ==
  /\ rows \in SUBSET Row
  /\ seen \in [Writers -> Row \cup {NoRow, NoContent}]

Current(table) == {row \in table : row.current}

CurrentRow(table) == IF Current(table) = {} THEN NoRow ELSE CHOOSE row \in table : row.current

\* SELECT ... WHERE context_key = ... AND is_current
Read(w) ==
  /\ seen[w] = NoContent
  /\ seen' = [seen EXCEPT ![w] = CurrentRow(rows)]
  /\ UNCHANGED rows

Retired(row) == [row EXCEPT !.current = FALSE]

\* Mutant: no constraint on the version.
VersionsRepeat(read, row) == TRUE

\* uq_monitor_assessment_context_version
NextVersionIsFree(read, row) == \A other \in rows : other.version # row.version

\* UPDATE ... SET is_current = FALSE WHERE id = the row read; INSERT
Succeed(read, row) ==
  rows' = {IF other.version = read.version THEN Retired(other) ELSE other : other \in rows} \cup {row}

NewRow(read, revision) ==
  [version |-> read.version + 1, revision |-> revision, current |-> TRUE]

\* The revision is the one read: that row is written in place, current or not by now.
WriteInPlace(w) ==
  /\ seen[w] # NoContent /\ seen[w] # NoRow
  /\ seen' = [seen EXCEPT ![w] = NoContent]
  /\ UNCHANGED rows

WriteNext(w, revision) ==
  /\ seen[w] # NoContent
  /\ revision # seen[w].revision /\ seen[w].version < MaxRowVersion
  /\ NextVersionIsFree(seen[w], NewRow(seen[w], revision))
  /\ Succeed(seen[w], NewRow(seen[w], revision))
  /\ seen' = [seen EXCEPT ![w] = NoContent]

\* IntegrityError, or any other end of the transaction without its writes.
RollBack(w) ==
  /\ seen[w] # NoContent
  /\ seen' = [seen EXCEPT ![w] = NoContent]
  /\ UNCHANGED rows

\* persist_federal_assessment: read and written under pg_advisory_xact_lock.
WriteLocked(w, revision) ==
  LET read == CurrentRow(rows)
  IN  /\ seen[w] = NoContent
      /\ revision # read.revision /\ read.version < MaxRowVersion
      /\ NextVersionIsFree(read, NewRow(read, revision))
      /\ Succeed(read, NewRow(read, revision))
      /\ UNCHANGED seen

RowsInit ==
  /\ rows = {}
  /\ seen = [w \in Writers |-> NoContent]

RowsNext ==
  \E w \in Writers :
    \/ Read(w) \/ WriteInPlace(w) \/ RollBack(w)
    \/ \E revision \in Revisions : WriteNext(w, revision) \/ WriteLocked(w, revision)

RowsSpec == RowsInit /\ [][RowsNext]_rowVars

-----------------------------------------------------------------------------
\* Whatever two writers have read when they write, one row is current as soon as
\* there is one, it is the last, and no version is missing or there twice: readers
\* use one_or_none() on the current rows.
OneCurrentVersion ==
  /\ \A a, b \in rows : a.version = b.version => a = b
  /\ \A a \in rows : a.current <=> \A b \in rows : b.version <= a.version
  /\ \A a \in rows : \A v \in 1..a.version : \E b \in rows : b.version = v

\* A version, once there, keeps its revision, and once retired stays retired.
HistoryStep ==
  \A a \in rows : \E b \in rows' :
    /\ b.version = a.version /\ b.revision = a.revision
    /\ b.current => a.current

HistoryIsKept == [][HistoryStep]_rowVars
=============================================================================
