--------------------------- MODULE MonitorProofs ----------------------------
(***************************************************************************)
(* Theorems about what the monitor keeps: market series, versioned rows,   *)
(* event clusters and the accounts and programs made of its candidates.    *)
(* They hold for any number of refreshes, writers, revisions and versions, *)
(* for all sources and names, and whatever a run waits for between its     *)
(* transactions.                                                           *)
(***************************************************************************)
EXTENDS MarketSeries, VersionedRows, MonitorCollection, CandidatePromotion, TLAPS

-----------------------------------------------------------------------------
(***************************************************************************)
(* Market series.                                                          *)
(***************************************************************************)
MarketTypeOK ==
  /\ marketHour \in Nat
  /\ \A run \in refreshRuns : run.completed \in Nat
  /\ DOMAIN refresh = Refreshes
  /\ \A r \in Refreshes : refresh[r].at = "fetched" => refresh[r].retrieved \in Nat

MarketInv == MarketTypeOK /\ CurrentIsNewest

-----------------------------------------------------------------------------
\* A step that brings no run that succeeded, and moves no pointer.
LEMMA PointersStay ==
  ASSUME CurrentIsNewest, Succeeded' = Succeeded, UNCHANGED pointers
  PROVE  CurrentIsNewest'
BY DEF CurrentIsNewest

LEMMA RefreshTypes ==
  ASSUME MarketTypeOK, NEW r \in Refreshes, NEW state, RefreshBecomes(r, state),
         state.at = "fetched" => state.retrieved \in Nat
  PROVE  /\ DOMAIN refresh' = Refreshes
         /\ \A other \in Refreshes :
              refresh'[other].at = "fetched" => refresh'[other].retrieved \in Nat
<1>1. /\ DOMAIN refresh' = Refreshes
      /\ \A other \in Refreshes :
           refresh'[other] = IF other = r THEN state ELSE refresh[other]
  BY DEF MarketTypeOK, RefreshBecomes
<1>. QED
  BY <1>1 DEF MarketTypeOK

LEMMA StartKeepsMarket == ASSUME MarketInv, NEW r \in Refreshes, StartRefresh(r) PROVE MarketInv'
<1>1. /\ RefreshBecomes(r, [at |-> "fetching"])
      /\ UNCHANGED <<marketHour, pointers, refreshRuns>>
  BY DEF StartRefresh
<1>2. MarketTypeOK'
  BY <1>1, RefreshTypes DEF MarketInv, MarketTypeOK
<1>. QED
  BY <1>1, <1>2, PointersStay DEF MarketInv, Succeeded

LEMMA FetchKeepsMarket == ASSUME MarketInv, NEW r \in Refreshes, Fetch(r) PROVE MarketInv'
<1>1. /\ RefreshBecomes(r, [at |-> "fetched", body |-> published, retrieved |-> marketHour])
      /\ UNCHANGED <<marketHour, pointers, refreshRuns>>
  BY DEF Fetch
<1>2. MarketTypeOK'
  BY <1>1, RefreshTypes DEF MarketInv, MarketTypeOK
<1>. QED
  BY <1>1, <1>2, PointersStay DEF MarketInv, Succeeded

LEMMA FailKeepsMarket == ASSUME MarketInv, NEW r \in Refreshes, FailRefresh(r) PROVE MarketInv'
<1>. DEFINE run == [completed |-> marketHour, status |-> "FAILED", brought |-> NotStarted]
<1>1. /\ RefreshBecomes(r, [at |-> "ended"])
      /\ refreshRuns' = refreshRuns \cup {run}
      /\ UNCHANGED <<marketHour, pointers>>
  BY DEF FailRefresh
<1>2. run.completed = marketHour /\ run.status = "FAILED"
  OBVIOUS
<1>. HIDE DEF run
<1>3. MarketTypeOK'
  BY <1>1, <1>2, RefreshTypes DEF MarketInv, MarketTypeOK
<1>4. Succeeded' = Succeeded
  BY <1>1, <1>2 DEF Succeeded
<1>. QED
  BY <1>1, <1>3, <1>4, PointersStay DEF MarketInv

\* What is not stale was retrieved after all that succeeded; its run is the newest.
LEMMA StoreKeepsMarket == ASSUME MarketInv, NEW r \in Refreshes, Store(r) PROVE MarketInv'
<1>. DEFINE new == [completed |-> refresh[r].retrieved, status |-> "SUCCEEDED",
                    brought |-> refresh[r].body]
<1>1. /\ RefreshBecomes(r, [at |-> "ended"])
      /\ UNCHANGED marketHour
      /\ refresh[r].retrieved \in Nat
  BY DEF Store, MarketInv, MarketTypeOK
<1>2. /\ new.completed = refresh[r].retrieved
      /\ new.status = "SUCCEEDED"
      /\ new.brought = refresh[r].body
  OBVIOUS
<1>3. CASE ~ NotStale(r)
  <2>1. UNCHANGED <<pointers, refreshRuns>>
    BY <1>3 DEF Store
  <2>2. MarketTypeOK'
    BY <1>1, <2>1, RefreshTypes DEF MarketInv, MarketTypeOK
  <2>. QED
    BY <2>1, <2>2, PointersStay DEF MarketInv, Succeeded
<1>4. CASE NotStale(r)
  <2>1. /\ pointers' = PointersMoved(r)
        /\ refreshRuns' = refreshRuns \cup {new}
    BY <1>4 DEF Store
  <2>. HIDE DEF new
  <2>2. MarketTypeOK'
    BY <1>1, <1>2, <2>1, RefreshTypes DEF MarketInv, MarketTypeOK
  <2>3. Succeeded' = Succeeded \cup {new}
    BY <1>2, <2>1 DEF Succeeded
  <2>4. \A s \in Series :
          pointers'[s] = [verified |-> new.completed, content |-> {new.brought[s]}]
    BY <1>2, <2>1 DEF PointersMoved
  <2>5. CASE \A run \in Succeeded : run.completed <= new.completed
    <3>1. \A run \in Succeeded' : run.completed <= new.completed
      BY <1>1, <1>2, <2>3, <2>5
    <3>. QED
      BY <2>2, <2>3, <2>4, <3>1 DEF CurrentIsNewest, MarketInv
  <2>6. CASE \E run \in Succeeded : ~ (run.completed <= new.completed)
    <3>1. PICK last \in Succeeded :
            /\ \A other \in Succeeded : other.completed <= last.completed
            /\ \A s \in Series : pointers[s] = [verified |-> last.completed,
                                                content |-> {last.brought[s]}]
      BY <2>6 DEF MarketInv, CurrentIsNewest
    <3>2. \A run \in Succeeded : run.completed \in Nat
      BY DEF MarketInv, MarketTypeOK, Succeeded
    <3>3. ~ (last.completed <= new.completed)
      BY <1>1, <1>2, <2>6, <3>1, <3>2
    <3>4. Series = {}
      <4>. SUFFICES ASSUME NEW s \in Series PROVE FALSE
        OBVIOUS
      <4>1. pointers[s] = [verified |-> last.completed, content |-> {last.brought[s]}]
        BY <3>1
      <4>2. pointers[s].verified = last.completed
        BY ONLY <4>1
      <4>. QED
        BY <1>2, <1>4, <3>3, <4>2 DEF NotStale
    <3>5. \A run \in Succeeded' : run.completed <= last.completed
      BY <1>1, <1>2, <2>3, <3>1, <3>2, <3>3
    <3>. QED
      BY <2>2, <2>3, <3>4, <3>5 DEF CurrentIsNewest, MarketInv
  <2>. QED
    BY <2>5, <2>6
<1>. QED
  BY <1>3, <1>4

LEMMA AbandonKeepsMarket == ASSUME MarketInv, NEW r \in Refreshes, AbandonRefresh(r) PROVE MarketInv'
<1>1. /\ RefreshBecomes(r, NotStarted)
      /\ UNCHANGED <<marketHour, pointers, refreshRuns>>
  BY DEF AbandonRefresh
<1>2. MarketTypeOK'
  BY <1>1, RefreshTypes DEF MarketInv, MarketTypeOK, NotStarted
<1>. QED
  BY <1>1, <1>2, PointersStay DEF MarketInv, Succeeded

LEMMA InitMarket == MarketInit => MarketInv
BY DEF MarketInit, MarketInv, MarketTypeOK, CurrentIsNewest, Succeeded, NotStarted

LEMMA NextMarket == MarketInv /\ [MarketNext]_marketVars => MarketInv'
<1>. SUFFICES ASSUME MarketInv, [MarketNext]_marketVars PROVE MarketInv'
  OBVIOUS
<1>1. CASE UNCHANGED <<marketHour, pointers, refreshRuns, refresh>>
  BY <1>1 DEF MarketInv, MarketTypeOK, CurrentIsNewest, Succeeded
<1>2. CASE MarketHourPasses
  <2>1. /\ marketHour' = marketHour + 1
        /\ UNCHANGED <<pointers, refreshRuns, refresh>>
    BY <1>2 DEF MarketHourPasses
  <2>2. MarketTypeOK'
    BY <2>1 DEF MarketInv, MarketTypeOK
  <2>. QED
    BY <2>1, <2>2, PointersStay DEF MarketInv, Succeeded
<1>3. ASSUME NEW r \in Refreshes,
             StartRefresh(r) \/ Fetch(r) \/ FailRefresh(r) \/ Store(r) \/ AbandonRefresh(r)
      PROVE  MarketInv'
  BY <1>3, StartKeepsMarket, FetchKeepsMarket, FailKeepsMarket, StoreKeepsMarket, AbandonKeepsMarket
<1>. QED
  BY <1>1, <1>2, <1>3 DEF MarketNext, Publish, marketVars

-----------------------------------------------------------------------------
\* In whatever order refreshes of several workers fetch, fail and store, all series
\* that readers are shown come of the one publication that was retrieved last.
THEOREM NewestIsShown == MarketSpec => []CurrentIsNewest
<1>1. MarketInit => MarketInv
  BY InitMarket
<1>2. MarketInv /\ [MarketNext]_marketVars => MarketInv'
  BY NextMarket
<1>3. MarketInv => CurrentIsNewest
  BY DEF MarketInv
<1>. QED
  BY <1>1, <1>2, <1>3, PTL DEF MarketSpec

-----------------------------------------------------------------------------
(***************************************************************************)
(* Rows of which one version is current.                                   *)
(***************************************************************************)
\* What a transaction has read was a row, and rows keep their versions.
SeenIsKept ==
  \A w \in Writers :
    seen[w] \notin {NoContent, NoRow} => \E row \in rows : row.version = seen[w].version

RowsInv == RowsTypeOK /\ OneCurrentVersion /\ SeenIsKept

-----------------------------------------------------------------------------
LEMMA RowTypes ==
  /\ \A row \in Row : row.version \in Nat /\ row.version > 0 /\ row.current \in BOOLEAN
  /\ NoRow \notin Row /\ NoRow.version = 0
<1>1. \A row \in Row : row.version \in Nat \ {0} /\ row.current \in BOOLEAN
  BY DEF Row
<1>2. NoRow.version = 0
  BY DEF NoRow
<1>. QED
  BY <1>1, <1>2

\* What SELECT ... is_current gives: no row, or one there is.
LEMMA CurrentRowIsThere ==
  ASSUME rows \in SUBSET Row
  PROVE  CurrentRow(rows) = NoRow \/ CurrentRow(rows) \in rows
<1>1. CASE Current(rows) = {}
  BY <1>1 DEF CurrentRow
<1>2. CASE Current(rows) # {}
  <2>1. PICK row \in rows : row.current
    BY <1>2 DEF Current
  <2>. QED
    BY <1>2, <2>1 DEF CurrentRow
<1>. QED
  BY <1>1, <1>2

\* The heart of it: a version is free only after the last, since none is missing; so
\* the row that is retired is the current one, whoever read it and when.
LEMMA SucceedKeepsOneCurrent ==
  ASSUME rows \in SUBSET Row, OneCurrentVersion,
         NEW read, read.version \in Nat,
         read.version = 0 \/ \E row \in rows : row.version = read.version,
         NEW revision \in Revisions,
         NextVersionIsFree(read, NewRow(read, revision)),
         Succeed(read, NewRow(read, revision))
  PROVE  /\ rows' \in SUBSET Row
         /\ OneCurrentVersion'
         /\ \A row \in rows : \E kept \in rows' : kept.version = row.version
<1>. DEFINE new == NewRow(read, revision)
            kept(row) == IF row.version = read.version THEN Retired(row) ELSE row
<1>1. /\ new \in Row
      /\ new.version = read.version + 1
      /\ new.current = TRUE
  BY DEF NewRow, Row
<1>2. \A row \in rows : row.version <= read.version
  <2>. SUFFICES ASSUME NEW row \in rows, row.version > read.version
                PROVE  FALSE
    BY RowTypes
  <2>1. read.version + 1 \in 1..row.version
    BY RowTypes
  <2>2. PICK other \in rows : other.version = read.version + 1
    BY <2>1 DEF OneCurrentVersion
  <2>. QED
    BY <1>1, <2>2 DEF NextVersionIsFree
<1>3. \A row \in rows :
        /\ kept(row) \in Row
        /\ kept(row).version = row.version
        /\ kept(row).current = FALSE
  <2>. TAKE row \in rows
  <2>1. row \in Row
    OBVIOUS
  <2>2. /\ Retired(row) \in Row
        /\ Retired(row).version = row.version
        /\ Retired(row).current = FALSE
    BY <2>1 DEF Retired, Row
  <2>3. row.version # read.version => row.current = FALSE
    <3>. SUFFICES ASSUME row.version # read.version PROVE row.current = FALSE
      OBVIOUS
    <3>1. row.version < read.version
      BY <1>2, RowTypes
    <3>2. PICK other \in rows : other.version = read.version
      BY <3>1, RowTypes
    <3>3. ~ row.current
      BY <3>1, <3>2, RowTypes DEF OneCurrentVersion
    <3>4. row.current \in BOOLEAN
      BY RowTypes
    <3>. QED
      BY <3>3, <3>4
  <2>. QED
    BY <2>1, <2>2, <2>3
<1>4. rows' = {kept(row) : row \in rows} \cup {new}
  BY DEF Succeed
<1>. HIDE DEF new, kept
<1>5. rows' \in SUBSET Row
  BY <1>1, <1>3, <1>4
<1>6. \A row \in rows : kept(row) \in rows' /\ kept(row).version = row.version
  BY <1>3, <1>4
<1>7. \A a, b \in rows' : a.version = b.version => a = b
  <2>. SUFFICES ASSUME NEW a \in rows', NEW b \in rows', a.version = b.version
                PROVE  a = b
    OBVIOUS
  <2>1. CASE a = new \/ b = new
    BY <1>1, <1>2, <1>3, <1>4, <2>1, RowTypes
  <2>2. CASE a # new /\ b # new
    <3>1. PICK x \in rows : a = kept(x)
      BY <1>4, <2>2
    <3>2. PICK y \in rows : b = kept(y)
      BY <1>4, <2>2
    <3>3. x.version = y.version
      BY <1>3, <3>1, <3>2
    <3>4. x = y
      BY <3>3 DEF OneCurrentVersion
    <3>. QED
      BY <3>1, <3>2, <3>4
  <2>. QED
    BY <2>1, <2>2
<1>8. \A a \in rows' : a.version <= new.version
  BY <1>1, <1>2, <1>3, <1>4, RowTypes
<1>9. \A a \in rows' : a.current <=> \A b \in rows' : b.version <= a.version
  <2>. TAKE a \in rows'
  <2>1. CASE a = new
    BY <1>1, <1>8, <2>1
  <2>2. CASE a # new
    <3>1. PICK x \in rows : a = kept(x)
      BY <1>4, <2>2
    <3>2. /\ a.current = FALSE /\ new \in rows'
          /\ a.version <= read.version /\ a.version \in Nat
      BY <1>2, <1>3, <1>4, <3>1, RowTypes
    <3>3. ~ (new.version <= a.version)
      BY <1>1, <3>2
    <3>. QED
      BY <3>2, <3>3
  <2>. QED
    BY <2>1, <2>2
<1>10. \A a \in rows' : \A v \in 1..a.version : \E b \in rows' : b.version = v
  <2>. SUFFICES ASSUME NEW a \in rows', NEW v \in 1..a.version
                PROVE  \E b \in rows' : b.version = v
    OBVIOUS
  <2>1. CASE v = new.version
    BY <1>4, <2>1
  <2>2. CASE v # new.version
    <3>1. a.version \in Nat /\ v \in Nat /\ v > 0 /\ v <= read.version
      BY <1>1, <1>5, <1>8, <2>2, RowTypes
    <3>2. PICK last \in rows : last.version = read.version
      BY <3>1
    <3>3. v \in 1..last.version
      BY <3>1, <3>2
    <3>4. PICK row \in rows : row.version = v
      BY <3>3 DEF OneCurrentVersion
    <3>. QED
      BY <1>6, <3>4
  <2>. QED
    BY <2>1, <2>2
<1>. QED
  BY <1>5, <1>6, <1>7, <1>9, <1>10 DEF OneCurrentVersion

LEMMA ReadKeepsRows ==
  ASSUME RowsInv, NEW w \in Writers, Read(w) PROVE RowsInv'
<1>. USE DEF RowsInv
<1>1. CurrentRow(rows) \in rows \cup {NoRow}
  BY CurrentRowIsThere DEF RowsTypeOK
<1>2. /\ UNCHANGED rows
      /\ seen' = [seen EXCEPT ![w] = CurrentRow(rows)]
  BY DEF Read
<1>3. RowsTypeOK'
  BY <1>1, <1>2 DEF RowsTypeOK
<1>4. SeenIsKept'
  <2>. SUFFICES ASSUME NEW other \in Writers, seen'[other] \notin {NoContent, NoRow}
                PROVE  \E row \in rows : row.version = seen'[other].version
    BY <1>2 DEF SeenIsKept
  <2>1. CASE other = w
    BY <1>1, <1>2, <2>1, RowTypes DEF RowsTypeOK
  <2>2. CASE other # w
    BY <1>2, <2>2 DEF SeenIsKept, RowsTypeOK
  <2>. QED
    BY <2>1, <2>2
<1>5. OneCurrentVersion'
  BY <1>2 DEF OneCurrentVersion
<1>. QED
  BY <1>3, <1>4, <1>5

\* Whatever a transaction does last, it has then read nothing.
LEMMA EndKeepsRows ==
  ASSUME RowsInv, NEW w \in Writers, UNCHANGED rows,
         seen' = [seen EXCEPT ![w] = NoContent]
  PROVE  RowsInv'
<1>1. RowsTypeOK' /\ OneCurrentVersion'
  BY DEF RowsInv, RowsTypeOK, OneCurrentVersion
<1>2. SeenIsKept'
  <2>. SUFFICES ASSUME NEW other \in Writers, seen'[other] \notin {NoContent, NoRow}
                PROVE  \E row \in rows : row.version = seen'[other].version
    BY DEF SeenIsKept
  <2>1. other # w /\ seen'[other] = seen[other]
    BY DEF RowsInv, RowsTypeOK
  <2>. QED
    BY <2>1 DEF RowsInv, SeenIsKept
<1>. QED
  BY <1>1, <1>2 DEF RowsInv

\* A successor of a row, or of no row, that was there when it was read.
LEMMA SuccessorKeepsRows ==
  ASSUME RowsInv, NEW read, read.version \in Nat,
         read.version = 0 \/ \E row \in rows : row.version = read.version,
         NEW revision \in Revisions,
         NextVersionIsFree(read, NewRow(read, revision)),
         Succeed(read, NewRow(read, revision)),
         NEW w \in Writers,
         seen' = seen \/ seen' = [seen EXCEPT ![w] = NoContent]
  PROVE  RowsInv'
<1>1. /\ rows' \in SUBSET Row
      /\ OneCurrentVersion'
      /\ \A row \in rows : \E kept \in rows' : kept.version = row.version
  BY SucceedKeepsOneCurrent DEF RowsInv, RowsTypeOK
<1>2. \A other \in Writers : seen'[other] \in {seen[other], NoContent}
  BY DEF RowsInv, RowsTypeOK
<1>3. RowsTypeOK'
  BY <1>1 DEF RowsInv, RowsTypeOK
<1>4. SeenIsKept'
  <2>. SUFFICES ASSUME NEW other \in Writers, seen'[other] \notin {NoContent, NoRow}
                PROVE  \E row \in rows' : row.version = seen'[other].version
    BY DEF SeenIsKept
  <2>1. seen'[other] = seen[other]
    BY <1>2
  <2>2. PICK row \in rows : row.version = seen[other].version
    BY <2>1 DEF RowsInv, SeenIsKept
  <2>. QED
    BY <1>1, <2>1, <2>2
<1>. QED
  BY <1>1, <1>3, <1>4 DEF RowsInv

LEMMA WriteNextKeepsRows ==
  ASSUME RowsInv, NEW w \in Writers, NEW revision \in Revisions, WriteNext(w, revision)
  PROVE  RowsInv'
<1>1. seen[w] \in Row \cup {NoRow} /\ seen[w] # NoContent
  BY DEF RowsInv, RowsTypeOK, WriteNext
<1>2. seen[w].version \in Nat
  BY <1>1, RowTypes
<1>3. seen[w].version = 0 \/ \E row \in rows : row.version = seen[w].version
  BY <1>1, RowTypes DEF RowsInv, SeenIsKept
<1>4. /\ NextVersionIsFree(seen[w], NewRow(seen[w], revision))
      /\ Succeed(seen[w], NewRow(seen[w], revision))
      /\ seen' = [seen EXCEPT ![w] = NoContent]
  BY DEF WriteNext
<1>. QED
  BY <1>2, <1>3, <1>4, SuccessorKeepsRows

LEMMA WriteLockedKeepsRows ==
  ASSUME RowsInv, NEW w \in Writers, NEW revision \in Revisions, WriteLocked(w, revision)
  PROVE  RowsInv'
<1>. DEFINE read == CurrentRow(rows)
<1>1. read = NoRow \/ read \in rows
  BY CurrentRowIsThere DEF RowsInv, RowsTypeOK
<1>2. read.version \in Nat /\ (read.version = 0 \/ \E row \in rows : row.version = read.version)
  BY <1>1, RowTypes DEF RowsInv, RowsTypeOK
<1>3. /\ NextVersionIsFree(read, NewRow(read, revision))
      /\ Succeed(read, NewRow(read, revision))
      /\ seen' = seen
  BY DEF WriteLocked
<1>. HIDE DEF read
<1>. QED
  BY <1>2, <1>3, SuccessorKeepsRows

LEMMA InitRows == RowsInit => RowsInv
BY DEF RowsInit, RowsInv, RowsTypeOK, OneCurrentVersion, SeenIsKept

LEMMA NextRows == RowsInv /\ [RowsNext]_rowVars => RowsInv'
<1>. SUFFICES ASSUME RowsInv, [RowsNext]_rowVars PROVE RowsInv'
  OBVIOUS
<1>1. CASE UNCHANGED rowVars
  BY <1>1 DEF rowVars, RowsInv, RowsTypeOK, OneCurrentVersion, SeenIsKept
<1>2. ASSUME NEW w \in Writers, Read(w) PROVE RowsInv'
  BY <1>2, ReadKeepsRows
<1>3. ASSUME NEW w \in Writers, WriteInPlace(w) \/ RollBack(w) PROVE RowsInv'
  BY <1>3, EndKeepsRows DEF WriteInPlace, RollBack
<1>4. ASSUME NEW w \in Writers, NEW revision \in Revisions, WriteNext(w, revision)
      PROVE  RowsInv'
  BY <1>4, WriteNextKeepsRows
<1>5. ASSUME NEW w \in Writers, NEW revision \in Revisions, WriteLocked(w, revision)
      PROVE  RowsInv'
  BY <1>5, WriteLockedKeepsRows
<1>. QED
  BY <1>1, <1>2, <1>3, <1>4, <1>5 DEF RowsNext

-----------------------------------------------------------------------------
\* However the transactions of save_intelligence_assessment, of
\* save_technical_decomposition and of persist_federal_assessment interleave, a context
\* has one current row, its last, and no version is skipped or given twice.
THEOREM OneCurrent == RowsSpec => []OneCurrentVersion
<1>1. RowsInit => RowsInv
  BY InitRows
<1>2. RowsInv /\ [RowsNext]_rowVars => RowsInv'
  BY NextRows
<1>3. RowsInv => OneCurrentVersion
  BY DEF RowsInv
<1>. QED
  BY <1>1, <1>2, <1>3, PTL DEF RowsSpec

\* Succeed changes nothing of a row but whether it is current, and then retires it.
LEMMA SucceedKeepsHistory ==
  ASSUME rows \in SUBSET Row, NEW read, NEW new, Succeed(read, new)
  PROVE  HistoryStep
<1>. SUFFICES ASSUME NEW a \in rows
              PROVE  \E b \in rows' : /\ b.version = a.version /\ b.revision = a.revision
                                      /\ b.current => a.current
  BY DEF HistoryStep
<1>. DEFINE b == IF a.version = read.version THEN Retired(a) ELSE a
<1>1. b \in rows'
  BY DEF Succeed
<1>2. a \in Row
  OBVIOUS
<1>3. b.version = a.version /\ b.revision = a.revision
  BY <1>2 DEF Retired, Row
<1>4. b.current => a.current
  <2>1. CASE a.version = read.version
    <3>1. b.current = FALSE
      BY <1>2, <2>1 DEF Retired, Row
    <3>. QED
      BY <3>1
  <2>2. CASE a.version # read.version
    BY <2>2
  <2>. QED
    BY <2>1, <2>2
<1>. QED
  BY <1>1, <1>3, <1>4

LEMMA StepKeepsHistory == RowsInv /\ [RowsNext]_rowVars => [HistoryStep]_rowVars
<1>. SUFFICES ASSUME RowsInv, RowsNext PROVE HistoryStep
  OBVIOUS
<1>0. rows \in SUBSET Row
  BY DEF RowsInv, RowsTypeOK
<1>1. CASE UNCHANGED rows
  BY <1>1 DEF HistoryStep
<1>2. ASSUME NEW w \in Writers, NEW revision \in Revisions,
             WriteNext(w, revision) \/ WriteLocked(w, revision)
      PROVE  HistoryStep
  <2>1. \/ Succeed(seen[w], NewRow(seen[w], revision))
        \/ Succeed(CurrentRow(rows), NewRow(CurrentRow(rows), revision))
    BY <1>2 DEF WriteNext, WriteLocked
  <2>. QED
    BY <1>0, <2>1, SucceedKeepsHistory
<1>. QED
  BY <1>1, <1>2 DEF RowsNext, Read, WriteInPlace, RollBack

\* A version of an assessment, once written, keeps the revision it is about, and once
\* it has been superseded it never becomes current again.
THEOREM HistoryKept == RowsSpec => HistoryIsKept
<1>1. RowsInit => RowsInv
  BY InitRows
<1>2. RowsInv /\ [RowsNext]_rowVars => RowsInv'
  BY NextRows
<1>3. RowsInv /\ [RowsNext]_rowVars => [HistoryStep]_rowVars
  BY StepKeepsHistory
<1>. QED
  BY <1>1, <1>2, <1>3, PTL DEF RowsSpec, HistoryIsKept

-----------------------------------------------------------------------------
(***************************************************************************)
(* Event clusters.                                                         *)
(***************************************************************************)
Cluster == [event : Nat, observations : SUBSET Nat, related : SUBSET Nat]
Memory == [clusters : [Records -> Cluster], rejected : SUBSET Observations]

\* What a process has in memory of a record says what the row says, and perhaps more.
MemoryCoversRows ==
  \A p \in Collectors, r \in Records :
    known[p].clusters[r] # NoCluster =>
      clusterRow[r].observations \subseteq known[p].clusters[r].observations

ClustersInv ==
  /\ known \in [Collectors -> Memory]
  /\ clusterRow \in [Records -> Cluster]
  /\ MemoryCoversRows

-----------------------------------------------------------------------------
LEMMA NoClusterType == NoCluster \in Cluster /\ EmptyMemory \in Memory
<1>1. NoCluster \in Cluster
  BY DEF NoCluster, Cluster
<1>. QED
  BY <1>1 DEF EmptyMemory, NoClusters, Memory

\* An event is added to its cluster: nothing that it has named is lost.
LEMMA ClusterGrows ==
  ASSUME NEW cluster \in Cluster, NEW content \in Nat
  PROVE  /\ WithEvent(cluster, content) \in Cluster
         /\ cluster.observations \subseteq WithEvent(cluster, content).observations
BY DEF WithEvent, Cluster

LEMMA NormalizeKeepsClusters ==
  ASSUME ClustersInv, NEW p \in Collectors, NEW o \in Observations, Normalize(p, o)
  PROVE  ClustersInv'
<1>. DEFINE r == o[1]
            content == o[2]
            memory == known[p]
            cluster == WithEvent(ExistingCluster(p, r), content)
            clusters == [memory.clusters EXCEPT ![r] = cluster]
            rejected == IF content \in Irrelevant THEN memory.rejected \cup {o} ELSE memory.rejected
            new == [memory EXCEPT !.clusters = clusters, !.rejected = rejected]
<1>1. r \in Records /\ content \in Nat
  <2>1. o \in Records \X (1..MaxContent)
    BY DEF Observations
  <2>2. o[2] \in 1..MaxContent
    BY <2>1
  <2>3. \A n \in 1..MaxContent : n \in Nat
    OBVIOUS
  <2>. QED
    BY <2>1, <2>2, <2>3
<1>2. memory \in Memory /\ known \in [Collectors -> Memory] /\ clusterRow \in [Records -> Cluster]
  BY DEF ClustersInv
<1>3. known' = [known EXCEPT ![p] = new] /\ UNCHANGED clusterRow
  BY <1>2 DEF Normalize
<1>4. /\ ExistingCluster(p, r) \in Cluster
      /\ clusterRow[r].observations \subseteq ExistingCluster(p, r).observations
  BY <1>1, <1>2 DEF ExistingCluster, ClustersInv, MemoryCoversRows, Memory
<1>5. cluster \in Cluster /\ clusterRow[r].observations \subseteq cluster.observations
  BY <1>1, <1>4, ClusterGrows
<1>. HIDE DEF cluster
<1>6. clusters \in [Records -> Cluster] /\ rejected \in SUBSET Observations
  BY <1>2, <1>5 DEF Memory
<1>7. clusters[r] = cluster /\ \A t \in Records \ {r} : clusters[t] = memory.clusters[t]
  BY <1>1, <1>2 DEF Memory
<1>. HIDE DEF clusters, rejected
<1>8. new \in Memory /\ new.clusters = clusters
  BY <1>2, <1>6 DEF Memory
<1>. HIDE DEF new
<1>9. /\ known' \in [Collectors -> Memory] /\ known'[p] = new
      /\ \A q \in Collectors \ {p} : known'[q] = known[q]
  BY <1>2, <1>3, <1>8
<1>10. MemoryCoversRows'
  <2>1. ASSUME NEW q \in Collectors, NEW t \in Records, known'[q].clusters[t] # NoCluster
        PROVE  clusterRow[t].observations \subseteq known'[q].clusters[t].observations
    <3>1. CASE q = p /\ t = r
      BY <1>5, <1>7, <1>8, <1>9, <3>1
    <3>2. CASE q = p /\ t # r
      BY <1>7, <1>8, <1>9, <2>1, <3>2 DEF ClustersInv, MemoryCoversRows
    <3>3. CASE q # p
      BY <1>9, <2>1, <3>3 DEF ClustersInv, MemoryCoversRows
    <3>. QED
      BY <3>1, <3>2, <3>3
  <2>. QED
    BY <1>3, <2>1 DEF MemoryCoversRows
<1>11. clusterRow' \in [Records -> Cluster]
  BY <1>2, <1>3
<1>. QED
  BY <1>9, <1>10, <1>11 DEF ClustersInv

\* The rows become what the one process has in memory.
LEMMA PersistKeepsClusters ==
  ASSUME ClustersInv, NEW p \in Collectors, \A q \in Collectors : q = p, PersistSnapshot(p)
  PROVE  /\ ClustersInv'
         /\ \A r \in Records : clusterRow[r].observations \subseteq clusterRow'[r].observations
<1>1. /\ UNCHANGED known
      /\ clusterRow' = [r \in Records |->
           IF known[p].clusters[r] # NoCluster THEN known[p].clusters[r] ELSE clusterRow[r]]
  BY DEF PersistSnapshot, HandsOver
<1>2. /\ known \in [Collectors -> Memory] /\ clusterRow \in [Records -> Cluster]
      /\ \A r \in Records : known[p].clusters[r] \in Cluster
  BY DEF ClustersInv, Memory
<1>3. clusterRow' \in [Records -> Cluster]
  BY <1>1, <1>2
<1>4. \A r \in Records : clusterRow[r].observations \subseteq clusterRow'[r].observations
  BY <1>1 DEF ClustersInv, MemoryCoversRows
<1>5. MemoryCoversRows'
  BY <1>1 DEF MemoryCoversRows
<1>. QED
  BY <1>1, <1>2, <1>3, <1>4, <1>5 DEF ClustersInv

LEMMA EndKeepsClusters ==
  ASSUME ClustersInv, NEW p \in Collectors, EndProcess(p)
  PROVE  ClustersInv' /\ UNCHANGED clusterRow
<1>1. /\ known' = [known EXCEPT ![p] = EmptyMemory] /\ UNCHANGED clusterRow
      /\ known \in [Collectors -> Memory]
  BY DEF EndProcess, ClustersInv
<1>2. /\ known' \in [Collectors -> Memory] /\ known'[p] = EmptyMemory
      /\ \A q \in Collectors \ {p} : known'[q] = known[q]
  BY <1>1, NoClusterType
<1>3. \A r \in Records : EmptyMemory.clusters[r] = NoCluster
  BY DEF EmptyMemory, NoClusters
<1>4. MemoryCoversRows'
  BY <1>1, <1>2, <1>3 DEF ClustersInv, MemoryCoversRows
<1>. QED
  BY <1>1, <1>2, <1>4 DEF ClustersInv

LEMMA ClusterStep ==
  ASSUME \A p, q \in Collectors : p = q, ClustersInv, [CollectionNext]_collectionVars
  PROVE  /\ ClustersInv'
         /\ \A r \in Records : clusterRow[r].observations \subseteq clusterRow'[r].observations
<1>1. CASE UNCHANGED <<known, clusterRow>>
  BY <1>1 DEF ClustersInv, MemoryCoversRows
<1>2. ASSUME NEW p \in Collectors, NEW o \in Observations, Normalize(p, o)
      PROVE  ClustersInv' /\ UNCHANGED clusterRow
  BY <1>2, NormalizeKeepsClusters DEF Normalize
<1>3. ASSUME NEW p \in Collectors, PersistSnapshot(p)
      PROVE  /\ ClustersInv'
             /\ \A r \in Records : clusterRow[r].observations \subseteq clusterRow'[r].observations
  BY <1>3, PersistKeepsClusters
<1>4. ASSUME NEW p \in Collectors, EndProcess(p)
      PROVE  ClustersInv' /\ UNCHANGED clusterRow
  BY <1>4, EndKeepsClusters
<1>5. ASSUME NEW p \in Collectors, NEW s \in Sources,
             (\E found \in SUBSET ({s} \X SourceKeys) : Collect(p, s, found)) \/ CollectNothing(p, s)
      PROVE  UNCHANGED <<known, clusterRow>>
  BY <1>5 DEF Collect, CollectNothing
<1>6. ASSUME NEW p \in Collectors, (\E raised \in BOOLEAN : LeaveLoop(p, raised)) \/ LoseSnapshot(p)
      PROVE  UNCHANGED <<known, clusterRow>>
  BY <1>6 DEF LeaveLoop, LoseSnapshot
<1>7. ASSUME NEW r \in Records, NEW content \in 1..MaxContent, Revise(r, content)
      PROVE  UNCHANGED <<known, clusterRow>>
  BY <1>7 DEF Revise
<1>8. CASE UNCHANGED collectionVars
  BY <1>1, <1>8 DEF collectionVars
<1>9. CASE CollectionNext
  BY <1>1, <1>2, <1>3, <1>4, <1>5, <1>6, <1>7, <1>9 DEF CollectionNext
<1>. QED
  BY <1>8, <1>9

LEMMA InitClusters == CollectionInit => ClustersInv
<1>. SUFFICES ASSUME CollectionInit PROVE ClustersInv
  OBVIOUS
<1>1. known \in [Collectors -> Memory] /\ clusterRow \in [Records -> Cluster]
  BY NoClusterType DEF CollectionInit, NoClusters
<1>2. MemoryCoversRows
  BY DEF CollectionInit, NoClusters, NoCluster, MemoryCoversRows
<1>. QED
  BY <1>1, <1>2 DEF ClustersInv

\* As long as one process collects, which is what the worker's lock gives: through lost
\* snapshots, runs that fail half way and restarts, a cluster keeps what it has named. (The
\* API's own collections take no lock; MonitorCollectionShared shows what is then lost.)
THEOREM ClustersKeepAll ==
  ASSUME \A p, q \in Collectors : p = q
  PROVE  CollectionSpec => ClusterKeepsObservations
<1>. DEFINE Keeps == \A r \in Records : clusterRow[r].observations \subseteq clusterRow'[r].observations
<1>1. CollectionInit => ClustersInv
  BY InitClusters
<1>2. ClustersInv /\ [CollectionNext]_collectionVars => ClustersInv' /\ Keeps
  BY ClusterStep
<1>. HIDE DEF Keeps
<1>3. CollectionSpec => [][Keeps]_collectionVars
  BY <1>1, <1>2, PTL DEF CollectionSpec
<1>. QED
  BY <1>3 DEF ClusterKeepsObservations, Keeps

-----------------------------------------------------------------------------
(***************************************************************************)
(* Accounts and programs that were promoted.                               *)
(***************************************************************************)
AccountRow == [name : Names, began : Nat]
AccountName == Names \cup {""}
ProgramRow == [key : ProgramKeys, account : AccountName, began : Nat]

HasBegun(n) == n \in Nat /\ n <= Len(accounts)

\* The account of a program whose promotion began when there were so many.
OwnedBy(key, began) ==
  IF key[1][1] # "unassigned" /\ key[1][2] \in AccountsOf(SubSeq(accounts, 1, began)) THEN key[1][2] ELSE ""

\* Accounts of the same company came after the promotion began, or it will be refused.
IsFirst(name, began) ==
  name \in audits \/ \A i \in DOMAIN accounts : CompanyOf(accounts[i].name) = CompanyOf(name) => began < i

AccountTask(t) ==
  /\ t = [at |-> t.at, name |-> t.name, began |-> t.began]
  /\ t.name \in Names /\ HasBegun(t.began)

ProgramTask(t) ==
  /\ t = [at |-> t.at, key |-> t.key, account |-> t.account, began |-> t.began]
  /\ t.key \in ProgramKeys /\ t.account \in AccountName /\ HasBegun(t.began)
  /\ t.account = OwnedBy(t.key, t.began)

TaskIsSound(t) ==
  /\ t.at = "create_account" => AccountTask(t)
  /\ t.at = "commit_account" => AccountTask(t) /\ IsFirst(t.name, t.began)
  /\ t.at = "create_program" \/ t.at = "commit_program" => ProgramTask(t)

PromotionTypes ==
  /\ accounts \in Seq(AccountRow) /\ programs \in Seq(ProgramRow)
  /\ \A i \in DOMAIN programs : programs[i].began <= Len(accounts)
  /\ catalog = [p \in Processes |-> catalog[p]]
  /\ \A p \in Processes : HasBegun(catalog[p].accounts)
  /\ task = [p \in Processes |-> task[p]]

PromotionInv ==
  /\ PromotionTypes /\ CatalogIsTraceable
  /\ \A p \in Processes : TaskIsSound(task[p])

-----------------------------------------------------------------------------
LEMMA AccountRows ==
  ASSUME accounts \in Seq(AccountRow)
  PROVE  /\ Len(accounts) \in Nat /\ DOMAIN accounts = 1..Len(accounts)
         /\ \A i \in 1..Len(accounts) : accounts[i] \in AccountRow
         /\ \A i \in 1..Len(accounts) : accounts[i].name \in Names /\ accounts[i].began \in Nat
<1>1. \A r \in AccountRow : r.name \in Names /\ r.began \in Nat
  BY DEF AccountRow
<1>. QED
  BY <1>1

\* The accounts up to a place.
LEMMA AccountsUpTo ==
  ASSUME accounts \in Seq(AccountRow), NEW n, HasBegun(n)
  PROVE  AccountsOf(SubSeq(accounts, 1, n)) = {accounts[i].name : i \in 1..n}
<1>1. /\ DOMAIN SubSeq(accounts, 1, n) = 1..n
      /\ \A i \in 1..n : SubSeq(accounts, 1, n)[i] = accounts[i]
  BY DEF HasBegun
<1>. HIDE DEF AccountsOf
<1>. QED
  BY <1>1 DEF AccountsOf

LEMMA KnownAreAccounts ==
  ASSUME PromotionInv, NEW p \in Processes
  PROVE  Known(p) \subseteq AccountsOf(accounts)
<1>1. /\ HasBegun(catalog[p].accounts) /\ accounts \in Seq(AccountRow)
  BY DEF PromotionInv, PromotionTypes
<1>2. Known(p) = {accounts[i].name : i \in 1..catalog[p].accounts}
  BY <1>1, AccountsUpTo DEF Known
<1>3. AccountsOf(accounts) = {accounts[i].name : i \in 1..Len(accounts)}
  BY <1>1 DEF AccountsOf
<1>. QED
  BY <1>1, <1>2, <1>3, AccountRows DEF HasBegun

\* A task that is none of a promotion's own, or a sound one, in place of another.
LEMMA TaskMoves ==
  ASSUME PromotionInv, NEW p \in Processes, NEW new, TaskIsSound(new),
         task' = [task EXCEPT ![p] = new], UNCHANGED durableRows,
         catalog' = catalog \/ catalog' = [catalog EXCEPT ![p] = Composed]
  PROVE  PromotionInv'
<1>1. UNCHANGED <<accounts, programs, audits, programAudits>>
  BY DEF durableRows
<1>2. CatalogIsTraceable'
  <2>1. OneAccountPerCompany'
    BY <1>1 DEF PromotionInv, CatalogIsTraceable, OneAccountPerCompany
  <2>2. ProgramsFollowTheirOwners'
    BY <1>1, Zenon DEF PromotionInv, CatalogIsTraceable, ProgramsFollowTheirOwners
  <2>. QED
    BY <1>1, <2>1, <2>2 DEF PromotionInv, CatalogIsTraceable
<1>3. \A t : TaskIsSound(t) => TaskIsSound(t)'
  BY <1>1 DEF TaskIsSound, AccountTask, ProgramTask, IsFirst, HasBegun, OwnedBy, AccountsOf
<1>4. /\ task' = [q \in Processes |-> task'[q]] /\ task'[p] = new
      /\ \A q \in Processes \ {p} : task'[q] = task[q]
  BY DEF PromotionInv, PromotionTypes
<1>5. \A q \in Processes : TaskIsSound(task'[q])
  BY <1>4 DEF PromotionInv
<1>6. HasBegun(Composed.accounts)
  BY AccountRows DEF PromotionInv, PromotionTypes, Composed, HasBegun
<1>7. /\ catalog' = [q \in Processes |-> catalog'[q]]
      /\ \A q \in Processes : catalog'[q] = catalog[q] \/ catalog'[q] = Composed
  BY DEF PromotionInv, PromotionTypes
<1>8. \A q \in Processes : HasBegun(catalog'[q].accounts)
  BY <1>6, <1>7 DEF PromotionInv, PromotionTypes
<1>9. PromotionTypes'
  BY <1>1, <1>4, <1>7, <1>8 DEF PromotionInv, PromotionTypes, HasBegun
<1>. QED
  BY <1>2, <1>3, <1>4, <1>5, <1>9 DEF PromotionInv

-----------------------------------------------------------------------------
LEMMA ReadCandidateKeeps ==
  ASSUME PromotionInv, NEW p \in Processes, NEW name \in Names, ReadCandidate(p, name)
  PROVE  PromotionInv'
<1>. DEFINE new == [at |-> "create_account", name |-> name, began |-> Len(accounts)]
<1>1. task' = [task EXCEPT ![p] = new] /\ UNCHANGED <<durableRows, catalog>>
  BY DEF ReadCandidate
<1>2. HasBegun(Len(accounts))
  BY AccountRows DEF HasBegun, PromotionInv, PromotionTypes
<1>3. TaskIsSound(new)
  BY <1>2 DEF TaskIsSound, AccountTask
<1>. HIDE DEF new
<1>. QED
  BY <1>1, <1>3, TaskMoves

LEMMA CreateAccountKeeps ==
  ASSUME PromotionInv, NEW p \in Processes, CreateAccount(p)
  PROVE  PromotionInv'
<1>. DEFINE old == task[p]
            new == [at |-> "commit_account", name |-> old.name, began |-> old.began]
<1>1. UNCHANGED <<durableRows, catalog>> /\ old.at = "create_account"
  BY DEF CreateAccount
<1>2. AccountTask(old) /\ accounts \in Seq(AccountRow) /\ audits = AccountsOf(accounts)
  BY <1>1 DEF PromotionInv, PromotionTypes, TaskIsSound, CatalogIsTraceable
<1>3. CASE /\ task' = [task EXCEPT ![p] = [task[p] EXCEPT !.at = "commit_account"]]
           /\ SameCompany(p, old.name) => old.name \in AccountsOf(accounts)
  <2>1. [old EXCEPT !.at = "commit_account"] = new
    <3>1. old = [at |-> old.at, name |-> old.name, began |-> old.began]
      BY <1>2 DEF AccountTask
    <3>. QED
      BY <3>1
  <2>2. IsFirst(old.name, old.began)
    <3>1. CASE SameCompany(p, old.name)
      BY <1>2, <1>3, <3>1 DEF IsFirst
    <3>2. CASE ~SameCompany(p, old.name)
      BY <1>2, <3>2, AccountRows DEF IsFirst, SameCompany, AccountsOf
    <3>. QED
      BY <3>1, <3>2
  <2>3. new.at = "commit_account" /\ AccountTask(new) /\ new.name = old.name /\ new.began = old.began
    BY <1>2 DEF AccountTask
  <2>4. TaskIsSound(new)
    BY <2>2, <2>3 DEF TaskIsSound
  <2>. HIDE DEF new
  <2>. QED
    BY <1>1, <1>3, <2>1, <2>4, TaskMoves
<1>4. CASE task' = [task EXCEPT ![p] = NoTask]
  <2>1. TaskIsSound(NoTask)
    BY DEF TaskIsSound, NoTask
  <2>. QED
    BY <1>1, <1>4, <2>1, TaskMoves
<1>. QED
  BY <1>3, <1>4, Zenon DEF CreateAccount

\* What is said of the accounts up to a place is not changed by one that comes after it.
LEMMA EarlierAccountsStay ==
  ASSUME accounts \in Seq(AccountRow), NEW new \in AccountRow, accounts' = Append(accounts, new),
         NEW n, HasBegun(n)
  PROVE  AccountsOf(SubSeq(accounts', 1, n)) = AccountsOf(SubSeq(accounts, 1, n))
<1>1. accounts' \in Seq(AccountRow) /\ Len(accounts') = Len(accounts) + 1 /\ Len(accounts) \in Nat
      /\ \A i \in 1..Len(accounts) : accounts'[i] = accounts[i]
  OBVIOUS
<1>2. /\ DOMAIN SubSeq(accounts', 1, n) = 1..n /\ DOMAIN SubSeq(accounts, 1, n) = 1..n
      /\ \A i \in 1..n : SubSeq(accounts', 1, n)[i] = accounts'[i]
      /\ \A i \in 1..n : SubSeq(accounts, 1, n)[i] = accounts[i]
  BY <1>1 DEF HasBegun
<1>3. \A i \in 1..n : accounts'[i] = accounts[i]
  BY <1>1 DEF HasBegun
<1>. QED
  BY <1>2, <1>3 DEF AccountsOf

\* An account is committed: the first of its name, and of its company unless another came
\* while it was being promoted.
LEMMA AccountCommitted ==
  ASSUME PromotionInv, NEW p \in Processes, CommitAccount(p), task[p].name \notin audits
  PROVE  PromotionInv'
<1>. DEFINE old == task[p]
            new == [name |-> old.name, began |-> old.began]
            place == Len(accounts) + 1
<1>1. /\ old.at = "commit_account"
      /\ accounts' = Append(accounts, new) /\ audits' = audits \cup {old.name}
      /\ task' = [task EXCEPT ![p] = [at |-> "refresh"]]
      /\ UNCHANGED <<programs, programAudits, catalog>>
  BY DEF CommitAccount
<1>2. /\ AccountTask(old) /\ IsFirst(old.name, old.began) /\ PromotionTypes /\ CatalogIsTraceable
      /\ \A q \in Processes : TaskIsSound(task[q])
  BY <1>1 DEF PromotionInv, TaskIsSound
<1>3. /\ old.name \in Names /\ old.began \in Nat /\ old.began <= Len(accounts)
      /\ new \in AccountRow /\ new.name = old.name /\ new.began = old.began
  BY <1>2 DEF AccountTask, HasBegun, AccountRow
<1>. HIDE DEF new
<1>4. /\ accounts \in Seq(AccountRow) /\ Len(accounts) \in Nat /\ DOMAIN accounts = 1..Len(accounts)
      /\ accounts' \in Seq(AccountRow) /\ Len(accounts') = place /\ DOMAIN accounts' = 1..place
      /\ accounts'[place] = new
      /\ \A i \in 1..Len(accounts) : accounts'[i] = accounts[i]
  BY <1>1, <1>2, <1>3 DEF PromotionTypes
<1>5. \A n : HasBegun(n) => HasBegun(n)'
  BY <1>4 DEF HasBegun
<1>6. \A n : HasBegun(n) => AccountsOf(SubSeq(accounts', 1, n)) = AccountsOf(SubSeq(accounts, 1, n))
  BY <1>1, <1>3, <1>4, EarlierAccountsStay
<1>7. AccountsOf(accounts') = AccountsOf(accounts) \cup {old.name}
  BY <1>3, <1>4 DEF AccountsOf
<1>8. OneAccountPerCompany'
  <2>. SUFFICES ASSUME NEW i \in 1..place, NEW j \in 1..place, i < j,
                       CompanyOf(accounts'[i].name) = CompanyOf(accounts'[j].name)
                PROVE  accounts'[j].began < i /\ accounts'[i].name # accounts'[j].name
    BY <1>4 DEF OneAccountPerCompany
  <2>1. CASE j \in 1..Len(accounts)
    <3>1. i \in 1..Len(accounts)
      BY <1>4, <2>1
    <3>2. accounts'[i] = accounts[i] /\ accounts'[j] = accounts[j]
      BY <1>4, <2>1, <3>1
    <3>. QED
      BY <1>2, <1>4, <2>1, <3>1, <3>2 DEF CatalogIsTraceable, OneAccountPerCompany
  <2>2. CASE j = place
    <3>1. i \in 1..Len(accounts) /\ accounts'[i] = accounts[i] /\ accounts'[j] = new
      BY <1>4, <2>2
    <3>2. accounts[i].name \in audits
      BY <1>2, <1>4, <3>1 DEF CatalogIsTraceable, AccountsOf
    <3>. QED
      BY <1>2, <1>3, <1>4, <3>1, <3>2 DEF IsFirst
  <2>. QED
    BY <1>4, <2>1, <2>2
<1>9. ProgramsFollowTheirOwners'
  <2>1. ASSUME NEW i \in DOMAIN programs
        PROVE  HasBegun(programs[i].began)
    <3>1. \A r \in ProgramRow : r.began \in Nat
      BY DEF ProgramRow
    <3>. QED
      BY <1>2, <3>1 DEF PromotionTypes, HasBegun
  <2>2. \A i \in DOMAIN programs :
          AccountsOf(SubSeq(accounts', 1, programs[i].began)) = AccountsOf(SubSeq(accounts, 1, programs[i].began))
    BY <1>6, <2>1
  <2>. QED
    BY <1>1, <1>2, <2>2 DEF CatalogIsTraceable, ProgramsFollowTheirOwners
<1>10. CatalogIsTraceable'
  BY <1>1, <1>2, <1>7, <1>8, <1>9 DEF CatalogIsTraceable
<1>11. PromotionTypes'
  <2>1. \A i \in DOMAIN programs : programs[i].began <= Len(accounts')
    <3>1. \A r \in ProgramRow : r.began \in Nat
      BY DEF ProgramRow
    <3>. QED
      BY <1>2, <1>4, <3>1 DEF PromotionTypes
  <2>2. task' = [q \in Processes |-> task'[q]]
    BY <1>1, <1>2 DEF PromotionTypes
  <2>3. \A q \in Processes : HasBegun(catalog[q].accounts)'
    BY <1>1, <1>2, <1>5 DEF PromotionTypes
  <2>. QED
    BY <1>1, <1>2, <1>4, <2>1, <2>2, <2>3 DEF PromotionTypes
<1>12. ASSUME NEW t, TaskIsSound(t) PROVE TaskIsSound(t)'
  <2>1. \A n : AccountTask(t) => AccountTask(t)'
    BY <1>5 DEF AccountTask
  <2>2. ProgramTask(t) => ProgramTask(t)'
    <3>. SUFFICES ASSUME ProgramTask(t) PROVE ProgramTask(t)'
      OBVIOUS
    <3>1. HasBegun(t.began) /\ HasBegun(t.began)'
      BY <1>5 DEF ProgramTask
    <3>2. OwnedBy(t.key, t.began)' = OwnedBy(t.key, t.began)
      <4>1. AccountsOf(SubSeq(accounts', 1, t.began)) = AccountsOf(SubSeq(accounts, 1, t.began))
        BY <1>6, <3>1
      <4>. QED
        BY <4>1, Zenon DEF OwnedBy
    <3>. QED
      BY <3>1, <3>2 DEF ProgramTask
  <2>3. AccountTask(t) /\ IsFirst(t.name, t.began) => IsFirst(t.name, t.began)'
    <3>. SUFFICES ASSUME AccountTask(t), IsFirst(t.name, t.began), t.name \notin audits',
                         NEW i \in 1..place, CompanyOf(accounts'[i].name) = CompanyOf(t.name)
                  PROVE  t.began < i
      BY <1>4 DEF IsFirst
    <3>1. CASE i \in 1..Len(accounts)
      BY <1>1, <1>4, <3>1 DEF IsFirst
    <3>2. CASE i = place
      BY <1>4, <3>2 DEF AccountTask, HasBegun
    <3>. QED
      BY <1>4, <3>1, <3>2
  <2>. QED
    BY <1>12, <2>1, <2>2, <2>3 DEF TaskIsSound
<1>13. (\A q \in Processes : TaskIsSound(task[q]))'
  <2>1. ASSUME NEW q \in Processes PROVE task'[q] = task[q] \/ task'[q] = [at |-> "refresh"]
    BY <1>1, <1>2 DEF PromotionTypes
  <2>2. TaskIsSound([at |-> "refresh"])
    BY DEF TaskIsSound
  <2>. QED
    BY <1>2, <1>12, <2>1, <2>2
<1>. QED
  BY <1>10, <1>11, <1>13 DEF PromotionInv

LEMMA CommitAccountKeeps ==
  ASSUME PromotionInv, NEW p \in Processes, CommitAccount(p)
  PROVE  PromotionInv'
<1>1. CASE task[p].name \in audits
  <2>1. task' = [task EXCEPT ![p] = NoTask] /\ UNCHANGED <<durableRows, catalog>>
    BY <1>1 DEF CommitAccount, durableRows
  <2>2. TaskIsSound(NoTask)
    BY DEF TaskIsSound, NoTask
  <2>. QED
    BY <2>1, <2>2, TaskMoves
<1>. QED
  BY <1>1, AccountCommitted

\* The account of a program is settled when its promotion begins: an owner that the process
\* knows, or one without an account.
LEMMA ReadProgramKeeps ==
  ASSUME PromotionInv, NEW p \in Processes, NEW key \in ProgramKeys, ReadProgramCandidate(p, key)
  PROVE  PromotionInv'
<1>. DEFINE owner == key[1]
            account == PromotedOwner(owner)
            new == [at |-> "create_program", key |-> key, account |-> account, began |-> Len(accounts)]
<1>1. /\ task' = [task EXCEPT ![p] = new] /\ UNCHANGED <<durableRows, catalog>>
      /\ account = "" \/ account \in Known(p)
  BY DEF ReadProgramCandidate
<1>2. accounts \in Seq(AccountRow) /\ audits = AccountsOf(accounts)
  BY DEF PromotionInv, PromotionTypes, CatalogIsTraceable
<1>3. HasBegun(Len(accounts)) /\ AccountsOf(SubSeq(accounts, 1, Len(accounts))) = audits
  <2>1. HasBegun(Len(accounts))
    BY <1>2, AccountRows DEF HasBegun
  <2>2. AccountsOf(accounts) = {accounts[i].name : i \in 1..Len(accounts)}
    BY <1>2 DEF AccountsOf
  <2>. QED
    BY <1>2, <2>1, <2>2, AccountsUpTo
<1>4. account = "" \/ account \in audits
  BY <1>1, <1>2, KnownAreAccounts
<1>5. account \in AccountName
  BY <1>2, <1>4, AccountRows DEF AccountName, AccountsOf
<1>6. account = OwnedBy(key, Len(accounts))
  <2>1. owner = NoOwner \/ (\E n \in Names : owner = Candidate(n)) \/ (\E n \in Names : owner = Account(n))
    BY DEF ProgramKeys, Owners
  <2>2. account = IF owner[1] = "account" \/ (owner[1] = "candidate" /\ owner[2] \in audits)
                    THEN owner[2] ELSE ""
    BY Zenon DEF PromotedOwner
  <2>3. OwnedBy(key, Len(accounts)) = IF owner[1] # "unassigned" /\ owner[2] \in audits THEN owner[2] ELSE ""
    BY <1>3, Zenon DEF OwnedBy
  <2>4. owner[1] = "unassigned" \/ owner[1] = "candidate" \/ owner[1] = "account"
    <3>1. /\ NoOwner[1] = "unassigned"
          /\ \A n : Candidate(n)[1] = "candidate" /\ Account(n)[1] = "account"
      BY DEF NoOwner, Candidate, Account
    <3>. HIDE DEF owner
    <3>. QED
      BY <2>1, <3>1
  <2>. HIDE DEF owner, account
  <2>. QED
    BY <1>4, <2>2, <2>3, <2>4
<1>. HIDE DEF account
<1>7. TaskIsSound(new)
  <2>1. /\ new = [at |-> new.at, key |-> new.key, account |-> new.account, began |-> new.began]
        /\ new.key = key /\ new.account = account /\ new.began = Len(accounts)
        /\ new.at = "create_program"
    OBVIOUS
  <2>. HIDE DEF new
  <2>2. ProgramTask(new)
    BY <1>3, <1>5, <1>6, <2>1 DEF ProgramTask
  <2>. QED
    BY <2>1, <2>2 DEF TaskIsSound
<1>. HIDE DEF new
<1>. QED
  BY <1>1, <1>7, TaskMoves

LEMMA CreateProgramKeeps ==
  ASSUME PromotionInv, NEW p \in Processes, CreateProgram(p)
  PROVE  PromotionInv'
<1>. DEFINE old == task[p]
            new == [at |-> "commit_program", key |-> old.key, account |-> old.account, began |-> old.began]
<1>1. UNCHANGED <<durableRows, catalog>> /\ old.at = "create_program"
  BY DEF CreateProgram
<1>2. ProgramTask(old)
  BY <1>1 DEF PromotionInv, TaskIsSound
<1>3. CASE task' = [task EXCEPT ![p] = [task[p] EXCEPT !.at = "commit_program"]]
  <2>1. [old EXCEPT !.at = "commit_program"] = new
    <3>1. old = [at |-> old.at, key |-> old.key, account |-> old.account, began |-> old.began]
      BY <1>2 DEF ProgramTask
    <3>. QED
      BY <3>1
  <2>2. /\ new = [at |-> new.at, key |-> new.key, account |-> new.account, began |-> new.began]
        /\ new.at = "commit_program" /\ new.key = old.key /\ new.account = old.account
        /\ new.began = old.began
    OBVIOUS
  <2>. HIDE DEF new
  <2>3. ProgramTask(new)
    BY <1>2, <2>2 DEF ProgramTask
  <2>4. TaskIsSound(new)
    BY <2>2, <2>3 DEF TaskIsSound
  <2>. QED
    BY <1>1, <1>3, <2>1, <2>4, TaskMoves
<1>4. CASE task' = [task EXCEPT ![p] = NoTask]
  <2>1. TaskIsSound(NoTask)
    BY DEF TaskIsSound, NoTask
  <2>. QED
    BY <1>1, <1>4, <2>1, TaskMoves
<1>. QED
  BY <1>3, <1>4, Zenon DEF CreateProgram

\* A program is committed under a name that no other has.
LEMMA CommitProgramKeeps ==
  ASSUME PromotionInv, NEW p \in Processes, CommitProgram(p)
  PROVE  PromotionInv'
<1>. DEFINE old == task[p]
            new == [key |-> old.key, account |-> old.account, began |-> old.began]
            place == Len(programs) + 1
<1>1. CASE old.key[2] \in NamesOfPrograms
  <2>1. task' = [task EXCEPT ![p] = NoTask] /\ UNCHANGED <<durableRows, catalog>>
    BY <1>1 DEF CommitProgram, durableRows
  <2>2. TaskIsSound(NoTask)
    BY DEF TaskIsSound, NoTask
  <2>. QED
    BY <2>1, <2>2, TaskMoves
<1>2. CASE old.key[2] \notin NamesOfPrograms
  <2>1. /\ old.at = "commit_program"
        /\ programs' = Append(programs, new) /\ programAudits' = programAudits \cup {old.key}
        /\ task' = [task EXCEPT ![p] = [at |-> "refresh"]]
        /\ UNCHANGED <<accounts, audits, catalog>>
    BY <1>2 DEF CommitProgram
  <2>2. ProgramTask(old) /\ PromotionTypes /\ CatalogIsTraceable
    BY <2>1 DEF PromotionInv, TaskIsSound
  <2>3. /\ new \in ProgramRow /\ new.key = old.key /\ new.account = old.account
        /\ new.began = old.began /\ old.began <= Len(accounts)
        /\ old.account = OwnedBy(old.key, old.began)
    BY <2>2 DEF ProgramTask, ProgramRow, HasBegun
  <2>. HIDE DEF new
  <2>4. /\ programs \in Seq(ProgramRow) /\ Len(programs) \in Nat /\ DOMAIN programs = 1..Len(programs)
        /\ programs' \in Seq(ProgramRow) /\ DOMAIN programs' = 1..place
        /\ programs'[place] = new
        /\ \A i \in 1..Len(programs) : programs'[i] = programs[i]
    BY <2>1, <2>2, <2>3 DEF PromotionTypes
  <2>5. ASSUME NEW i \in 1..place
        PROVE  /\ programs'[i].began <= Len(accounts)
               /\ programs'[i].account = OwnedBy(programs'[i].key, programs'[i].began)
    <3>1. CASE i \in 1..Len(programs)
      <4>1. programs[i].account = OwnedBy(programs[i].key, programs[i].began)
        BY <2>2, <2>4, <3>1, Zenon DEF CatalogIsTraceable, ProgramsFollowTheirOwners, OwnedBy
      <4>. QED
        BY <2>2, <2>4, <3>1, <4>1 DEF PromotionTypes
    <3>2. CASE i = place
      BY <2>3, <2>4, <3>2
    <3>. QED
      BY <2>4, <3>1, <3>2
  <2>6. ASSUME NEW i \in 1..place, NEW j \in 1..place, programs'[i].key[2] = programs'[j].key[2]
        PROVE  i = j
    <3>1. CASE i \in 1..Len(programs) /\ j \in 1..Len(programs)
      <4>1. \A k, l \in 1..Len(programs) : programs[k].key[2] = programs[l].key[2] => k = l
        BY <2>2, <2>4, Zenon DEF CatalogIsTraceable, ProgramsFollowTheirOwners
      <4>. QED
        BY <2>4, <2>6, <3>1, <4>1
    <3>2. \A k \in 1..Len(programs) : programs'[k].key[2] # old.key[2]
      BY <1>2, <2>4 DEF NamesOfPrograms
    <3>. QED
      BY <2>3, <2>4, <2>6, <3>1, <3>2
  <2>7. ProgramsFollowTheirOwners'
    BY <2>1, <2>4, <2>5, <2>6, Zenon DEF ProgramsFollowTheirOwners, OwnedBy
  <2>8. programAudits' = {programs'[i].key : i \in DOMAIN programs'}
    BY <2>1, <2>2, <2>3, <2>4 DEF CatalogIsTraceable
  <2>9. CatalogIsTraceable'
    BY <2>1, <2>2, <2>7, <2>8 DEF CatalogIsTraceable, OneAccountPerCompany
  <2>10. PromotionTypes'
    <3>1. task' = [q \in Processes |-> task'[q]]
      BY <2>1, <2>2 DEF PromotionTypes
    <3>. QED
      BY <2>1, <2>2, <2>4, <2>5, <3>1 DEF PromotionTypes, HasBegun
  <2>11. (\A q \in Processes : TaskIsSound(task[q]))'
    <3>1. ASSUME NEW q \in Processes PROVE task'[q] = task[q] \/ task'[q] = [at |-> "refresh"]
      BY <2>1, <2>2 DEF PromotionTypes
    <3>2. TaskIsSound([at |-> "refresh"])
      BY DEF TaskIsSound
    <3>3. \A t : TaskIsSound(t) => TaskIsSound(t)'
      BY <2>1 DEF TaskIsSound, AccountTask, ProgramTask, IsFirst, HasBegun, OwnedBy
    <3>. QED
      BY <3>1, <3>2, <3>3 DEF PromotionInv
  <2>. QED
    BY <2>9, <2>10, <2>11 DEF PromotionInv
<1>. QED
  BY <1>1, <1>2

\* Sightings, refreshes and restarts promote nothing.
LEMMA OthersKeepPromotion ==
  ASSUME PromotionInv, NEW p \in Processes,
         \/ \E name \in Names, quality \in Qualities, mentioned \in SUBSET Programs :
              Sight(p, name, quality, mentioned)
         \/ \E mentioned \in SUBSET Programs : SightWithoutRecipient(p, mentioned)
         \/ PersistCandidates(p) \/ RefreshCatalog(p) \/ RefreshOnRevision(p) \/ RestartProcess(p)
  PROVE  PromotionInv'
<1>. USE DEF TaskIsSound
<1>1. ASSUME NEW name \in Names, NEW quality \in Qualities, NEW mentioned \in SUBSET Programs,
             Sight(p, name, quality, mentioned)
      PROVE  PromotionInv'
  <2>. DEFINE new == [at |-> "persist",
                      organizations |-> IF Resolution(p, name) = "RESOLVED" THEN {}
                                          ELSE {<<name, CandidateRow(Resolution(p, name), quality)>>},
                      programs |-> {OwnerOf(p, name)} \X (mentioned \ KnownPrograms(p))]
  <2>1. task' = [task EXCEPT ![p] = new] /\ UNCHANGED <<durableRows, catalog>>
    BY <1>1 DEF Sight
  <2>2. TaskIsSound(new)
    OBVIOUS
  <2>. HIDE DEF new, TaskIsSound
  <2>. QED
    BY <2>1, <2>2, TaskMoves
<1>2. ASSUME NEW mentioned \in SUBSET Programs, SightWithoutRecipient(p, mentioned)
      PROVE  PromotionInv'
  <2>. DEFINE new == [at |-> "persist", organizations |-> {},
                      programs |-> {NoOwner} \X (mentioned \ KnownPrograms(p))]
  <2>1. task' = [task EXCEPT ![p] = new] /\ UNCHANGED <<durableRows, catalog>>
    BY <1>2 DEF SightWithoutRecipient
  <2>2. TaskIsSound(new)
    OBVIOUS
  <2>. HIDE DEF new, TaskIsSound
  <2>. QED
    BY <2>1, <2>2, TaskMoves
<1>3. CASE PersistCandidates(p) \/ RefreshCatalog(p) \/ RestartProcess(p)
  <2>1. /\ task' = [task EXCEPT ![p] = NoTask] /\ UNCHANGED durableRows
        /\ catalog' = catalog \/ catalog' = [catalog EXCEPT ![p] = Composed]
    BY <1>3 DEF PersistCandidates, RefreshCatalog, RestartProcess
  <2>2. TaskIsSound(NoTask)
    BY DEF NoTask
  <2>. HIDE DEF TaskIsSound
  <2>. QED
    BY <2>1, <2>2, TaskMoves
<1>4. CASE RefreshOnRevision(p)
  <2>1. /\ catalog' = [catalog EXCEPT ![p] = Composed] /\ UNCHANGED <<durableRows, task>>
        /\ task = [q \in Processes |-> task[q]] /\ TaskIsSound(task[p])
    BY <1>4 DEF RefreshOnRevision, PromotionInv, PromotionTypes
  <2>2. task' = [task EXCEPT ![p] = task[p]]
    BY <2>1
  <2>. HIDE DEF TaskIsSound
  <2>. QED
    BY <2>1, <2>2, TaskMoves
<1>. QED
  BY <1>1, <1>2, <1>3, <1>4

LEMMA InitPromotion == PromotionInit => PromotionInv
<1>. SUFFICES ASSUME PromotionInit PROVE PromotionInv
  OBVIOUS
<1>1. /\ accounts = <<>> /\ programs = <<>> /\ audits = {} /\ programAudits = {}
      /\ catalog = [p \in Processes |-> [accounts |-> 0, programs |-> 0]]
      /\ task = [p \in Processes |-> NoTask]
  BY DEF PromotionInit
<1>2. DOMAIN accounts = {} /\ DOMAIN programs = {} /\ Len(accounts) = 0
  BY <1>1
<1>3. PromotionTypes
  BY <1>1, <1>2 DEF PromotionTypes, HasBegun
<1>4. CatalogIsTraceable
  BY <1>1, <1>2 DEF CatalogIsTraceable, OneAccountPerCompany, ProgramsFollowTheirOwners, AccountsOf
<1>5. \A p \in Processes : TaskIsSound(task[p])
  BY <1>1 DEF TaskIsSound, NoTask
<1>. QED
  BY <1>3, <1>4, <1>5 DEF PromotionInv

LEMMA NextPromotion == PromotionInv /\ [PromotionNext]_promotionVars => PromotionInv'
<1>. SUFFICES ASSUME PromotionInv, [PromotionNext]_promotionVars PROVE PromotionInv'
  OBVIOUS
<1>1. CASE UNCHANGED promotionVars
  <2>1. \A t : TaskIsSound(t) => TaskIsSound(t)'
    BY <1>1 DEF promotionVars, TaskIsSound, AccountTask, ProgramTask, IsFirst, HasBegun, OwnedBy
  <2>2. CatalogIsTraceable'
    <3>1. ProgramsFollowTheirOwners'
      BY <1>1, Zenon DEF promotionVars, PromotionInv, CatalogIsTraceable, ProgramsFollowTheirOwners
    <3>. QED
      BY <1>1, <3>1 DEF promotionVars, PromotionInv, CatalogIsTraceable, OneAccountPerCompany
  <2>3. PromotionTypes'
    BY <1>1 DEF promotionVars, PromotionInv, PromotionTypes, HasBegun
  <2>4. UNCHANGED task
    BY <1>1 DEF promotionVars
  <2>. QED
    BY <2>1, <2>2, <2>3, <2>4 DEF PromotionInv
<1>2. CASE PromotionNext
  <2>1. PICK p \in Processes :
          \/ \E name \in Names :
               \/ \E quality \in Qualities, mentioned \in SUBSET Programs :
                    Sight(p, name, quality, mentioned)
               \/ ReadCandidate(p, name)
          \/ \E mentioned \in SUBSET Programs : SightWithoutRecipient(p, mentioned)
          \/ \E key \in ProgramKeys : ReadProgramCandidate(p, key)
          \/ PersistCandidates(p)
          \/ CreateAccount(p) \/ CommitAccount(p)
          \/ CreateProgram(p) \/ CommitProgram(p)
          \/ RefreshCatalog(p) \/ RefreshOnRevision(p) \/ RestartProcess(p)
    BY <1>2 DEF PromotionNext
  <2>. QED
    BY <2>1, OthersKeepPromotion, ReadCandidateKeeps, ReadProgramKeeps, CreateAccountKeeps,
       CommitAccountKeeps, CreateProgramKeeps, CommitProgramKeeps
<1>. QED
  BY <1>1, <1>2

\* For any number of processes with stale catalogs, any spellings and any repetition: an
\* account and a program keep to the audit they came of, a company has a second account only
\* where two promotions of it overlapped, and a program the account its owner then had.
THEOREM PromotionsAreTraceable == PromotionSpec => []CatalogIsTraceable
<1>1. PromotionInv => CatalogIsTraceable
  BY DEF PromotionInv
<1>. QED
  BY <1>1, InitPromotion, NextPromotion, PTL DEF PromotionSpec
=============================================================================
