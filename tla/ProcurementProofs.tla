-------------------------- MODULE ProcurementProofs --------------------------
(***************************************************************************)
(* Theorems about the resumable collection of procurement notices, for any *)
(* number of collectors, queries, notices and days, any page size and any  *)
(* budget.                                                                 *)
(***************************************************************************)
EXTENDS ProcurementCollection, FiniteSetTheorems, TLAPS

\* The notices that are stored.
Saved == {r \in Records : stored[r] # Never}

\* Listing, of the notices p posted on the days d.
ListingOf(p, d, q, cp) ==
  {i \in DOMAIN p : q \in Matches[p[i]] /\ d[p[i]] \in cp.start..cp.end}

\* Has: what checkpoint cp of query q counts as read is among the notices got: all
\* that came before its window; of the window, its last day excepted, what stands
\* in a place before the offset; and all of it once the window is complete.
Has(p, d, got, q, cp) ==
  \A i \in DOMAIN p :
    q \in Matches[p[i]] /\ d[p[i]] >= cp.since =>
      /\ d[p[i]] < cp.start => p[i] \in got
      /\ /\ d[p[i]] \in cp.start..cp.end /\ d[p[i]] < cp.end
         /\ cp.state = "COMPLETE" \/ Place(i, ListingOf(p, d, q, cp)) < cp.offset
         => p[i] \in got

WindowIsPast(cp) == cp.start <= cp.end /\ cp.end <= now

\* NothingSkipped is not inductive: it says nothing of a window that is half read,
\* nor of what a run has in memory, which it saves whatever other runs saved since.
CheckpointsHave ==
  \A q \in Queries : checkpoint[q] # None =>
    WindowIsPast(checkpoint[q]) /\ Has(posted, day, Saved, q, checkpoint[q])

RunsHave ==
  \A c \in Collectors : collector[c].pc # "idle" =>
    \A q \in Queries :
      /\ collector[c].read[q] \in Checkpoint
      /\ WindowIsPast(collector[c].read[q])
      /\ Has(posted, day, Saved \cup collector[c].found, q, collector[c].read[q])

SnapshotIsSaved == \A c \in Collectors : collector[c].pc = "checkpoint" => collector[c].found = {}

CollectionInv == TypeOK /\ CheckpointsHave /\ RunsHave /\ SnapshotIsSaved

-----------------------------------------------------------------------------
(***************************************************************************)
(* Places and pages, of any finite set of positions.                       *)
(***************************************************************************)
LEMMA PlaceIsCount ==
  ASSUME NEW W \in SUBSET Nat, IsFiniteSet(W), NEW i \in W
  PROVE  Place(i, W) \in 0..(Cardinality(W) - 1)
<1>. DEFINE newer == {j \in W : j > i}
<1>1. newer \in SUBSET W /\ newer # W
  OBVIOUS
<1>2. /\ IsFiniteSet(newer) /\ Cardinality(newer) <= Cardinality(W)
      /\ Cardinality(newer) # Cardinality(W)
  <2>. HIDE DEF newer
  <2>. QED
    BY <1>1, FS_Subset
<1>3. Cardinality(newer) \in Nat /\ Cardinality(W) \in Nat
  BY <1>2, FS_CardinalityType
<1>4. Place(i, W) = Cardinality(newer)
  BY DEF Place
<1>. QED
  BY <1>2, <1>3, <1>4

\* A place of a listing is moved back by what is posted, never forward.
LEMMA PlaceGrows ==
  ASSUME NEW W \in SUBSET Nat, NEW V \in SUBSET W, IsFiniteSet(W), NEW i
  PROVE  Place(i, V) <= Place(i, W)
<1>. DEFINE of(S) == {j \in S : j > i}
<1>1. of(V) \in SUBSET of(W) /\ of(W) \in SUBSET W
  OBVIOUS
<1>2. IsFiniteSet(of(W))
  BY <1>1, FS_Subset
<1>3. Cardinality(of(V)) <= Cardinality(of(W))
  BY <1>1, <1>2, FS_Subset
<1>. QED
  BY <1>3 DEF Place

\* No two have the same place.
LEMMA PlacesDiffer ==
  ASSUME NEW W \in SUBSET Nat, IsFiniteSet(W), NEW i \in W, NEW j \in W, i < j
  PROVE  Place(i, W) # Place(j, W)
<1>. DEFINE of(k) == {l \in W : l > k}
<1>0. i \in Nat /\ j \in Nat
  OBVIOUS
<1>1. of(j) \in SUBSET of(i) /\ j \in of(i) /\ j \notin of(j) /\ of(i) \in SUBSET W
  <2>1. \A l \in W : l > j => l > i
    BY <1>0
  <2>2. ~(j > j)
    BY <1>0
  <2>. QED
    BY <2>1, <2>2
<1>2. IsFiniteSet(of(i))
  BY <1>1, FS_Subset
<1>3. Cardinality(of(i)) # Cardinality(of(j))
  <2>. HIDE DEF of
  <2>. QED
    BY <1>1, <1>2, FS_Subset
<1>. QED
  BY <1>3 DEF Place

LEMMA PlaceIsInjective ==
  ASSUME NEW W \in SUBSET Nat, IsFiniteSet(W), NEW V \in SUBSET W, NEW T,
         \A i \in V : Place(i, W) \in T
  PROVE  [i \in V |-> Place(i, W)] \in Injection(V, T)
<1>. DEFINE f == [i \in V |-> Place(i, W)]
<1>1. f \in [V -> T]
  OBVIOUS
<1>2. \A i, j \in V : f[i] = f[j] => i = j
  <2>. SUFFICES ASSUME NEW i \in V, NEW j \in V, f[i] = f[j], i # j
                PROVE  FALSE
    OBVIOUS
  <2>1. i \in Nat /\ j \in Nat /\ Place(i, W) = Place(j, W)
    OBVIOUS
  <2>. QED
    BY <2>1, PlacesDiffer
<1>. QED
  BY <1>1, <1>2 DEF Injection, IsInjective

\* What is on the page of an offset: it has no gap, and it is empty only at the end.
PageAt(W, offset, size) == {i \in W : Place(i, W) \in offset..(offset + size - 1)}

LEMMA PageReads ==
  ASSUME NEW W \in SUBSET Nat, IsFiniteSet(W), NEW offset \in Nat, NEW size \in Nat \ {0},
         NEW page, page = PageAt(W, offset, size)
  PROVE  /\ Cardinality(page) \in Nat /\ Cardinality(page) <= size
         /\ \A i \in W : Place(i, W) < offset + Cardinality(page) =>
                           Place(i, W) < offset \/ i \in page
         /\ page = {} \/ offset + Cardinality(page) >= Cardinality(W) =>
              \A i \in W : Place(i, W) < offset \/ i \in page
<1>. DEFINE places == offset..(offset + size - 1)
<1>1. Cardinality(W) \in Nat
  BY FS_CardinalityType
<1>2. \A i \in W : Place(i, W) \in 0..(Cardinality(W) - 1)
  BY PlaceIsCount
<1>3. page = {i \in W : Place(i, W) \in places}
  BY DEF PageAt
<1>4. IsFiniteSet(places) /\ Cardinality(places) = size
  BY FS_Interval
<1>5. Cardinality(page) <= size /\ IsFiniteSet(page)
  <2>. HIDE DEF places
  <2>1. page \in SUBSET W /\ \A i \in page : Place(i, W) \in places
    BY <1>3
  <2>2. [i \in page |-> Place(i, W)] \in Injection(page, places)
    BY <2>1, PlaceIsInjective
  <2>. QED
    BY <2>2, <1>4, FS_Injection
<1>6. Cardinality(page) \in Nat
  BY <1>5, FS_CardinalityType
<1>7. \A i \in W : Place(i, W) < offset + Cardinality(page) => Place(i, W) < offset \/ i \in page
  BY <1>2, <1>3, <1>5, <1>6
<1>8. ASSUME page = {}, offset < Cardinality(W)
      PROVE  FALSE
  <2>. DEFINE all == 0..(Cardinality(W) - 1)
              f == [i \in W |-> Place(i, W)]
  <2>1. IsFiniteSet(all) /\ Cardinality(all) = Cardinality(W) /\ offset \in all
    <3>1. 0 \in Int /\ Cardinality(W) - 1 \in Int /\ Cardinality(W) > 0
      BY <1>1, <1>8
    <3>2. IsFiniteSet(all) /\ Cardinality(all) = Cardinality(W) - 1 - 0 + 1
      BY <1>1, <3>1, FS_Interval
    <3>. QED
      BY <1>1, <1>8, <3>2
  <2>2. f \in Injection(W, all)
    <3>. HIDE DEF all
    <3>1. \A i \in W : Place(i, W) \in all
      BY <1>2 DEF all
    <3>. QED
      BY <3>1, PlaceIsInjective
  <2>3. f \in Surjection(W, all)
    <3>. HIDE DEF f, all
    <3>. QED
      BY <2>1, <2>2, FS_Injection
  <2>4. PICK i \in W : f[i] = offset
    <3>. HIDE DEF f, all
    <3>. QED
      BY <2>1, <2>3 DEF Surjection
  <2>5. Place(i, W) \in places
    BY <2>4
  <2>. QED
    BY <1>3, <2>5, <1>8
<1>9. \A i \in W : offset + Cardinality(page) >= Cardinality(W) => Place(i, W) < offset \/ i \in page
  BY <1>1, <1>2, <1>6, <1>7
<1>10. \A i \in W : offset >= Cardinality(W) => Place(i, W) < offset
  BY <1>1, <1>2
<1>. QED
  BY <1>1, <1>5, <1>6, <1>7, <1>8, <1>9, <1>10

-----------------------------------------------------------------------------
(***************************************************************************)
(* What a checkpoint has, and what changes of it.                          *)
(***************************************************************************)
LEMMA CollectionConstants ==
  /\ NQueries \in Nat \ {0} /\ PageSize \in Nat \ {0} /\ Budget \in Nat \ {0}
  /\ Lookback \in Nat /\ Overlap \in Nat /\ MaxDay \in Nat
  /\ Matches \in [Records -> SUBSET Queries]
BY CollectionAssumption

LEMMA ListingIsFinite ==
  ASSUME NEW p \in Seq(Records), NEW d, NEW q, NEW cp
  PROVE  ListingOf(p, d, q, cp) \in SUBSET Nat /\ IsFiniteSet(ListingOf(p, d, q, cp))
<1>1. Len(p) \in Nat /\ DOMAIN p = 1..Len(p)
  OBVIOUS
<1>2. IsFiniteSet(1..Len(p))
  BY <1>1, FS_Interval
<1>3. ListingOf(p, d, q, cp) \in SUBSET (1..Len(p))
  BY <1>1 DEF ListingOf
<1>4. 1..Len(p) \subseteq Nat
  BY <1>1
<1>. QED
  BY <1>2, <1>3, <1>4, FS_Subset

\* More notices got, or a checkpoint of the same window that claims no more.
LEMMA HasMore ==
  ASSUME NEW p, NEW d, NEW got, NEW more, got \subseteq more, NEW q, NEW cp,
         Has(p, d, got, q, cp)
  PROVE  Has(p, d, more, q, cp)
BY DEF Has

LEMMA HasNoMore ==
  ASSUME NEW p, NEW d, NEW got, NEW q, NEW cp \in Checkpoint, NEW other \in Checkpoint,
         Has(p, d, got, q, cp),
         other.since = cp.since, other.start = cp.start, other.end = cp.end,
         other.offset = cp.offset, other.state = "COMPLETE" => cp.state = "COMPLETE"
  PROVE  Has(p, d, got, q, other)
<1>1. ListingOf(p, d, q, other) = ListingOf(p, d, q, cp)
  BY DEF ListingOf
<1>. QED
  BY <1>1 DEF Has

\* What is posted comes after every window there is, its last day excepted, and
\* moves what was there to a later place.
LEMMA PostedHas ==
  ASSUME NEW p \in Seq(Records), NEW d \in [Records -> 0..MaxDay], NEW got, NEW q,
         NEW cp \in Checkpoint, NEW r \in Records, NEW today \in 0..MaxDay,
         r \notin {p[i] : i \in DOMAIN p}, cp.start <= cp.end, cp.end <= today,
         Has(p, d, got, q, cp)
  PROVE  Has(Append(p, r), [d EXCEPT ![r] = today], got, q, cp)
<1>. DEFINE p2 == Append(p, r)
            d2 == [d EXCEPT ![r] = today]
            W == ListingOf(p, d, q, cp)
            W2 == ListingOf(p2, d2, q, cp)
<1>1. /\ p2 \in Seq(Records) /\ Len(p) \in Nat /\ DOMAIN p = 1..Len(p)
      /\ DOMAIN p2 = 1..(Len(p) + 1) /\ p2[Len(p) + 1] = r
      /\ \A i \in DOMAIN p : p2[i] = p[i] /\ p[i] \in Records
  OBVIOUS
<1>2. \A i \in DOMAIN p : d2[p2[i]] = d[p[i]]
  BY <1>1
<1>3. d2[r] = today
  OBVIOUS
<1>4. W \in SUBSET W2
  <2>. HIDE DEF p2, d2
  <2>. QED
    BY <1>1, <1>2 DEF ListingOf
<1>5. \A i \in Nat : Place(i, W) <= Place(i, W2) /\ Place(i, W) \in Nat /\ Place(i, W2) \in Nat
  <2>1. W2 \in SUBSET Nat /\ IsFiniteSet(W2) /\ W \in SUBSET Nat /\ IsFiniteSet(W)
    <3>. HIDE DEF p2, d2
    <3>. QED
      BY <1>1, ListingIsFinite
  <2>2. ASSUME NEW i \in Nat
        PROVE  Place(i, W) \in Nat /\ Place(i, W2) \in Nat
    <3>1. {j \in W : j > i} \in SUBSET W /\ {j \in W2 : j > i} \in SUBSET W2
      OBVIOUS
    <3>2. IsFiniteSet({j \in W : j > i}) /\ IsFiniteSet({j \in W2 : j > i})
      <4>. HIDE DEF W, W2
      <4>. QED
        BY <2>1, <3>1, FS_Subset
    <3>. QED
      BY <3>2, FS_CardinalityType DEF Place
  <2>. HIDE DEF W, W2
  <2>. QED
    BY <1>4, <2>1, <2>2, PlaceGrows
<1>6. /\ cp.since \in Nat /\ cp.start \in Nat /\ cp.end \in Nat /\ cp.offset \in Nat /\ today \in Nat
  BY CollectionConstants DEF Checkpoint
<1>. SUFFICES ASSUME NEW i \in DOMAIN p2, q \in Matches[p2[i]], d2[p2[i]] >= cp.since
              PROVE  /\ d2[p2[i]] < cp.start => p2[i] \in got
                     /\ /\ d2[p2[i]] \in cp.start..cp.end /\ d2[p2[i]] < cp.end
                        /\ cp.state = "COMPLETE" \/ Place(i, W2) < cp.offset
                        => p2[i] \in got
  BY DEF Has
<1>7. CASE i = Len(p) + 1
  BY <1>1, <1>3, <1>6, <1>7
<1>8. CASE i \in DOMAIN p
  <2>1. p2[i] = p[i] /\ d2[p2[i]] = d[p[i]] /\ i \in Nat
    BY <1>1, <1>2, <1>8
  <2>2. Place(i, W2) < cp.offset => Place(i, W) < cp.offset
    <3>. HIDE DEF W, W2, p2, d2
    <3>1. Place(i, W) <= Place(i, W2) /\ Place(i, W) \in Nat /\ Place(i, W2) \in Nat
      BY <1>5, <2>1
    <3>2. cp.offset \in Nat
      BY <1>6
    <3>. QED
      BY <3>1, <3>2
  <2>. HIDE DEF p2, d2, W2
  <2>. QED
    BY <1>8, <2>1, <2>2 DEF Has
<1>. QED
  BY <1>1, <1>7, <1>8

LEMMA CheckpointFields ==
  ASSUME NEW cp \in Checkpoint
  PROVE  /\ cp.since \in 0..MaxDay /\ cp.start \in 0..MaxDay /\ cp.end \in 0..MaxDay
         /\ cp.offset \in Nat /\ cp.state \in CoverageState /\ cp.attempt \in 0..NQueries
BY DEF Checkpoint

\* A first window has nothing before it, and the next one of a complete window
\* begins within it.
LEMMA InitialHas ==
  ASSUME NEW p, NEW d \in [Records -> 0..MaxDay], NEW got, NEW q, NEW today \in 0..MaxDay,
         p \in Seq(Records)
  PROVE  /\ InitialCheckpoint(today) \in Checkpoint
         /\ InitialCheckpoint(today).start <= InitialCheckpoint(today).end
         /\ InitialCheckpoint(today).end = today
         /\ Has(p, d, got, q, InitialCheckpoint(today))
<1>. DEFINE cp == InitialCheckpoint(today)
<1>1. Minus(today, Lookback) \in 0..today /\ today \in Nat
  BY CollectionConstants DEF Minus
<1>2. cp \in Checkpoint
  BY <1>1, CollectionConstants DEF InitialCheckpoint, Checkpoint, CoverageState
<1>3. /\ cp.since = Minus(today, Lookback) /\ cp.start = cp.since /\ cp.end = today
      /\ cp.offset = 0 /\ cp.state # "COMPLETE"
  BY DEF InitialCheckpoint
<1>4. \A i \in DOMAIN p : d[p[i]] \in Nat
  BY CollectionConstants
<1>5. ASSUME NEW i \in Nat
      PROVE  ~(Place(i, ListingOf(p, d, q, cp)) < 0)
  <2>1. IsFiniteSet(ListingOf(p, d, q, cp))
    BY ListingIsFinite
  <2>2. IsFiniteSet({j \in ListingOf(p, d, q, cp) : j > i})
    <3>1. {j \in ListingOf(p, d, q, cp) : j > i} \in SUBSET ListingOf(p, d, q, cp)
      OBVIOUS
    <3>. QED
      BY <2>1, <3>1, FS_Subset
  <2>. QED
    BY <2>2, FS_CardinalityType DEF Place
<1>6. \A i \in DOMAIN p : i \in Nat
  OBVIOUS
<1>. HIDE DEF cp
<1>7. Has(p, d, got, q, cp)
  BY <1>1, <1>3, <1>4, <1>5, <1>6 DEF Has
<1>. QED
  BY <1>1, <1>2, <1>3, <1>7 DEF cp

LEMMA NextHas ==
  ASSUME NEW p \in Seq(Records), NEW d \in [Records -> 0..MaxDay], NEW got, NEW q,
         NEW today \in 0..MaxDay, NEW cp \in Checkpoint, cp.state = "COMPLETE",
         cp.start <= cp.end, cp.end <= today, Has(p, d, got, q, cp)
  PROVE  /\ NextWindow(cp, today) \in Checkpoint
         /\ NextWindow(cp, today).start <= NextWindow(cp, today).end
         /\ NextWindow(cp, today).end = today
         /\ Has(p, d, got, q, NextWindow(cp, today))
<1>. DEFINE np == NextWindow(cp, today)
<1>1. Minus(cp.end, Overlap) \in 0..cp.end /\ today \in Nat /\ cp.end \in Nat
  BY CollectionConstants, CheckpointFields DEF Minus
<1>2. np \in Checkpoint
  <2>1. Minus(cp.end, Overlap) \in 0..MaxDay
    <3>1. cp.end \in 0..MaxDay /\ MaxDay \in Nat
      BY CollectionConstants, CheckpointFields
    <3>. QED
      BY <1>1, <3>1
  <2>2. "AWAITING_CONTINUATION" \in CoverageState
    BY DEF CoverageState
  <2>3. \A b, e \in 0..MaxDay, s \in CoverageState, o \in Nat :
          [cp EXCEPT !.start = b, !.end = e, !.offset = o, !.state = s] \in Checkpoint
    BY DEF Checkpoint
  <2>. QED
    BY <2>1, <2>2, <2>3 DEF NextWindow, NextStart
<1>3. /\ np.since = cp.since /\ np.start = Minus(cp.end, Overlap) /\ np.end = today
      /\ np.offset = 0 /\ np.state # "COMPLETE"
  BY DEF NextWindow, NextStart, Checkpoint
<1>4. \A i \in DOMAIN p : d[p[i]] \in Nat
  BY CollectionConstants
<1>5. ASSUME NEW i \in Nat
      PROVE  ~(Place(i, ListingOf(p, d, q, np)) < 0)
  <2>1. IsFiniteSet(ListingOf(p, d, q, np))
    BY ListingIsFinite
  <2>2. IsFiniteSet({j \in ListingOf(p, d, q, np) : j > i})
    <3>1. {j \in ListingOf(p, d, q, np) : j > i} \in SUBSET ListingOf(p, d, q, np)
      OBVIOUS
    <3>. QED
      BY <2>1, <3>1, FS_Subset
  <2>. QED
    BY <2>2, FS_CardinalityType DEF Place
<1>6. \A i \in DOMAIN p : i \in Nat
  OBVIOUS
<1>7. cp.start \in Nat /\ cp.since \in Nat
  BY CheckpointFields
<1>. HIDE DEF np
<1>8. Has(p, d, got, q, np)
  BY <1>1, <1>3, <1>4, <1>5, <1>6, <1>7 DEF Has
<1>. QED
  BY <1>1, <1>2, <1>3, <1>8 DEF np

\* A page: what it shows is got, and its checkpoint has it.
LEMMA PageHas ==
  ASSUME NEW p \in Seq(Records), NEW d \in [Records -> 0..MaxDay], NEW got, NEW q,
         NEW cp \in Checkpoint, NEW next \in Checkpoint, NEW page, NEW complete \in BOOLEAN,
         page = {i \in ListingOf(p, d, q, cp) :
                   Place(i, ListingOf(p, d, q, cp)) \in cp.offset..(cp.offset + PageSize - 1)},
         complete = (page = {} \/ cp.offset + Cardinality(page) >= Cardinality(ListingOf(p, d, q, cp))),
         next.since = cp.since, next.start = cp.start, next.end = cp.end,
         next.offset = cp.offset + Cardinality(page), next.state = "COMPLETE" => complete,
         Has(p, d, got, q, cp)
  PROVE  Has(p, d, got \cup {p[i] : i \in page}, q, next)
<1>. DEFINE W == ListingOf(p, d, q, cp)
            all == got \cup {p[i] : i \in page}
<1>1. W \in SUBSET Nat /\ IsFiniteSet(W) /\ W = ListingOf(p, d, q, next)
  <2>1. W = ListingOf(p, d, q, next)
    BY DEF ListingOf
  <2>. QED
    BY <2>1, ListingIsFinite
<1>2. cp.offset \in Nat /\ PageSize \in Nat \ {0}
  BY CollectionConstants, CheckpointFields
<1>3. page = PageAt(W, cp.offset, PageSize)
  BY DEF PageAt
<1>4. /\ \A i \in W : Place(i, W) < next.offset => Place(i, W) < cp.offset \/ i \in page
      /\ next.state = "COMPLETE" => \A i \in W : Place(i, W) < cp.offset \/ i \in page
  <2>1. page = {} \/ cp.offset + Cardinality(page) >= Cardinality(W) <=> complete
    OBVIOUS
  <2>. HIDE DEF W
  <2>2. /\ \A i \in W : Place(i, W) < cp.offset + Cardinality(page) =>
                           Place(i, W) < cp.offset \/ i \in page
        /\ page = {} \/ cp.offset + Cardinality(page) >= Cardinality(W) =>
             \A i \in W : Place(i, W) < cp.offset \/ i \in page
    BY <1>1, <1>2, <1>3, PageReads
  <2>. QED
    BY <2>1, <2>2
<1>5. \A i \in page : p[i] \in all
  OBVIOUS
<1>6. got \subseteq all
  OBVIOUS
<1>. SUFFICES ASSUME NEW i \in DOMAIN p, q \in Matches[p[i]], d[p[i]] >= cp.since
              PROVE  /\ d[p[i]] < cp.start => p[i] \in all
                     /\ /\ d[p[i]] \in cp.start..cp.end /\ d[p[i]] < cp.end
                        /\ next.state = "COMPLETE" \/ Place(i, W) < next.offset
                        => p[i] \in all
  <2>. HIDE DEF W, all
  <2>. QED
    BY <1>1 DEF Has, all
<1>7. d[p[i]] < cp.start => p[i] \in all
  BY DEF Has
<1>8. ASSUME d[p[i]] \in cp.start..cp.end, d[p[i]] < cp.end,
             next.state = "COMPLETE" \/ Place(i, W) < next.offset
      PROVE  p[i] \in all
  <2>1. i \in W
    BY <1>8 DEF ListingOf
  <2>2. Place(i, W) < cp.offset \/ i \in page
    <3>. HIDE DEF W
    <3>. QED
      BY <1>4, <1>8, <2>1
  <2>3. CASE i \in page
    BY <1>5, <2>3
  <2>4. CASE Place(i, W) < cp.offset
    BY <1>8, <2>4 DEF Has
  <2>. QED
    BY <2>2, <2>3, <2>4
<1>. QED
  BY <1>7, <1>8

-----------------------------------------------------------------------------
LEMMA InitCollection == Init => CollectionInv
<1>. SUFFICES ASSUME Init PROVE CollectionInv
  OBVIOUS
<1>1. TypeOK
  BY CollectionConstants DEF Init, TypeOK, Collector, Idle, Never
<1>2. CheckpointsHave /\ RunsHave /\ SnapshotIsSaved
  BY DEF Init, CheckpointsHave, RunsHave, SnapshotIsSaved, Idle
<1>. QED
  BY <1>1, <1>2 DEF CollectionInv

\* A run becomes: a step of one run that leaves what is posted and stored alone.
LEMMA RunBecomes ==
  ASSUME CollectionInv, NEW c \in Collectors, NEW me \in Collector,
         collector' = [collector EXCEPT ![c] = me],
         UNCHANGED <<now, posted, day, stored, checkpoint>>,
         me.pc # "idle" => \A q \in Queries :
           /\ me.read[q] \in Checkpoint /\ WindowIsPast(me.read[q])
           /\ Has(posted, day, Saved \cup me.found, q, me.read[q]),
         me.pc = "checkpoint" => me.found = {}
  PROVE  CollectionInv'
<1>1. Saved' = Saved
  BY DEF Saved
<1>2. TypeOK'
  BY DEF CollectionInv, TypeOK
<1>3. CheckpointsHave'
  BY <1>1 DEF CollectionInv, CheckpointsHave, WindowIsPast
<1>4. \A b \in Collectors : collector'[b] = IF b = c THEN me ELSE collector[b]
  BY DEF CollectionInv, TypeOK
<1>5. RunsHave'
  BY <1>1, <1>4 DEF CollectionInv, RunsHave, WindowIsPast
<1>6. SnapshotIsSaved'
  BY <1>4 DEF CollectionInv, SnapshotIsSaved
<1>. QED
  BY <1>2, <1>3, <1>5, <1>6 DEF CollectionInv

LEMMA RunOf ==
  ASSUME CollectionInv, NEW c \in Collectors
  PROVE  /\ collector[c] \in Collector
         /\ collector[c].read \in [Queries -> Checkpoint \cup {None}]
         /\ collector[c].work \in SUBSET Queries /\ collector[c].budget \in 0..Budget
         /\ collector[c].found \in SUBSET Records /\ collector[c].at \in 0..MaxDay
         /\ now \in 0..MaxDay /\ posted \in Seq(Records) /\ day \in [Records -> 0..MaxDay]
BY DEF CollectionInv, TypeOK, Collector

\* The run starts from the durable checkpoints, or from the windows after them.
LEMMA BeginKeeps ==
  ASSUME CollectionInv, NEW c \in Collectors, Begin(c)
  PROVE  CollectionInv'
<1>1. PICK work \in SUBSET Queries : BeginWith(c, work)
  BY DEF Begin
<1>. DEFINE me == [pc |-> "collecting", read |-> CheckpointsNow, work |-> work,
                   budget |-> Budget, found |-> {}, at |-> now]
<1>2. /\ now \in 0..MaxDay /\ posted \in Seq(Records) /\ day \in [Records -> 0..MaxDay]
      /\ now \in Nat
  BY RunOf, CollectionConstants
<1>3. ASSUME NEW q \in Queries
      PROVE  /\ CheckpointsNow[q] \in Checkpoint /\ WindowIsPast(CheckpointsNow[q])
             /\ Has(posted, day, Saved, q, CheckpointsNow[q])
  <2>1. CASE checkpoint[q] = None
    <3>1. CheckpointsNow[q] = InitialCheckpoint(now)
      BY <2>1 DEF CheckpointsNow
    <3>2. /\ InitialCheckpoint(now) \in Checkpoint
          /\ InitialCheckpoint(now).start <= InitialCheckpoint(now).end
          /\ InitialCheckpoint(now).end = now
          /\ Has(posted, day, Saved, q, InitialCheckpoint(now))
      BY <1>2, InitialHas
    <3>. QED
      BY <1>2, <3>1, <3>2 DEF WindowIsPast
  <2>2. CASE checkpoint[q] # None
    <3>1. checkpoint[q] \in Checkpoint
      BY <2>2 DEF CollectionInv, TypeOK
    <3>2. WindowIsPast(checkpoint[q]) /\ Has(posted, day, Saved, q, checkpoint[q])
      BY <2>2 DEF CollectionInv, CheckpointsHave
    <3>3. CASE RollsOver(checkpoint, q)
      <4>1. CheckpointsNow[q] = NextWindow(checkpoint[q], now)
        BY <2>2, <3>3 DEF CheckpointsNow
      <4>2. checkpoint[q].state = "COMPLETE"
        BY <3>3 DEF RollsOver, Complete
      <4>3. checkpoint[q].start <= checkpoint[q].end /\ checkpoint[q].end <= now
        BY <3>2 DEF WindowIsPast
      <4>4. /\ NextWindow(checkpoint[q], now) \in Checkpoint
            /\ NextWindow(checkpoint[q], now).start <= NextWindow(checkpoint[q], now).end
            /\ NextWindow(checkpoint[q], now).end = now
            /\ Has(posted, day, Saved, q, NextWindow(checkpoint[q], now))
        BY <1>2, <3>1, <3>2, <4>2, <4>3, NextHas
      <4>. QED
        BY <1>2, <4>1, <4>4 DEF WindowIsPast
    <3>4. CASE ~RollsOver(checkpoint, q)
      <4>1. CheckpointsNow[q] = checkpoint[q]
        BY <2>2, <3>4 DEF CheckpointsNow
      <4>. QED
        BY <3>1, <3>2, <4>1
    <3>. QED
      BY <3>3, <3>4
  <2>. QED
    BY <2>1, <2>2
<1>4. CheckpointsNow \in [Queries -> Checkpoint]
  BY <1>3 DEF CheckpointsNow
<1>5. me \in Collector
  BY <1>2, <1>4, CollectionConstants DEF Collector
<1>6. me.pc = "collecting" /\ me.read = CheckpointsNow /\ me.found = {}
  OBVIOUS
<1>7. /\ collector' = [collector EXCEPT ![c] = me]
      /\ UNCHANGED <<now, posted, day, stored, checkpoint>>
  BY <1>1 DEF BeginWith
<1>8. \A q \in Queries :
        /\ me.read[q] \in Checkpoint /\ WindowIsPast(me.read[q])
        /\ Has(posted, day, Saved \cup me.found, q, me.read[q])
  <2>1. Saved \cup {} = Saved
    OBVIOUS
  <2>. HIDE DEF me
  <2>. QED
    BY <1>3, <1>6, <2>1
<1>. HIDE DEF me
<1>. QED
  BY <1>5, <1>6, <1>7, <1>8, RunBecomes

\* An answer: the checkpoint of one query becomes cp, what was found is kept.
LEMMA AnswerKeeps ==
  ASSUME CollectionInv, NEW c \in Collectors, NEW q \in Queries, NEW cp \in Checkpoint,
         NEW found \in SUBSET Records, NEW goOn \in BOOLEAN,
         IsNext(collector[c], q), Answer(c, q, cp, found, goOn),
         UNCHANGED <<now, posted, day, stored, checkpoint>>,
         WindowIsPast(cp), Has(posted, day, Saved \cup (collector[c].found \cup found), q, cp)
  PROVE  CollectionInv'
<1>. DEFINE was == collector[c]
            next == [cp EXCEPT !.attempt = NQueries]
            me == [was EXCEPT !.budget = @ - 1, !.found = @ \cup found,
                              !.work = IF goOn THEN @ \ {q} ELSE {},
                              !.read = [@ EXCEPT ![q] = next]]
            got == Saved \cup (was.found \cup found)
<1>1. /\ was \in Collector /\ was.read \in [Queries -> Checkpoint \cup {None}]
      /\ was.work \in SUBSET Queries /\ was.budget \in 0..Budget
      /\ was.found \in SUBSET Records
  BY RunOf
<1>2. was.pc = "collecting" /\ was.budget > 0
  BY DEF IsNext
<1>3. /\ next \in Checkpoint /\ next.since = cp.since /\ next.start = cp.start /\ next.end = cp.end
      /\ next.offset = cp.offset /\ next.state = cp.state
  BY CollectionConstants DEF Checkpoint
<1>4. /\ me.pc = "collecting" /\ me.found = was.found \cup found
      /\ me.read = [was.read EXCEPT ![q] = next]
  BY <1>1, <1>2 DEF Collector
<1>5. me \in Collector
  <2>1. was.budget - 1 \in 0..Budget
    BY <1>1, <1>2, CollectionConstants
  <2>2. /\ [was.read EXCEPT ![q] = next] \in [Queries -> Checkpoint \cup {None}]
        /\ was.found \cup found \in SUBSET Records
        /\ (IF goOn THEN was.work \ {q} ELSE {}) \in SUBSET Queries
    <3>. HIDE DEF next
    <3>. QED
      BY <1>1, <1>3
  <2>3. \A b \in 0..Budget, f \in SUBSET Records, w \in SUBSET Queries,
           r \in [Queries -> Checkpoint \cup {None}] :
          [was EXCEPT !.budget = b, !.found = f, !.work = w, !.read = r] \in Collector
    <3>. HIDE DEF was
    <3>. QED
      BY <1>1 DEF Collector
  <2>. HIDE DEF was, next
  <2>. QED
    BY <2>1, <2>2, <2>3
<1>6. Has(posted, day, got, q, next)
  <2>. HIDE DEF next, got
  <2>. QED
    BY <1>3, HasNoMore DEF got
<1>7. WindowIsPast(next)
  BY <1>3 DEF WindowIsPast
<1>8. ASSUME NEW p \in Queries
      PROVE  /\ me.read[p] \in Checkpoint /\ WindowIsPast(me.read[p])
             /\ Has(posted, day, got, p, me.read[p])
  <2>1. /\ was.read[p] \in Checkpoint /\ WindowIsPast(was.read[p])
        /\ Has(posted, day, Saved \cup was.found, p, was.read[p])
    BY <1>2 DEF CollectionInv, RunsHave
  <2>2. Has(posted, day, got, p, was.read[p])
    <3>1. Saved \cup was.found \subseteq got
      OBVIOUS
    <3>. HIDE DEF got
    <3>. QED
      BY <2>1, <3>1, HasMore
  <2>3. CASE p = q
    <3>1. me.read[p] = next
      BY <1>1, <1>4, <2>3
    <3>. HIDE DEF me, next, got
    <3>. QED
      BY <1>3, <1>6, <1>7, <2>3, <3>1
  <2>4. CASE p # q
    <3>1. me.read[p] = was.read[p]
      BY <1>1, <1>4, <2>4
    <3>. HIDE DEF me, got
    <3>. QED
      BY <2>1, <2>2, <3>1
  <2>. QED
    BY <2>3, <2>4
<1>9. collector' = [collector EXCEPT ![c] = me]
  BY DEF Answer
<1>10. Saved \cup me.found = got
  BY <1>4
<1>. HIDE DEF me, was, got
<1>. QED
  BY <1>4, <1>5, <1>8, <1>9, <1>10, RunBecomes

LEMMA RunReads ==
  ASSUME CollectionInv, NEW c \in Collectors, NEW q \in Queries, IsNext(collector[c], q)
  PROVE  /\ collector[c].read[q] \in Checkpoint /\ WindowIsPast(collector[c].read[q])
         /\ Has(posted, day, Saved \cup collector[c].found, q, collector[c].read[q])
<1>1. collector[c].pc # "idle"
  BY DEF IsNext
<1>. QED
  BY <1>1 DEF CollectionInv, RunsHave

LEMMA GetPageKeeps ==
  ASSUME CollectionInv, NEW c \in Collectors, NEW q \in Queries, GetPage(c, q)
  PROVE  CollectionInv'
<1>. DEFINE cp == collector[c].read[q]
            page == Page(q, cp)
            offset == cp.offset + Cardinality(page)
            complete == page = {} \/ offset >= Cardinality(Listing(q, cp))
            next == [cp EXCEPT !.offset = offset,
                               !.state = IF complete THEN "COMPLETE" ELSE "AWAITING_CONTINUATION"]
            found == {posted[i] : i \in page}
            got == Saved \cup collector[c].found
<1>1. IsNext(collector[c], q) /\ Answer(c, q, next, found, TRUE)
      /\ UNCHANGED <<now, posted, day, stored, checkpoint>>
  BY DEF GetPage
<1>2. cp \in Checkpoint /\ WindowIsPast(cp) /\ Has(posted, day, got, q, cp)
  BY <1>1, RunReads
<1>3. posted \in Seq(Records) /\ day \in [Records -> 0..MaxDay]
  BY RunOf
<1>4. Listing(q, cp) = ListingOf(posted, day, q, cp)
  BY DEF Listing, ListingOf
<1>5. page = {i \in ListingOf(posted, day, q, cp) :
                Place(i, ListingOf(posted, day, q, cp)) \in cp.offset..(cp.offset + PageSize - 1)}
  <2>. HIDE DEF cp
  <2>. QED
    BY <1>4 DEF Page
<1>6. cp.offset \in Nat /\ PageSize \in Nat \ {0}
  BY <1>2, CollectionConstants, CheckpointFields
<1>7. Cardinality(page) \in Nat
  <2>1. ListingOf(posted, day, q, cp) \in SUBSET Nat /\ IsFiniteSet(ListingOf(posted, day, q, cp))
    BY <1>3, ListingIsFinite
  <2>2. page \in SUBSET ListingOf(posted, day, q, cp)
    <3>. HIDE DEF page
    <3>. QED
      BY <1>5
  <2>3. IsFiniteSet(page)
    <3>. HIDE DEF page
    <3>. QED
      BY <2>1, <2>2, FS_Subset
  <2>. QED
    BY <2>3, FS_CardinalityType
<1>8. next \in Checkpoint /\ next.since = cp.since /\ next.start = cp.start /\ next.end = cp.end
      /\ next.offset = offset /\ (next.state = "COMPLETE" => complete)
  <2>1. offset \in Nat
    BY <1>6, <1>7
  <2>2. (IF complete THEN "COMPLETE" ELSE "AWAITING_CONTINUATION") \in CoverageState
    BY DEF CoverageState
  <2>3. \A o \in Nat, s \in CoverageState :
          LET n == [cp EXCEPT !.offset = o, !.state = s]
          IN  n \in Checkpoint /\ n.since = cp.since /\ n.start = cp.start /\ n.end = cp.end
              /\ n.offset = o /\ n.state = s
    <3>. HIDE DEF cp
    <3>. QED
      BY <1>2 DEF Checkpoint
  <2>. HIDE DEF cp, offset, complete
  <2>. QED
    BY <2>1, <2>2, <2>3
<1>9. found \in SUBSET Records
  <2>1. \A i \in page : posted[i] \in Records
    <3>1. \A i \in page : i \in DOMAIN posted
      <4>. HIDE DEF page
      <4>. QED
        BY <1>5 DEF ListingOf
    <3>. QED
      BY <1>3, <3>1
  <2>. HIDE DEF page
  <2>. QED
    BY <2>1
<1>10. Has(posted, day, got \cup found, q, next)
  <2>1. complete \in BOOLEAN
    OBVIOUS
  <2>2. complete = (page = {} \/ cp.offset + Cardinality(page)
                                   >= Cardinality(ListingOf(posted, day, q, cp)))
    BY <1>4
  <2>. HIDE DEF cp, page, complete, next, got
  <2>. QED
    BY <1>2, <1>3, <1>5, <1>8, <2>1, <2>2, PageHas
<1>11. WindowIsPast(next)
  <2>. HIDE DEF next, cp
  <2>. QED
    BY <1>2, <1>8 DEF WindowIsPast
<1>12. got \cup found = Saved \cup (collector[c].found \cup found)
  OBVIOUS
<1>. HIDE DEF cp, page, next, found, got
<1>. QED
  BY <1>1, <1>8, <1>9, <1>10, <1>11, <1>12, AnswerKeeps

\* A refusal leaves the window as it was read, and not complete.
LEMMA RefusalKeeps ==
  ASSUME CollectionInv, NEW c \in Collectors, NEW q \in Queries, RateLimited(c, q) \/ Fail(c, q)
  PROVE  CollectionInv'
<1>. DEFINE cp == collector[c].read[q]
            next == [cp EXCEPT !.state = "FAILED"]
            got == Saved \cup collector[c].found
<1>1. PICK goOn \in BOOLEAN :
        /\ IsNext(collector[c], q) /\ Answer(c, q, next, {}, goOn)
        /\ UNCHANGED <<now, posted, day, stored, checkpoint>>
  BY DEF RateLimited, Fail
<1>2. cp \in Checkpoint /\ WindowIsPast(cp) /\ Has(posted, day, got, q, cp)
  BY <1>1, RunReads
<1>3. /\ next \in Checkpoint /\ next.since = cp.since /\ next.start = cp.start /\ next.end = cp.end
      /\ next.offset = cp.offset /\ next.state # "COMPLETE"
  <2>. HIDE DEF cp
  <2>. QED
    BY <1>2 DEF Checkpoint, CoverageState
<1>4. Has(posted, day, got, q, next)
  <2>. HIDE DEF cp, next, got
  <2>. QED
    BY <1>2, <1>3, HasNoMore
<1>5. WindowIsPast(next)
  <2>. HIDE DEF next, cp
  <2>. QED
    BY <1>2, <1>3 DEF WindowIsPast
<1>6. got = Saved \cup (collector[c].found \cup {})
  OBVIOUS
<1>7. {} \in SUBSET Records
  OBVIOUS
<1>. HIDE DEF cp, next, got
<1>. QED
  BY <1>1, <1>3, <1>4, <1>5, <1>6, <1>7, AnswerKeeps

\* What a run found is stored; nothing stored is lost.
LEMMA SaveSnapshotKeeps ==
  ASSUME CollectionInv, NEW c \in Collectors, SaveSnapshot(c)
  PROVE  CollectionInv'
<1>. DEFINE was == collector[c]
            me == [Idle EXCEPT !.pc = "checkpoint", !.read = was.read]
<1>1. /\ was.pc = "collecting" /\ collector' = [collector EXCEPT ![c] = me]
      /\ stored' = [r \in Records |-> IF r \in was.found THEN was.at ELSE stored[r]]
      /\ UNCHANGED <<now, posted, day, checkpoint>>
  BY DEF SaveSnapshot
<1>2. /\ was.read \in [Queries -> Checkpoint \cup {None}] /\ was.found \in SUBSET Records
      /\ was.at \in 0..MaxDay
  BY RunOf
<1>3. me.read = was.read /\ me.found = {}
  BY DEF Idle
<1>4. me \in Collector
  <2>1. Idle \in Collector
    BY CollectionConstants DEF Idle, Collector
  <2>2. \A r \in [Queries -> Checkpoint \cup {None}] :
          [Idle EXCEPT !.pc = "checkpoint", !.read = r] \in Collector
    BY <2>1 DEF Collector
  <2>. HIDE DEF was
  <2>. QED
    BY <1>2, <2>2
<1>5. Never \notin 0..MaxDay
  BY CollectionConstants DEF Never
<1>6. Saved' = Saved \cup was.found
  BY <1>1, <1>2, <1>5 DEF Saved
<1>7. TypeOK'
  <2>1. stored' \in [Records -> (0..MaxDay) \cup {Never}]
    BY <1>1, <1>2 DEF CollectionInv, TypeOK
  <2>. HIDE DEF me
  <2>. QED
    BY <1>1, <1>4, <2>1 DEF CollectionInv, TypeOK
<1>8. CheckpointsHave'
  <2>1. ASSUME NEW q \in Queries, checkpoint[q] # None
        PROVE  WindowIsPast(checkpoint[q]) /\ Has(posted, day, Saved', q, checkpoint[q])
    BY <1>6, <2>1, HasMore DEF CollectionInv, CheckpointsHave
  <2>. QED
    BY <1>1, <2>1 DEF CheckpointsHave, WindowIsPast
<1>9. \A b \in Collectors : collector'[b] = IF b = c THEN me ELSE collector[b]
  BY <1>1 DEF CollectionInv, TypeOK
<1>10. RunsHave'
  <2>1. ASSUME NEW b \in Collectors, collector'[b].pc # "idle", NEW q \in Queries
        PROVE  /\ collector'[b].read[q] \in Checkpoint /\ WindowIsPast(collector'[b].read[q])
               /\ Has(posted, day, Saved' \cup collector'[b].found, q, collector'[b].read[q])
    <3>1. CASE b = c
      <4>1. collector'[b].read = was.read /\ collector'[b].found = {}
        BY <1>3, <1>9, <3>1
      <4>2. Saved' \cup {} = Saved \cup was.found
        BY <1>6
      <4>3. /\ was.read[q] \in Checkpoint /\ WindowIsPast(was.read[q])
            /\ Has(posted, day, Saved \cup was.found, q, was.read[q])
        BY <1>1 DEF CollectionInv, RunsHave
      <4>. HIDE DEF was
      <4>. QED
        BY <4>1, <4>2, <4>3
    <3>2. CASE b # c
      <4>1. collector'[b] = collector[b]
        BY <1>9, <3>2
      <4>2. /\ collector[b].read[q] \in Checkpoint /\ WindowIsPast(collector[b].read[q])
            /\ Has(posted, day, Saved \cup collector[b].found, q, collector[b].read[q])
        BY <2>1, <4>1 DEF CollectionInv, RunsHave
      <4>3. Saved \cup collector[b].found \subseteq Saved' \cup collector[b].found
        BY <1>6
      <4>4. Has(posted, day, Saved' \cup collector[b].found, q, collector[b].read[q])
        BY <4>2, <4>3, HasMore
      <4>. QED
        BY <4>1, <4>2, <4>4
    <3>. QED
      BY <3>1, <3>2
  <2>2. posted' = posted /\ day' = day /\ now' = now
    BY <1>1
  <2>. QED
    BY <2>1, <2>2 DEF RunsHave, WindowIsPast
<1>11. SnapshotIsSaved'
  <2>1. me.found = {}
    BY <1>3
  <2>. HIDE DEF me
  <2>. QED
    BY <1>9, <2>1 DEF CollectionInv, SnapshotIsSaved
<1>. QED
  BY <1>7, <1>8, <1>10, <1>11 DEF CollectionInv

LEMMA PlacesAre ==
  ASSUME NEW read, NEW q \in Queries, \A s \in Queries : read[s] \in Checkpoint
  PROVE  /\ Places(read)[q] \in Checkpoint
         /\ Places(read)[q].since = read[q].since /\ Places(read)[q].start = read[q].start
         /\ Places(read)[q].end = read[q].end /\ Places(read)[q].offset = read[q].offset
         /\ Places(read)[q].state = read[q].state
<1>. DEFINE of(t) == read[t].attempt
            before == {of(s) : s \in {t \in Queries : of(t) < of(q)}}
<1>1. \A s \in Queries : of(s) \in 0..NQueries
  BY CheckpointFields
<1>2. of(q) \in Nat /\ of(q) <= NQueries
  BY <1>1, CollectionConstants
<1>3. before \in SUBSET (0..(of(q) - 1))
  <2>1. \A s \in Queries : of(s) < of(q) => of(s) \in 0..(of(q) - 1)
    BY <1>1, <1>2, CollectionConstants
  <2>. HIDE DEF of
  <2>. QED
    BY <2>1
<1>4. IsFiniteSet(0..(of(q) - 1)) /\ Cardinality(0..(of(q) - 1)) = of(q)
  <2>1. 0 \in Int /\ of(q) - 1 \in Int
    BY <1>2
  <2>2. /\ IsFiniteSet(0..(of(q) - 1))
        /\ Cardinality(0..(of(q) - 1)) = IF 0 > of(q) - 1 THEN 0 ELSE (of(q) - 1) - 0 + 1
    <3>. HIDE DEF of
    <3>. QED
      BY <2>1, FS_Interval
  <2>. QED
    BY <1>2, <2>2
<1>5. IsFiniteSet(before) /\ Cardinality(before) <= of(q)
  <2>. HIDE DEF before, of
  <2>. QED
    BY <1>3, <1>4, FS_Subset
<1>6. Cardinality(before) \in 0..NQueries
  <2>1. Cardinality(before) \in Nat
    BY <1>5, FS_CardinalityType
  <2>. HIDE DEF before, of
  <2>. QED
    BY <1>2, <1>5, <2>1, CollectionConstants
<1>7. Places(read)[q] = [read[q] EXCEPT !.attempt = Cardinality(before)]
  BY DEF Places
<1>8. read[q] \in Checkpoint
  OBVIOUS
<1>. HIDE DEF before
<1>. QED
  BY <1>6, <1>7, <1>8 DEF Checkpoint

\* What a run has in memory becomes durable, and replaces what another run saved.
LEMMA SaveCheckpointsKeeps ==
  ASSUME CollectionInv, NEW c \in Collectors, SaveCheckpoints(c)
  PROVE  CollectionInv'
<1>. DEFINE was == collector[c]
            saved == Places(was.read)
<1>1. /\ was.pc = "checkpoint" /\ collector' = [collector EXCEPT ![c] = Idle]
      /\ checkpoint' = saved /\ UNCHANGED <<now, posted, day, stored>>
  BY DEF SaveCheckpoints
<1>2. ASSUME NEW q \in Queries
      PROVE  /\ was.read[q] \in Checkpoint /\ WindowIsPast(was.read[q])
             /\ Has(posted, day, Saved, q, was.read[q])
  <2>1. was.found = {}
    BY <1>1 DEF CollectionInv, SnapshotIsSaved
  <2>2. /\ was.read[q] \in Checkpoint /\ WindowIsPast(was.read[q])
        /\ Has(posted, day, Saved \cup was.found, q, was.read[q])
    BY <1>1 DEF CollectionInv, RunsHave
  <2>3. Saved \cup {} = Saved
    OBVIOUS
  <2>. HIDE DEF was
  <2>. QED
    BY <2>1, <2>2, <2>3
<1>3. ASSUME NEW q \in Queries
      PROVE  /\ saved[q] \in Checkpoint /\ WindowIsPast(saved[q])
             /\ Has(posted, day, Saved, q, saved[q])
  <2>. HIDE DEF was
  <2>1. /\ saved[q] \in Checkpoint
        /\ saved[q].since = was.read[q].since /\ saved[q].start = was.read[q].start
        /\ saved[q].end = was.read[q].end /\ saved[q].offset = was.read[q].offset
        /\ saved[q].state = was.read[q].state
    BY <1>2, PlacesAre
  <2>. HIDE DEF saved
  <2>2. Has(posted, day, Saved, q, saved[q])
    BY <1>2, <2>1, HasNoMore
  <2>. QED
    BY <1>2, <2>1, <2>2 DEF WindowIsPast
<1>4. saved \in [Queries -> Checkpoint]
  <2>1. DOMAIN saved = Queries /\ saved = [q \in Queries |-> saved[q]]
    BY DEF Places
  <2>. HIDE DEF saved
  <2>. QED
    BY <1>3, <2>1
<1>5. Saved' = Saved
  BY <1>1 DEF Saved
<1>6. Idle \in Collector
  BY CollectionConstants DEF Idle, Collector
<1>7. TypeOK'
  <2>. HIDE DEF saved
  <2>. QED
    BY <1>1, <1>4, <1>6 DEF CollectionInv, TypeOK
<1>8. CheckpointsHave'
  <2>1. posted' = posted /\ day' = day /\ now' = now /\ checkpoint' = saved
    BY <1>1
  <2>. HIDE DEF saved
  <2>. QED
    BY <1>3, <1>5, <2>1 DEF CheckpointsHave, WindowIsPast
<1>9. \A b \in Collectors : collector'[b] = IF b = c THEN Idle ELSE collector[b]
  BY <1>1 DEF CollectionInv, TypeOK
<1>10. Idle.pc = "idle"
  BY DEF Idle
<1>11. RunsHave'
  <2>1. posted' = posted /\ day' = day /\ now' = now
    BY <1>1
  <2>. QED
    BY <1>5, <1>9, <1>10, <2>1 DEF CollectionInv, RunsHave, WindowIsPast
<1>12. SnapshotIsSaved'
  BY <1>9, <1>10 DEF CollectionInv, SnapshotIsSaved
<1>. QED
  BY <1>7, <1>8, <1>11, <1>12 DEF CollectionInv

LEMMA AbandonKeeps ==
  ASSUME CollectionInv, NEW c \in Collectors, Abandon(c)
  PROVE  CollectionInv'
<1>1. Idle \in Collector /\ Idle.pc = "idle"
  BY CollectionConstants DEF Idle, Collector
<1>2. /\ collector' = [collector EXCEPT ![c] = Idle]
      /\ UNCHANGED <<now, posted, day, stored, checkpoint>>
  BY DEF Abandon
<1>. QED
  BY <1>1, <1>2, RunBecomes

\* A notice is posted while any number of windows are being read.
LEMMA PostKeeps ==
  ASSUME CollectionInv, NEW r \in Records, Post(r)
  PROVE  CollectionInv'
<1>1. /\ r \notin {posted[i] : i \in DOMAIN posted} /\ posted' = Append(posted, r)
      /\ day' = [day EXCEPT ![r] = now] /\ UNCHANGED <<now, stored, checkpoint, collector>>
  BY DEF Post, ToSet
<1>2. posted \in Seq(Records) /\ day \in [Records -> 0..MaxDay] /\ now \in 0..MaxDay
  BY DEF CollectionInv, TypeOK
<1>3. TypeOK'
  BY <1>1, <1>2 DEF CollectionInv, TypeOK
<1>4. Saved' = Saved
  BY <1>1 DEF Saved
<1>5. ASSUME NEW q \in Queries, NEW cp \in Checkpoint, NEW got, WindowIsPast(cp),
             Has(posted, day, got, q, cp)
      PROVE  Has(posted', day', got, q, cp)
  <2>1. cp.start <= cp.end /\ cp.end <= now
    BY <1>5 DEF WindowIsPast
  <2>2. Has(Append(posted, r), [day EXCEPT ![r] = now], got, q, cp)
    BY <1>1, <1>2, <1>5, <2>1, PostedHas
  <2>. QED
    BY <1>1, <2>2
<1>6. CheckpointsHave'
  <2>1. ASSUME NEW q \in Queries, checkpoint[q] # None
        PROVE  WindowIsPast(checkpoint[q]) /\ Has(posted', day', Saved, q, checkpoint[q])
    <3>1. checkpoint[q] \in Checkpoint
      BY <2>1 DEF CollectionInv, TypeOK
    <3>2. WindowIsPast(checkpoint[q]) /\ Has(posted, day, Saved, q, checkpoint[q])
      BY <2>1 DEF CollectionInv, CheckpointsHave
    <3>. QED
      BY <1>5, <3>1, <3>2
  <2>2. checkpoint' = checkpoint /\ now' = now
    BY <1>1
  <2>. QED
    BY <1>4, <2>1, <2>2 DEF CheckpointsHave, WindowIsPast
<1>7. RunsHave'
  <2>1. ASSUME NEW c \in Collectors, collector[c].pc # "idle", NEW q \in Queries
        PROVE  /\ collector[c].read[q] \in Checkpoint /\ WindowIsPast(collector[c].read[q])
               /\ Has(posted', day', Saved \cup collector[c].found, q, collector[c].read[q])
    <3>1. /\ collector[c].read[q] \in Checkpoint /\ WindowIsPast(collector[c].read[q])
          /\ Has(posted, day, Saved \cup collector[c].found, q, collector[c].read[q])
      BY <2>1 DEF CollectionInv, RunsHave
    <3>. QED
      BY <1>5, <3>1
  <2>2. collector' = collector /\ now' = now
    BY <1>1
  <2>. QED
    BY <1>4, <2>1, <2>2 DEF RunsHave, WindowIsPast
<1>8. SnapshotIsSaved'
  BY <1>1 DEF CollectionInv, SnapshotIsSaved
<1>. QED
  BY <1>3, <1>6, <1>7, <1>8 DEF CollectionInv

LEMMA NextDayKeeps ==
  ASSUME CollectionInv, NextDay
  PROVE  CollectionInv'
<1>1. /\ now < MaxDay /\ now' = now + 1
      /\ posted' = posted /\ day' = day /\ stored' = stored /\ checkpoint' = checkpoint
      /\ collector' = collector
  BY DEF NextDay
<1>2. now \in 0..MaxDay
  BY DEF CollectionInv, TypeOK
<1>3. now' \in 0..MaxDay
  BY <1>1, <1>2, CollectionConstants
<1>4. TypeOK'
  BY <1>1, <1>3 DEF CollectionInv, TypeOK
<1>5. Saved' = Saved
  BY <1>1 DEF Saved
<1>6. ASSUME NEW cp \in Checkpoint, cp.end <= now
      PROVE  cp.end <= now'
  <2>1. cp.end \in Nat
    BY CheckpointFields, CollectionConstants
  <2>. QED
    BY <1>1, <1>2, <1>6, <2>1
<1>7. CheckpointsHave'
  <2>1. \A q \in Queries : checkpoint[q] # None => checkpoint[q] \in Checkpoint
    BY DEF CollectionInv, TypeOK
  <2>. QED
    BY <1>1, <1>5, <1>6, <2>1 DEF CollectionInv, CheckpointsHave, WindowIsPast
<1>8. RunsHave'
  BY <1>1, <1>5, <1>6 DEF CollectionInv, RunsHave, WindowIsPast
<1>9. SnapshotIsSaved'
  BY <1>1 DEF CollectionInv, SnapshotIsSaved
<1>. QED
  BY <1>4, <1>7, <1>8, <1>9 DEF CollectionInv

LEMMA NextCollection == CollectionInv /\ [Next]_vars => CollectionInv'
<1>. SUFFICES ASSUME CollectionInv, [Next]_vars PROVE CollectionInv'
  OBVIOUS
<1>1. ASSUME NEW c \in Collectors, Run(c)
      PROVE  CollectionInv'
  <2>1. CASE Begin(c)
    BY <2>1, BeginKeeps
  <2>2. CASE SaveSnapshot(c)
    BY <2>2, SaveSnapshotKeeps
  <2>3. CASE SaveCheckpoints(c)
    BY <2>3, SaveCheckpointsKeeps
  <2>4. ASSUME NEW q \in Queries, GetPage(c, q) \/ RateLimited(c, q) \/ Fail(c, q)
        PROVE  CollectionInv'
    BY <2>4, GetPageKeeps, RefusalKeeps
  <2>. QED
    BY <1>1, <2>1, <2>2, <2>3, <2>4 DEF Run
<1>2. ASSUME NEW c \in Collectors, Abandon(c)
      PROVE  CollectionInv'
  BY <1>2, AbandonKeeps
<1>3. ASSUME NEW r \in Records, Post(r)
      PROVE  CollectionInv'
  BY <1>3, PostKeeps
<1>4. CASE NextDay
  BY <1>4, NextDayKeeps
<1>5. CASE UNCHANGED vars
  <2>1. /\ now' = now /\ posted' = posted /\ day' = day /\ stored' = stored
        /\ checkpoint' = checkpoint /\ collector' = collector
    BY <1>5 DEF vars
  <2>2. Saved' = Saved
    BY <2>1 DEF Saved
  <2>3. TypeOK' /\ SnapshotIsSaved'
    BY <2>1 DEF CollectionInv, TypeOK, SnapshotIsSaved
  <2>4. CheckpointsHave' /\ RunsHave'
    BY <2>1, <2>2 DEF CollectionInv, CheckpointsHave, RunsHave, WindowIsPast
  <2>. QED
    BY <2>3, <2>4 DEF CollectionInv
<1>. QED
  BY <1>1, <1>2, <1>3, <1>4, <1>5 DEF Next

\* What the checkpoints say is what the invariant says of the current windows.
LEMMA NothingIsSkipped == CollectionInv => NothingSkipped
<1>. SUFFICES ASSUME CollectionInv, NEW q \in Queries, checkpoint[q] # None,
                     NEW r \in ToSet(posted), q \in Matches[r], day[r] >= checkpoint[q].since,
                     \/ day[r] < checkpoint[q].start
                     \/ Complete(checkpoint[q]) /\ day[r] < checkpoint[q].end
              PROVE  stored[r] # Never
  BY DEF NothingSkipped
<1>. DEFINE cp == checkpoint[q]
<1>1. cp \in Checkpoint /\ WindowIsPast(cp) /\ Has(posted, day, Saved, q, cp)
  BY DEF CollectionInv, TypeOK, CheckpointsHave
<1>2. PICK i \in DOMAIN posted : r = posted[i]
  BY DEF ToSet
<1>3. posted \in Seq(Records) /\ day \in [Records -> 0..MaxDay]
  BY DEF CollectionInv, TypeOK
<1>4. r \in Records /\ day[r] \in Nat
  BY <1>2, <1>3, CollectionConstants
<1>5. cp.start \in Nat /\ cp.end \in Nat
  BY <1>1, CheckpointFields, CollectionConstants
<1>6. Complete(cp) => cp.state = "COMPLETE"
  BY DEF Complete
<1>7. day[r] < cp.start => r \in Saved
  BY <1>1, <1>2 DEF Has
<1>8. ~(day[r] < cp.start) /\ Complete(cp) /\ day[r] < cp.end => r \in Saved
  <2>1. ~(day[r] < cp.start) /\ day[r] < cp.end => day[r] \in cp.start..cp.end
    <3>. HIDE DEF cp
    <3>. QED
      BY <1>4, <1>5
  <2>. QED
    BY <1>1, <1>2, <1>6, <2>1 DEF Has
<1>9. r \in Saved
  BY <1>7, <1>8
<1>. QED
  BY <1>9 DEF Saved

\* Types, and how far a window may reach, at every step of every run.
THEOREM TypesAreKept == Spec => []TypeOK
<1>1. CollectionInv => TypeOK
  BY DEF CollectionInv
<1>. QED
  BY <1>1, InitCollection, NextCollection, PTL DEF Spec

\* Whatever was posted since the first window began, up to the current window of a
\* query, and through it once it is complete, is stored: however runs of
\* collect_resumable overlap, die between their two transactions, are refused or
\* read pages that shift.
THEOREM NoticesAreNotSkipped == Spec => []NothingSkipped
BY InitCollection, NextCollection, NothingIsSkipped, PTL DEF Spec
=============================================================================
