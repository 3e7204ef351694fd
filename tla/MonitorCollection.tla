--------------------------- MODULE MonitorCollection ---------------------------
(***************************************************************************)
(* The collection of one source after another: the observations that an    *)
(* adapter brings become events and clusters in the memory of the process,  *)
(* and a snapshot of both is written in one transaction.                   *)
(*   MonitorService.collect               monitor/service.py               *)
(*   cluster_event                        monitor/clustering.py            *)
(*   MonitorRepository.persist_snapshot   monitor/repository.py            *)
(*                                                                         *)
(* A worker's process ends with its cycle.  That of the API serves an      *)
(* operator's collections from the memory it has, and takes no lock.       *)
(***************************************************************************)
EXTENDS Naturals

CONSTANTS
  Collectors,    \* processes, one collection at a time each
  Sources,
  SourceKeys,          \* the records of a source
  Irrelevant,    \* contents that the normalizer of their source rejects, and keeps
  MaxContent     \* bound on the contents that a record takes

VARIABLES
  serves,        \* what the sources publish: the content of each record
  stored,        \* monitor_observations
  storedEvents,  \* monitor_events, by the observation they were made of
  clusterRow,    \* monitor_event_clusters
  rejectedRows,  \* monitor_rejected_observations: the source of the run, the observation
  known,        \* the clusters and the rejected observations of each process
  collection     \* the collection that each process is in

collectionVars ==
  <<serves, stored, storedEvents, clusterRow, rejectedRows, known, collection>>

Records == Sources \X SourceKeys
Observations == Records \X (1..MaxContent)   \* an identifier is a hash of the content

\* No cluster; otherwise its event, its observations, and its earlier events.
NoCluster == [event |-> 0, observations |-> {}, related |-> {}]
NoClusters == [r \in Records |-> NoCluster]
EmptyMemory == [clusters |-> NoClusters, rejected |-> {}]
Resting == [at |-> "rest"]

-----------------------------------------------------------------------------
\* What the adapter collects: some of the records of the source.
Collect(p, s, found) ==
  /\ collection[p] = Resting
  /\ LET brought == {<<r, serves[r]>> : r \in found}
     IN  collection' = [collection EXCEPT ![p] =
           [at |-> "normalize", source |-> s, observations |-> brought,
            todo |-> brought, events |-> {}]]
  /\ UNCHANGED <<serves, stored, storedEvents, clusterRow, rejectedRows, known>>

\* The source fails, or its deadline passes: there is nothing but a failed run.
CollectNothing(p, s) ==
  /\ collection[p] = Resting
  /\ collection' = [collection EXCEPT ![p] =
       [at |-> "persist", source |-> s, observations |-> {}, todo |-> {}, events |-> {}]]
  /\ UNCHANGED <<serves, stored, storedEvents, clusterRow, rejectedRows, known>>

\* Mutant: only the clusters of this process are known.
KnownInMemory(p, r) == known[p].clusters[r]

ExistingCluster(p, r) ==
  IF known[p].clusters[r] # NoCluster THEN known[p].clusters[r] ELSE clusterRow[r]

\* cluster_event
WithEvent(cluster, content) ==
  [event |-> content,
   observations |-> cluster.observations \cup {content},
   related |-> cluster.related \cup ({cluster.event} \ {0, content})]

\* One observation of the loop; that it is rejected changes nothing else.
Normalize(p, o) ==
  LET r == o[1]
      content == o[2]
  IN  /\ collection[p].at = "normalize"
      /\ o \in collection[p].todo
      /\ known' = [known EXCEPT
           ![p].clusters[r] = WithEvent(ExistingCluster(p, r), content),
           ![p].rejected = IF content \in Irrelevant THEN @ \cup {o} ELSE @]
      /\ collection' = [collection EXCEPT ![p].todo = @ \ {o}, ![p].events = @ \cup {o}]
      /\ UNCHANGED <<serves, stored, storedEvents, clusterRow, rejectedRows>>

\* The loop has ended, or an exception ended it: the run failed, the observations that
\* were not normalized are kept as the others are, and what was done is not undone.
LeaveLoop(p, raised) ==
  /\ collection[p].at = "normalize"
  /\ raised \/ collection[p].todo = {}
  /\ collection' = [collection EXCEPT ![p].at = "persist", ![p].todo = {}]
  /\ UNCHANGED <<serves, stored, storedEvents, clusterRow, rejectedRows, known>>

\* What collect hands over: all the clusters that the process has in memory, whatever
\* the source of this run.
HandsOver(p, r) == known[p].clusters[r] # NoCluster

\* persist_snapshot: the observations and the events of this run, the clusters that are
\* handed over and all rejected observations that the process has in memory.
PersistSnapshot(p) ==
  LET run == collection[p]
  IN  /\ run.at = "persist"
      /\ stored' = stored \cup run.observations
      /\ storedEvents' = storedEvents \cup run.events
      /\ clusterRow' = [r \in Records |->
           IF HandsOver(p, r) THEN known[p].clusters[r] ELSE clusterRow[r]]
      /\ rejectedRows' = rejectedRows \cup {<<run.source, o>> : o \in known[p].rejected}
      /\ collection' = [collection EXCEPT ![p] = Resting]
      /\ UNCHANGED <<serves, known>>

\* The transaction fails: the worker goes on with its next source, and its memory.
LoseSnapshot(p) ==
  /\ collection[p].at = "persist"
  /\ collection' = [collection EXCEPT ![p] = Resting]
  /\ UNCHANGED <<serves, stored, storedEvents, clusterRow, rejectedRows, known>>

\* The cycle of the worker ends, the API is restarted, or either is killed.
EndProcess(p) ==
  /\ collection' = [collection EXCEPT ![p] = Resting]
  /\ known' = [known EXCEPT ![p] = EmptyMemory]
  /\ UNCHANGED <<serves, stored, storedEvents, clusterRow, rejectedRows>>

\* The publisher changes a record, perhaps back.
Revise(r, content) ==
  /\ content # serves[r]
  /\ serves' = [serves EXCEPT ![r] = content]
  /\ UNCHANGED <<stored, storedEvents, clusterRow, rejectedRows, known, collection>>

CollectionInit ==
  /\ serves = [r \in Records |-> 1]
  /\ stored = {} /\ storedEvents = {} /\ rejectedRows = {}
  /\ clusterRow = NoClusters
  /\ known = [p \in Collectors |-> EmptyMemory]
  /\ collection = [p \in Collectors |-> Resting]

CollectionNext ==
  \/ \E p \in Collectors :
       \/ \E s \in Sources :
            \/ \E found \in SUBSET ({s} \X SourceKeys) : Collect(p, s, found)
            \/ CollectNothing(p, s)
       \/ \E o \in Observations : Normalize(p, o)
       \/ \E raised \in BOOLEAN : LeaveLoop(p, raised)
       \/ PersistSnapshot(p) \/ LoseSnapshot(p)
       \/ EndProcess(p)
  \/ \E r \in Records, content \in 1..MaxContent : Revise(r, content)

CollectionSpec == CollectionInit /\ [][CollectionNext]_collectionVars

-----------------------------------------------------------------------------
\* A cluster "retains every observation and evidence record"
\* (docs/architecture/monitor-2-target-architecture.md:24): what a row has named it names
\* from then on, through restarts, lost snapshots and runs that fail half way.
ClusterKeepsObservations ==
  [][\A r \in Records :
       clusterRow[r].observations \subseteq clusterRow'[r].observations]_collectionVars
=============================================================================
