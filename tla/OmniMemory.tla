------------------------------ MODULE OmniMemory ------------------------------
(***************************************************************************)
(* The preferences that one user asks Omni to remember, until they expire  *)
(* or are deleted, and the receipts of the requests that created them.     *)
(*   OmniMemoryRepository   persistence/omni_memory.py                     *)
(*   the endpoints          api/omni_memory.py                             *)
(*                                                                         *)
(* save and delete run under an advisory lock of the user.  What they are  *)
(* given is what a page showed: requests of several tabs arrive late, more *)
(* than once, and in any order.                                            *)
(***************************************************************************)
EXTENDS Naturals, Sequences, FiniteSets

CONSTANTS
  Clicks,        \* each is one press of save or delete; it may be sent again
  CreateKeys,    \* idempotency keys of the presses that create
  Texts,         \* preference contents
  MemoryLimit,   \* 25 in the code, expired preferences included
  ReceiptLimit,  \* 1000 in the code
  Ttl,           \* how long a preference lasts
  MaxDay         \* bound on time

VARIABLES
  day,
  born,          \* the request key of each preference that was ever created
  memory,        \* omni_user_memory, by identifier
  receipts,      \* omni_memory_create_requests
  click          \* what each press sends

memoryVars == <<day, born, memory, receipts, click>>

NoClick == [does |-> "nothing"]

Kept == DOMAIN memory

-----------------------------------------------------------------------------
Press(c, request) ==
  /\ click[c] = NoClick
  /\ click' = [click EXCEPT ![c] = request]
  /\ UNCHANGED <<day, born, memory, receipts>>

PressCreate(c, key, words) == Press(c, [does |-> "create", key |-> key, text |-> words])

\* The page shows a preference and its version, expired ones too.
PressEdit(c, m, words) ==
  Press(c, [does |-> "edit", id |-> m, version |-> memory[m].version, text |-> words])

PressDelete(c, m) == Press(c, [does |-> "delete", id |-> m, version |-> memory[m].version])

ReceiptsFor(key) == {receipt \in receipts : receipt.key = key}

\* Mutant: a receipt goes with the preference it created.
ReceiptsWithout(m) == {receipt \in receipts : receipt.id # m}

ReceiptsAfterDelete(m) == receipts

Remembered(words, version) == [text |-> words, version |-> version, expires |-> day + Ttl]

\* save without an identifier.  A replay answers with the preference as it is now, or
\* with a conflict; nothing is written either way.
Create(c) ==
  /\ click[c].does = "create"
  /\ ReceiptsFor(click[c].key) = {}
  /\ Cardinality(receipts) < ReceiptLimit
  /\ Cardinality(Kept) < MemoryLimit
  /\ LET m == Len(born) + 1
     IN  /\ born' = Append(born, click[c].key)
         /\ memory' = [k \in Kept \cup {m} |->
                         IF k = m THEN Remembered(click[c].text, 1) ELSE memory[k]]
         /\ receipts' = receipts \cup {[key |-> click[c].key, text |-> click[c].text, id |-> m]}
  /\ UNCHANGED <<day, click>>

Inspected(request) == request.id \in Kept /\ memory[request.id].version = request.version

\* save with an identifier, of the version that was inspected
Edit(c) ==
  /\ click[c].does = "edit"
  /\ Inspected(click[c])
  /\ memory' = [memory EXCEPT ![click[c].id] =
                  Remembered(click[c].text, click[c].version + 1)]
  /\ UNCHANGED <<day, born, receipts, click>>

Delete(c) ==
  /\ click[c].does = "delete"
  /\ Inspected(click[c])
  /\ memory' = [m \in Kept \ {click[c].id} |-> memory[m]]
  /\ receipts' = ReceiptsAfterDelete(click[c].id)
  /\ UNCHANGED <<day, born, click>>

DayPasses ==
  /\ day < MaxDay
  /\ day' = day + 1
  /\ UNCHANGED <<born, memory, receipts, click>>

MemoryInit ==
  /\ day = 0
  /\ born = <<>>
  /\ memory = <<>>
  /\ receipts = {}
  /\ click = [c \in Clicks |-> NoClick]

MemoryNext ==
  \/ \E c \in Clicks :
       \/ \E key \in CreateKeys, words \in Texts : PressCreate(c, key, words)
       \/ \E m \in Kept :
            \/ \E words \in Texts : PressEdit(c, m, words)
            \/ PressDelete(c, m)
       \/ Create(c) \/ Edit(c) \/ Delete(c)
  \/ DayPasses

MemorySpec == MemoryInit /\ [][MemoryNext]_memoryVars

-----------------------------------------------------------------------------
\* "Minimal create receipts survive deletion solely to prevent an old request from
\* resurrecting a preference" (omni_memory.py:38): a request, however late it comes
\* again, created one preference at most.
NothingIsResurrected ==
  \A i, j \in DOMAIN born : born[i] = born[j] => i = j

\* A page that shows an older version changes, renews and deletes nothing: what
\* changes a preference is the first press made on its version.
VersionStep ==
  \A m \in Kept \cap DOMAIN memory' :
    memory'[m] # memory[m] => memory'[m].version = memory[m].version + 1

OnlyInspectedVersionsChange == [][VersionStep]_memoryVars
=============================================================================
