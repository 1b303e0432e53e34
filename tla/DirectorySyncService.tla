------------------------ MODULE DirectorySyncService ------------------------
(***************************************************************************)
(* DirectorySyncService, one collection of it: updates are sequenced as    *)
(* they are published; readers ask with the cursor of the last answer they *)
(* received and merge what they are given.  Between the answer and its     *)
(* arrival the collection goes on changing, the answer may be lost with    *)
(* the connection, and the daemon may be restarted with a new generation   *)
(* and an empty collection.                                                *)
(***************************************************************************)
EXTENDS Collections

CONSTANTS
    Readers,        \* clients that read the collection by cursor
    MaxSeq,         \* bound: changes sequenced by one daemon
    MaxGeneration   \* bound: daemon restarts

ASSUME ServiceAssumption == MaxSeq \in Nat /\ MaxGeneration \in Nat /\ None \notin Nat

VARIABLES
    generation,     \* a fresh identity for each daemon process
    collection,
    cursor,         \* for each reader: its cursor, or None
    held,           \* for each reader: the entities it holds
    answer          \* for each reader: the answer on its way to it, or None

vars == <<generation, collection, cursor, held, answer>>

Init ==
    /\ generation = 0
    /\ collection = EmptyCollection
    /\ cursor = [r \in Readers |-> None]
    /\ held = [r \in Readers |-> [id \in Ids |-> None]]
    /\ answer = [r \in Readers |-> None]

\* sequenceProjectUpdate, sequenceWorkspaceUpdate and sequenceAgentUpdate.
SequenceUpsert(id, value) ==
    /\ collection' = Replace(collection, id, value)
    /\ collection'.head <= MaxSeq
    /\ UNCHANGED <<generation, cursor, held, answer>>

SequenceRemove(id) ==
    /\ collection' = Remove(collection, id)
    /\ collection'.head <= MaxSeq
    /\ UNCHANGED <<generation, cursor, held, answer>>

\* synchronizeProjects and its two siblings for a reader: the snapshot is
\* whatever the session listed, however long ago.
Synchronize(r, snapshot, order) ==
    /\ answer[r] = None
    /\ collection' = ReplaceAll(collection, snapshot, order)
    /\ collection'.head <= MaxSeq
    /\ answer' = [answer EXCEPT ![r] =
            [generation |-> generation, read |-> Read(collection', generation, cursor[r])]]
    /\ UNCHANGED <<generation, cursor, held>>

\* The reader merges the answer and takes over its cursor.
Receive(r) ==
    /\ answer[r] # None
    /\ held' = [held EXCEPT ![r] = Merge(@, answer[r].read)]
    /\ cursor' = [cursor EXCEPT ![r] = Cursor(answer[r].generation, answer[r].read.head)]
    /\ answer' = [answer EXCEPT ![r] = None]
    /\ UNCHANGED <<generation, collection>>

\* The connection is lost before the answer arrives.
Lose(r) ==
    /\ answer[r] # None
    /\ answer' = [answer EXCEPT ![r] = None]
    /\ UNCHANGED <<generation, collection, cursor, held>>

Restart ==
    /\ generation < MaxGeneration
    /\ generation' = generation + 1
    /\ collection' = EmptyCollection
    /\ UNCHANGED <<cursor, held, answer>>

Next ==
    \/ \E id \in Ids, value \in Contents : SequenceUpsert(id, value)
    \/ \E id \in Ids : SequenceRemove(id)
    \/ \E r \in Readers, snapshot \in Snapshots :
            \E order \in Orders(collection, snapshot) : Synchronize(r, snapshot, order)
    \/ \E r \in Readers : Receive(r) \/ Lose(r)
    \/ Restart

Spec == Init /\ [][Next]_vars

-----------------------------------------------------------------------------
\* The state of the service has its type.
TypeOK ==
    /\ generation \in Nat
    /\ collection \in [entry : [Ids -> Entry], expired : Nat, head : Nat]
    /\ \A id \in Ids : WellFormed(collection.entry[id])
    /\ cursor \in [Readers -> {None} \cup [generation : Nat, seq : Nat]]
    /\ held \in [Readers -> Snapshots]
    /\ answer \in [Readers -> {None} \cup [generation : Nat, read : Reads]]

\* The reader's cursor is one this daemon gave out.
Current(r) == cursor[r] # None /\ cursor[r].generation = generation

(***************************************************************************)
(* A reader that has been told of every change (its cursor is at the head) *)
(* holds exactly the collection: no change it was not in time for is lost  *)
(* to it, whether its removal was remembered, forgotten, undone or came    *)
(* from a stale snapshot (VersionedCollection.readAfter and its            *)
(* expiredThroughSeq).                                                     *)
(***************************************************************************)
CaughtUpHoldsAll ==
    \A r \in Readers :
        (Current(r) /\ cursor[r].seq = collection.head) => held[r] = View(collection)

(***************************************************************************)
(* A number is never reused: an entity whose version did not change did    *)
(* not change, so a client may skip what it has seen (the fingerprint test *)
(* of replace and the repeated-removal test of remove), and no two         *)
(* entities share a version.                                               *)
(***************************************************************************)
VersionsIdentify ==
    /\ \A x, y \in Ids :
        (x # y /\ SequenceFor(collection, x) # None) =>
            SequenceFor(collection, x) # SequenceFor(collection, y)
    /\ \A id \in Ids :
        SequenceFor(collection, id) # None => SequenceFor(collection, id) <= collection.head

\* While one daemon runs, versions of an entity only rise, and the same
\* version is the same state.
VersionsOnlyRise ==
    [][generation' = generation =>
        \A id \in Ids :
            \/ collection'.entry[id] = collection.entry[id]
            \/ collection'.entry[id].seq > collection.entry[id].seq
            \/ collection'.entry[id] = Unknown /\ collection'.expired >= collection.entry[id].seq
      ]_vars
=============================================================================
