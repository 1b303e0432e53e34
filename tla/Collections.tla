---------------------------- MODULE Collections ----------------------------
(***************************************************************************)
(* VersionedCollection: the daemon's latest-state sequence over one kind   *)
(* of directory entity (projects, workspaces or agents).  A collection     *)
(* keeps one entry per id it has heard of: the live value with the         *)
(* sequence number of its last change (valuesById), or the number under    *)
(* which it was removed (tombstonesById).  The two maps are disjoint, so   *)
(* one function holds both.  Only the newest MaxTombstones removals are    *)
(* remembered; "expired" is the highest number ever forgotten, and a       *)
(* reader whose cursor lies below it is given everything anew.             *)
(***************************************************************************)
EXTENDS Integers, FiniteSets, FiniteSetsExt

CONSTANTS
    Ids,            \* the entities' ids
    Contents,       \* what an entity's projection can be (its fingerprint)
    None,           \* no value
    MaxTombstones   \* removals remembered (5000 in the code)

ASSUME CollectionsAssumption ==
    /\ IsFiniteSet(Ids)
    /\ None \notin Contents
    /\ MaxTombstones \in Nat

Unknown == [kind |-> "unknown", seq |-> 0, value |-> None]
Live(seq, value) == [kind |-> "live", seq |-> seq, value |-> value]
Removed(seq) == [kind |-> "removed", seq |-> seq, value |-> None]

EmptyCollection ==
    [entry |-> [id \in Ids |-> Unknown], expired |-> 0, head |-> 0]

LiveIds(c) == {id \in Ids : c.entry[id].kind = "live"}
RemovedIds(c) == {id \in Ids : c.entry[id].kind = "removed"}

\* advance: an entry is stored under the next number.
Stored(c, id, entry) ==
    [entry |-> [c.entry EXCEPT ![id] = entry], expired |-> c.expired, head |-> c.head + 1]

\* What a reader of the whole collection sees: a value or None for each id.
View(c) == [id \in Ids |-> c.entry[id].value]

\* The version an update is published under; none for an id the collection
\* has never heard of, or whose tombstone it has already dropped.
SequenceFor(c, id) ==
    IF c.entry[id].kind = "unknown" THEN None ELSE c.entry[id].seq

\* Tombstones are kept in the order of their numbers, oldest first.
Forgotten(c) ==
    {id \in RemovedIds(c) :
        Cardinality({other \in RemovedIds(c) : c.entry[other].seq > c.entry[id].seq})
            >= MaxTombstones}

\* Mutant: what is forgotten is not noted as expired.
TrimTombstonesUnnoted(c) ==
    [c EXCEPT !.entry = [id \in Ids |-> IF id \in Forgotten(c) THEN Unknown ELSE @[id]]]

TrimTombstones(c) ==
    [entry |-> [id \in Ids |-> IF id \in Forgotten(c) THEN Unknown ELSE c.entry[id]],
     expired |-> Max({c.expired} \cup {c.entry[id].seq : id \in Forgotten(c)}),
     head |-> c.head]

\* Mutant: a change takes the number of the one before.
ReplaceUnnumbered(c, id, value) == [c EXCEPT !.entry[id] = Live(c.head, value)]

\* An unchanged projection keeps its number.
Replace(c, id, value) ==
    IF c.entry[id] = Live(c.entry[id].seq, value) THEN c
    ELSE Stored(c, id, Live(c.head + 1, value))

\* Mutant: a removal keeps the number of the value it removes.
RemoveKeepingNumber(c, id) ==
    IF id \notin LiveIds(c) THEN c
    ELSE TrimTombstones([c EXCEPT !.entry[id] = Removed(@.seq)])

\* Neither a removed nor an unknown id can be removed again.
Remove(c, id) ==
    IF id \notin LiveIds(c) THEN c
    ELSE TrimTombstones(Stored(c, id, Removed(c.head + 1)))

\* Mutant: values that did not change are numbered anew.
UpsertsUncompared(c, snapshot) == {id \in Ids : snapshot[id] # None}

\* A snapshot gives every id its value, or None when it is not listed.
Upserts(c, snapshot) == {id \in Ids : snapshot[id] # None /\ snapshot[id] # c.entry[id].value}
Removals(c, snapshot) == {id \in LiveIds(c) : snapshot[id] = None}

\* The orders in which replaceAll can number its changes: first the values
\* that changed, then the ids the snapshot no longer lists.
Orders(c, snapshot) ==
    LET ups == Upserts(c, snapshot)
        removals == Removals(c, snapshot)
    IN  {order \in [ups \cup removals -> 1 .. Cardinality(ups \cup removals)] :
            /\ \A x, y \in ups \cup removals : x # y => order[x] # order[y]
            /\ \A x \in ups, y \in removals : order[x] < order[y]}

\* replaceAll, with every replace and remove of its two loops at once: the
\* removals come last and in rising order, so trimming after each of them
\* forgets what one trim at the end forgets.
ReplaceAll(c, snapshot, order) ==
    LET ups == Upserts(c, snapshot)
        removals == Removals(c, snapshot)
    IN  TrimTombstones(
            [entry |-> [id \in Ids |->
                IF id \in ups THEN Live(c.head + order[id], snapshot[id])
                ELSE IF id \in removals THEN Removed(c.head + order[id])
                ELSE c.entry[id]],
             expired |-> c.expired,
             head |-> c.head + Cardinality(ups \cup removals)])

\* What a read finds: values maps the ids it carries to their values.
ReadSnapshot(c) ==
    [mode |-> "snapshot", head |-> c.head,
     values |-> [id \in LiveIds(c) |-> c.entry[id].value], removals |-> {}]

ReadAfter(c, after) ==
    IF after < c.expired \/ after > c.head THEN ReadSnapshot(c)
    ELSE [mode |-> "changes", head |-> c.head,
          values |-> [id \in {i \in LiveIds(c) : c.entry[i].seq > after} |-> c.entry[id].value],
          removals |-> {id \in RemovedIds(c) : c.entry[id].seq > after}]

\* A cursor names the daemon's generation and the number last applied.
Cursor(generation, seq) == [generation |-> generation, seq |-> seq]

Read(c, generation, cursor) ==
    IF cursor = None THEN ReadSnapshot(c)
    ELSE IF cursor.generation # generation THEN ReadSnapshot(c)
    ELSE ReadAfter(c, cursor.seq)

\* How a client merges an answer into the entities it holds.
Merge(held, read) ==
    [id \in Ids |->
        IF id \in DOMAIN read.values THEN read.values[id]
        ELSE IF read.mode = "snapshot" \/ id \in read.removals THEN None
        ELSE held[id]]

-----------------------------------------------------------------------------
(* What an entry, an answer and a listing are.                               *)

\* Every entry is what Unknown, Live or Removed makes.
Entry == [kind : {"unknown", "live", "removed"}, seq : Nat, value : Contents \cup {None}]

WellFormed(e) ==
    /\ e.kind = "live" <=> e.value # None
    /\ e.kind = "unknown" <=> e.seq = 0

Reads ==
    [mode : {"changes", "snapshot"}, head : Nat, removals : SUBSET Ids,
     values : UNION {[ids -> Contents] : ids \in SUBSET Ids}]

\* A listing, or the entities a client holds: a value or None for each id.
Snapshots == [Ids -> Contents \cup {None}]
=============================================================================
