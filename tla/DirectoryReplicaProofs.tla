------------------------ MODULE DirectoryReplicaProofs ------------------------
(***************************************************************************)
(* Theorems about DirectoryReplica, for any number of workspaces, values,  *)
(* changes and disturbances: the type of its state, that demand is served, *)
(* that a cursor hides nothing and that a settled app shows what is.       *)
(*                                                                         *)
(* The last two rest on one invariant (ReplicaInv).  Controls says what    *)
(* the session, the app and the device have under way together; Numbers,   *)
(* that no update and no cursor is numbered above the collection;          *)
(* Truthful, that what is recorded, read or captured still is so, or that  *)
(* a job will tell; Following, that the row becomes what is, once all that *)
(* is on its way has come; and Honesty, that the cursor hides nothing      *)
(* whenever the app goes by what it holds (Kept).  The steps are sorted by *)
(* what they do to all this first (StepsOfAll).                            *)
(***************************************************************************)
EXTENDS DirectoryReplica, CollectionsProofs

Answers == [kind : {"answer"}, read : Reads, generation : Nat]
Jobs == [at : {"idle", "queued", "read", "removing"}, value : Contents \cup {None}, again : BOOLEAN]
Subs == [on : BOOLEAN, boot : BOOLEAN, pending : Seq(Updates),
         last : [Ids -> Contents \cup {"none", "seeded", "removed"}]]
Listings == [at : {"none", "sent", "received", "captured", "answered"}, cursor : Cursors, values : Rows]
Txns == [at : {"none", "cache", "projects", "listing"}, base : Rows, cursor : Cursors,
         deltas : Seq(Updates), superseding : BOOLEAN]
Refreshes == [on : BOOLEAN, moved : BOOLEAN, doomed : BOOLEAN, cached : BOOLEAN]
Helds == [rows : Rows, cursor : Cursors]

DaemonShape ==
  /\ truth \in Rows /\ generation \in Nat
  /\ collection \in Collection /\ WellNumbered(collection)
  /\ DOMAIN other \subseteq Ids /\ \A id \in DOMAIN other : other[id] \in Contents \cup {None}

SessionShape ==
  /\ job \in [Ids -> Jobs]
  /\ sub \in Subs /\ (sub.boot => sub.on)
  /\ listing \in Listings
  /\ wire \in Seq(Updates \cup Answers)

DemandShape ==
  /\ online \in BOOLEAN /\ demand \subseteq {"full", "route"}
  /\ refresh \in Refreshes /\ satisfied \in BOOLEAN /\ failed \in BOOLEAN

RowShape ==
  /\ load \in {"none", "reading", "done"} /\ touched \in BOOLEAN
  /\ txn \in Txns
  /\ app \in Helds /\ device \in Helds /\ durable \in Helds

BoundShape == changes \in 0 .. MaxChanges /\ faults \in 0 .. MaxFaults

Shape == DaemonShape /\ SessionShape /\ DemandShape /\ RowShape /\ BoundShape

-----------------------------------------------------------------------------
\* What remains of a sequence of updates is each of those that say more, once.
LEMMA ToFlushKeeps ==
    ASSUME NEW pending \in Seq(Updates), NEW listed
    PROVE  LET sent == ToFlush(pending, listed)
           IN  /\ sent \in Seq(Updates)
               /\ \A k \in DOMAIN sent :
                    \E i \in DOMAIN pending : SaysMore(pending[i], listed) /\ sent[k] = pending[i]
               /\ \A i \in DOMAIN pending :
                    SaysMore(pending[i], listed) => \E k \in DOMAIN sent : sent[k] = pending[i]
               /\ (\A i, j \in DOMAIN pending : pending[i].id = pending[j].id => i = j) =>
                    \A k, l \in DOMAIN sent : sent[k].id = sent[l].id => k = l
<1> DEFINE kept == {i \in DOMAIN pending : SaysMore(pending[i], listed)}
           upTo(i) == {j \in kept : j <= i}
           rank(i) == Cardinality(upTo(i))
           n == Cardinality(kept)
           f == [i \in kept |-> rank(i)]
<1>1. /\ kept \subseteq 1 .. Len(pending) /\ Len(pending) \in Nat
      /\ \A i \in kept : i \in Nat /\ pending[i] \in Updates
  <2>1. DOMAIN pending = 1 .. Len(pending) /\ Len(pending) \in Nat
    OBVIOUS
  <2>2. \A i \in DOMAIN pending : pending[i] \in Updates
    OBVIOUS
  <2> QED
    BY <2>1, <2>2
<1>2. IsFiniteSet(kept) /\ n \in Nat
  <2> HIDE DEF kept
  <2>1. IsFiniteSet(1 .. Len(pending))
    BY <1>1, FS_Interval
  <2>2. IsFiniteSet(kept)
    BY <2>1, <1>1, FS_Subset
  <2> QED
    BY <2>2, FS_CardinalityType
<1>d. ToFlush(pending, listed) = [k \in 1 .. n |-> pending[CHOOSE i \in kept : rank(i) = k]]
  BY DEF ToFlush
<1>e. kept \subseteq DOMAIN pending
  OBVIOUS
<1> HIDE DEF kept, n
<1>3. \A i \in kept : i \in upTo(i) /\ upTo(i) \in SUBSET kept /\ IsFiniteSet(upTo(i))
  BY <1>1, <1>2, FS_Subset
<1>4. \A i \in kept : rank(i) \in 1 .. n
  <2>1. TAKE i \in kept
  <2>2. IsFiniteSet(upTo(i)) /\ i \in upTo(i) /\ upTo(i) \in SUBSET kept
    BY <1>3
  <2> HIDE DEF upTo
  <2>3. rank(i) \in Nat
    BY <2>2, FS_CardinalityType
  <2>4. rank(i) <= n
    BY <2>2, <1>2, FS_Subset DEF n
  <2>5. rank(i) # 0
    BY <2>2, FS_EmptySet
  <2> HIDE DEF rank
  <2> QED
    BY <2>3, <2>4, <2>5, <1>2
<1>5. ASSUME NEW i \in kept, NEW j \in kept, i < j
      PROVE  rank(i) # rank(j)
  <2>0. \A x \in kept : x \in Nat
    BY <1>1
  <2>1. upTo(i) \in SUBSET upTo(j) /\ j \in upTo(j) /\ j \notin upTo(i)
    BY <2>0, <1>5
  <2>2. IsFiniteSet(upTo(j))
    BY <1>3
  <2> HIDE DEF upTo
  <2> QED
    BY <2>1, <2>2, FS_Subset
<1>6. \A i, j \in kept : rank(i) = rank(j) => i = j
  <2>1. SUFFICES ASSUME NEW i \in kept, NEW j \in kept, i # j PROVE rank(i) # rank(j)
    OBVIOUS
  <2>2. i < j \/ j < i
    BY <2>1, <1>1
  <2> HIDE DEF rank
  <2> QED
    BY <2>2, <1>5
<1>7. f \in Surjection(kept, 1 .. n)
  <2>1. IsFiniteSet(1 .. n) /\ Cardinality(1 .. n) = n
    BY <1>2, FS_Interval
  <2>2. f \in Injection(kept, 1 .. n)
    <3> HIDE DEF rank
    <3> QED
      BY <1>4, <1>6 DEF Injection, IsInjective
  <2> HIDE DEF f
  <2> QED
    BY <2>1, <2>2, <1>2, FS_Injection DEF n
<1>8. ASSUME NEW k \in 1 .. n
      PROVE  /\ (CHOOSE i \in kept : rank(i) = k) \in kept
             /\ rank(CHOOSE i \in kept : rank(i) = k) = k
  <2>1. \E i \in kept : rank(i) = k
    <3> HIDE DEF rank
    <3> QED
      BY <1>7 DEF Surjection
  <2> HIDE DEF rank
  <2> QED
    BY <2>1
<1> DEFINE at(k) == CHOOSE i \in kept : rank(i) = k
           flushed == [k \in 1 .. n |-> pending[at(k)]]
<1>9. \A k \in 1 .. n : at(k) \in kept /\ rank(at(k)) = k
  BY <1>8
<1>10. ToFlush(pending, listed) = flushed
  BY <1>d
<1>m. \A i \in kept : SaysMore(pending[i], listed)
  BY DEF kept
<1>k. \A i \in DOMAIN pending : SaysMore(pending[i], listed) => i \in kept
  BY DEF kept
<1> HIDE DEF at, rank
<1>11. flushed \in Seq(Updates)
  <2>1. \A k \in 1 .. n : pending[at(k)] \in Updates
    BY <1>1, <1>9
  <2>2. flushed \in [1 .. n -> Updates]
    BY <2>1
  <2> HIDE DEF flushed
  <2> QED
    BY <2>2, <1>2
<1>12. \A k \in DOMAIN flushed :
         \E i \in DOMAIN pending : SaysMore(pending[i], listed) /\ flushed[k] = pending[i]
  BY <1>e, <1>9, <1>m
<1>13. ASSUME NEW i \in kept
       PROVE  \E k \in DOMAIN flushed : flushed[k] = pending[i]
  <2>1. at(rank(i)) = i
    BY <1>4, <1>6, <1>9
  <2> QED
    BY <1>4, <2>1
<1>14. ASSUME \A i, j \in DOMAIN pending : pending[i].id = pending[j].id => i = j,
              NEW k \in DOMAIN flushed, NEW l \in DOMAIN flushed, flushed[k].id = flushed[l].id
       PROVE  k = l
  <2>1. k \in 1 .. n /\ l \in 1 .. n /\ pending[at(k)].id = pending[at(l)].id
    BY <1>14
  <2>2. at(k) = at(l)
    BY <2>1, <1>14, <1>9, <1>e
  <2> QED
    BY <2>1, <2>2, <1>9
<1> HIDE DEF flushed
<1> QED
  BY <1>10, <1>11, <1>12, <1>13, <1>14, <1>k

LEMMA ToFlushType ==
    ASSUME NEW pending \in Seq(Updates), NEW listed
    PROVE  /\ ToFlush(pending, listed) \in Seq(Updates)
           /\ \A k \in DOMAIN ToFlush(pending, listed) :
                \E i \in DOMAIN pending : ToFlush(pending, listed)[k] = pending[i]
BY ToFlushKeeps

\* A buffered update is one of the pending, which stay updates.
LEMMA BufferedType ==
    ASSUME NEW pending \in Seq(Updates), NEW update \in Updates
    PROVE  Buffered(pending, update) \in Seq(Updates)
<1> DEFINE at == {i \in DOMAIN pending : pending[i].id = update.id}
<1>1. CASE at = {}
  BY <1>1 DEF Buffered
<1>2. CASE at # {}
  <2> DEFINE t == [i \in DOMAIN pending |-> IF i \in at THEN update ELSE pending[i]]
  <2>1. Buffered(pending, update) = t
    BY <1>2 DEF Buffered
  <2>2. DOMAIN pending = 1 .. Len(pending) /\ Len(pending) \in Nat
    OBVIOUS
  <2>3. \A i \in DOMAIN pending : pending[i] \in Updates
    OBVIOUS
  <2> HIDE DEF at
  <2>4. t \in [1 .. Len(pending) -> Updates]
    BY <2>2, <2>3
  <2> HIDE DEF t
  <2>5. t \in Seq(Updates)
    BY <2>2, <2>4
  <2> QED
    BY <2>1, <2>5
<1> QED
  BY <1>1, <1>2

\* What remains of recorded updates of a workspace is the last of them.
LEMMA LastDelta ==
    ASSUME NEW deltas \in Seq(Updates), NEW id,
           NEW of, of = {i \in DOMAIN deltas : deltas[i].id = id}, of # {}
    PROVE  Max(of) \in of /\ (\A i \in of : Max(of) >= i) /\ deltas[Max(of)] \in Updates
<1>1. of \in SUBSET (0 .. Len(deltas)) /\ Len(deltas) \in Nat /\ of \subseteq DOMAIN deltas
  OBVIOUS
<1>2. Max(of) \in of /\ \A i \in of : Max(of) >= i
  BY <1>1, MaxExists
<1>3. \A i \in DOMAIN deltas : deltas[i] \in Updates
  OBVIOUS
<1>4. deltas[Max(of)] \in Updates
  BY <1>1, <1>2, <1>3
<1> QED
  BY <1>2, <1>4

\* Rows with recorded updates are rows.
LEMMA WithDeltasType ==
    ASSUME NEW rows \in Rows, NEW deltas \in Seq(Updates)
    PROVE  WithDeltas(rows, deltas) \in Rows
<1>1. ASSUME NEW id \in Ids
      PROVE  (LET of == {i \in DOMAIN deltas : deltas[i].id = id}
              IN  IF of = {} THEN rows[id] ELSE deltas[Max(of)].value) \in Contents \cup {None}
  <2> DEFINE of == {i \in DOMAIN deltas : deltas[i].id = id}
  <2>1. CASE of = {}
    BY <2>1 DEF Rows
  <2>2. CASE of # {}
    <3>1. deltas[Max(of)] \in Updates
      BY <2>2, LastDelta
    <3> HIDE DEF of
    <3>2. deltas[Max(of)].value \in Contents \cup {None}
      BY <3>1 DEF Updates
    <3> QED
      BY <2>2, <3>2 DEF of
  <2> QED
    BY <2>1, <2>2
<1> QED
  BY <1>1 DEF WithDeltas, Rows

\* A cursor that moves is a cursor.
LEMMA NotedType ==
    ASSUME NEW cursor \in Cursors, NEW update \in Updates, generation \in Nat
    PROVE  Noted(cursor, update) \in Cursors
BY DEF Noted, WriteCursor, Cursor, Cursors, Updates

LEMMA WriteCursorType ==
    ASSUME NEW cursor \in Cursors, NEW new \in Cursors
    PROVE  WriteCursor(cursor, new) \in Cursors
BY DEF WriteCursor

\* Of numbered updates one has the highest number.
LEMMA HighestDelta ==
    ASSUME NEW deltas \in Seq(Updates),
           NEW numbered, numbered = {i \in DOMAIN deltas : deltas[i].seq # None}, numbered # {}
    PROVE  \E i \in numbered : \A j \in numbered : deltas[i].seq >= deltas[j].seq
<1> DEFINE f == [i \in numbered |-> deltas[i].seq]
<1>1. numbered \in SUBSET (1 .. Len(deltas)) /\ Len(deltas) \in Nat
  OBVIOUS
<1>2. IsFiniteSet(numbered)
  <2>1. IsFiniteSet(1 .. Len(deltas))
    BY <1>1, FS_Interval
  <2> QED
    BY <1>1, <2>1, FS_Subset
<1>3. \A i \in numbered : deltas[i].seq \in Nat
  <2>1. \A i \in numbered : deltas[i] \in Updates
    OBVIOUS
  <2> QED
    BY <2>1 DEF Updates
<1>4. f \in [numbered -> Nat]
  BY <1>3
<1>5. \E i \in numbered : \A j \in numbered : f[i] >= f[j]
  <2> HIDE DEF f
  <2> QED
    BY <1>2, <1>4, LargestExists
<1> QED
  BY <1>5

LEMMA NotedAllType ==
    ASSUME NEW cursor \in Cursors, NEW deltas \in Seq(Updates), generation \in Nat
    PROVE  NotedAll(cursor, deltas) \in Cursors
<1> DEFINE numbered == {i \in DOMAIN deltas : deltas[i].seq # None}
           top == CHOOSE i \in numbered : \A j \in numbered : deltas[i].seq >= deltas[j].seq
<1>1. CASE numbered = {}
  BY <1>1 DEF NotedAll
<1>2. CASE numbered # {}
  <2>1. \E i \in numbered : \A j \in numbered : deltas[i].seq >= deltas[j].seq
    BY <1>2, HighestDelta
  <2>2. numbered \subseteq DOMAIN deltas
    OBVIOUS
  <2>3. NotedAll(cursor, deltas) = Noted(cursor, deltas[top])
    BY <1>2 DEF NotedAll
  <2> HIDE DEF numbered
  <2>4. top \in numbered
    BY <2>1
  <2> HIDE DEF top
  <2>5. deltas[top] \in Updates
    BY <2>2, <2>4
  <2> QED
    BY <2>3, <2>5, NotedType
<1> QED
  BY <1>1, <1>2

-----------------------------------------------------------------------------
(* The type of the state.                                                    *)

LEMMA Blank ==
    /\ NoRows \in Rows /\ NoJob \in Jobs /\ NoSub \in Subs /\ NoListing \in Listings
    /\ NoTxn \in Txns /\ NoRefresh \in Refreshes
    /\ Held(NoRows, None) \in Helds
    /\ EmptyCollection \in Collection /\ WellNumbered(EmptyCollection)
<1>1. NoRows \in Rows
  BY DEF NoRows, Rows
<1>2. None \in Cursors /\ <<>> \in Seq(Updates)
  BY DEF Cursors
<1>3. NoTxn \in Txns /\ NoListing \in Listings /\ Held(NoRows, None) \in Helds
  BY <1>1, <1>2 DEF NoTxn, Txns, NoListing, Listings, Held, Helds
<1>4. NoSub \in Subs
  BY <1>2 DEF NoSub, Subs
<1>5. NoJob \in Jobs /\ NoRefresh \in Refreshes
  BY DEF NoJob, Jobs, NoRefresh, Refreshes
<1>6. Unknown \in Entry /\ WellFormed(Unknown) /\ Unknown.seq = 0
  BY CollectionsAssumption DEF Unknown, Entry, WellFormed
<1>7. EmptyCollection \in Collection /\ WellNumbered(EmptyCollection)
  BY <1>6 DEF EmptyCollection, Collection, WellNumbered
<1> QED
  BY <1>1, <1>3, <1>4, <1>5, <1>7

LEMMA UnsubscribedShape ==
    ASSUME Unsubscribed
    PROVE  SessionShape'
BY Blank DEF Unsubscribed, SessionShape, NoSub

LEMMA GivenUpShape ==
    ASSUME RowShape, GivenUp
    PROVE  txn' \in Txns /\ app' \in Helds /\ device' \in Helds
<1>1. txn \in Txns /\ app \in Helds /\ device \in Helds
  BY DEF RowShape
<1>2. /\ txn.deltas \in Seq(Updates) /\ app.rows \in Rows /\ device.rows \in Rows
      /\ app.cursor \in Cursors /\ device.cursor \in Cursors
  BY <1>1 DEF Txns, Helds
<1>3. WithDeltas(app.rows, txn.deltas) \in Rows /\ WithDeltas(device.rows, txn.deltas) \in Rows
  BY <1>2, WithDeltasType
<1>4. app' = Held(WithDeltas(app.rows, txn.deltas), app.cursor)
  BY DEF GivenUp
<1>5. device' = [device EXCEPT !.rows = WithDeltas(device.rows, txn.deltas)]
  BY DEF GivenUp
<1>6. txn' = NoTxn
  BY DEF GivenUp
<1> QED
  BY <1>1, <1>2, <1>3, <1>4, <1>5, <1>6, Blank DEF Held, Helds

LEMMA BegunType ==
    ASSUME RowShape
    PROVE  Begun \in Txns
<1>1. txn \in Txns /\ app.rows \in Rows /\ app.cursor \in Cursors
  BY DEF RowShape, Helds
<1> QED
  BY <1>1 DEF Begun, Txns

LEMMA StartsShape ==
    ASSUME RowShape, NEW who, Starts(who)
    PROVE  txn' \in Txns /\ refresh' \in Refreshes /\ failed' \in BOOLEAN
<1>1. txn \in Txns /\ Begun \in Txns
  BY BegunType DEF RowShape
<1>2. [txn EXCEPT !.at = "cache"] \in Txns
  BY <1>1 DEF Txns
<1>3. [NoRefresh EXCEPT !.on = TRUE, !.cached = "full" \in who] \in Refreshes
  <2> DEFINE full == "full" \in who
  <2>1. full \in BOOLEAN
    OBVIOUS
  <2> HIDE DEF full
  <2>2. [NoRefresh EXCEPT !.on = TRUE, !.cached = full] \in Refreshes
    BY <2>1 DEF NoRefresh, Refreshes
  <2> QED
    BY <2>2 DEF full
<1> QED
  BY <1>1, <1>2, <1>3 DEF Starts

LEMMA BufferOrEmitShape ==
    ASSUME sub \in Subs, sub.boot => sub.on, wire \in Seq(Updates \cup Answers),
           NEW update \in Updates, BufferOrEmit(sub, update)
    PROVE  sub' \in Subs /\ (sub.boot => sub.on)' /\ wire' \in Seq(Updates \cup Answers)
<1>1. CASE ~ sub.on
  BY <1>1 DEF BufferOrEmit
<1>2. CASE sub.on /\ sub.boot
  <2>1. sub' = [sub EXCEPT !.pending = Buffered(sub.pending, update)] /\ wire' = wire
    BY <1>2 DEF BufferOrEmit
  <2>2. Buffered(sub.pending, update) \in Seq(Updates)
    BY BufferedType DEF Subs
  <2> QED
    BY <1>2, <2>1, <2>2 DEF Subs
<1>3. CASE sub.on /\ ~ sub.boot
  <2>1. sub' = [sub EXCEPT !.last[update.id] = LastOf(update)] /\ wire' = Append(wire, update)
    BY <1>3 DEF BufferOrEmit
  <2>2. LastOf(update) \in Contents \cup {"none", "seeded", "removed"}
    BY DEF LastOf, Updates
  <2>3. sub' \in Subs
    BY <2>1, <2>2 DEF Subs
  <2>4. (sub.boot => sub.on)'
    BY <1>3, <2>1 DEF Subs
  <2>5. wire' \in Seq(Updates \cup Answers)
    BY <2>1
  <2> QED
    BY <2>3, <2>4, <2>5
<1> QED
  BY <1>1, <1>2, <1>3

\* What is numbered next is an update.
LEMMA UpdateType ==
    ASSUME NEW c \in Collection, NEW id \in Ids, NEW value \in Contents \cup {None}
    PROVE  Update(id, value, SequenceFor(c, id)) \in Updates
<1>1. c.entry[id] \in Entry
  BY DEF Collection
<1>2. SequenceFor(c, id) \in Nat \cup {None}
  BY <1>1 DEF SequenceFor, Entry
<1> QED
  BY <1>2 DEF Update, Updates

LEMMA QueuedType ==
    ASSUME NEW j \in Jobs
    PROVE  Queued(j) \in Jobs /\ Finished(j) \in Jobs
BY DEF Queued, Finished, NoJob, Jobs

LEMMA PersistedType ==
    ASSUME device \in Helds, NEW held \in Helds, NEW ids
    PROVE  Persisted(ids, held) \in Helds
<1>1. device.rows \in Rows /\ held.rows \in Rows /\ held.cursor \in Cursors
  BY DEF Helds
<1>2. [id \in Ids |-> IF id \in ids THEN held.rows[id] ELSE device.rows[id]] \in Rows
  BY <1>1 DEF Rows
<1> QED
  BY <1>1, <1>2 DEF Persisted, Held, Helds

LEMMA InitShape == Init => Shape
<1> SUFFICES ASSUME Init PROVE Shape
  OBVIOUS
<1>1. DaemonShape
  BY Blank DEF Init, DaemonShape, Rows
<1>2. SessionShape
  BY Blank DEF Init, SessionShape, NoSub
<1>3. DemandShape
  BY Blank DEF Init, DemandShape
<1>4. RowShape
  BY Blank DEF Init, RowShape
<1>5. BoundShape
  BY ReplicaAssumption DEF Init, BoundShape
<1> QED
  BY <1>1, <1>2, <1>3, <1>4, <1>5 DEF Shape

\* The steps of the session.
LEMMA SessionSteps ==
    ASSUME Shape, Session
    PROVE  Shape'
<1>0. DaemonShape /\ SessionShape /\ DemandShape /\ RowShape /\ BoundShape
  BY DEF Shape
<1>j. \A id \in Ids : job[id] \in Jobs
  BY <1>0 DEF SessionShape
<1>u. UNCHANGED <<demandVars, rowVars, changes, faults>> => DemandShape' /\ RowShape' /\ BoundShape'
  BY <1>0 DEF demandVars, rowVars, DemandShape, RowShape, BoundShape
<1>1. ASSUME NEW id \in Ids, JobReads(id)
      PROVE  Shape'
  <2>1. truth[id] \in Contents \cup {None}
    BY <1>0 DEF DaemonShape, Rows
  <2>2. job' = [job EXCEPT ![id] = [job[id] EXCEPT !.at = "read", !.value = truth[id]]]
    BY <1>1 DEF JobReads
  <2>3. [job[id] EXCEPT !.at = "read", !.value = truth[id]] \in Jobs
    BY <2>1, <1>j DEF Jobs
  <2>4. job' \in [Ids -> Jobs]
    BY <2>2, <2>3, <1>0 DEF SessionShape
  <2>5. SessionShape'
    BY <1>1, <2>4, <1>0 DEF JobReads, SessionShape
  <2>6. DaemonShape'
    BY <1>1, <1>0 DEF JobReads, daemonVars, DaemonShape
  <2> QED
    BY <1>1, <1>u, <2>5, <2>6 DEF JobReads, Shape
<1>2. ASSUME NEW id \in Ids, JobUpserts(id)
      PROVE  Shape'
  <2>1. job[id].value \in Contents
    BY <1>2, <1>j DEF JobUpserts, Jobs
  <2>2. collection' \in Collection /\ WellNumbered(collection')
    BY <1>0, <2>1, <1>2, ReplaceLemma DEF JobUpserts, DaemonShape, Advances
  <2>3. DaemonShape'
    BY <1>2, <1>0, <2>2 DEF JobUpserts, DaemonShape
  <2>4. job' \in [Ids -> Jobs]
    <3>1. Finished(job[id]) \in Jobs /\ job' = [job EXCEPT ![id] = Finished(job[id])]
      BY <1>2, <1>j, QueuedType DEF JobUpserts
    <3> QED
      BY <3>1, <1>0 DEF SessionShape
  <2> DEFINE update == Update(id, job[id].value, SequenceFor(collection', id))
  <2>5. update \in Updates
    BY <2>1, <2>2, UpdateType
  <2>6. (sub' = sub /\ wire' = wire) \/ BufferOrEmit(sub, update)
    BY <1>2 DEF JobUpserts
  <2> HIDE DEF update
  <2>7. sub' \in Subs /\ (sub.boot => sub.on)' /\ wire' \in Seq(Updates \cup Answers)
    BY <2>5, <2>6, <1>0, BufferOrEmitShape DEF SessionShape
  <2>8. SessionShape'
    BY <1>2, <2>4, <2>7, <1>0 DEF JobUpserts, SessionShape
  <2> QED
    BY <1>2, <1>u, <2>3, <2>8 DEF JobUpserts, Shape
<1>3. ASSUME NEW id \in Ids, JobFindsGone(id)
      PROVE  Shape'
  <2>1. Finished(job[id]) \in Jobs /\ [job[id] EXCEPT !.at = "removing"] \in Jobs
    BY <1>j, QueuedType DEF Jobs
  <2>2. job' \in [Ids -> Jobs]
    BY <1>3, <2>1, <1>0 DEF JobFindsGone, SessionShape
  <2>3. sub' \in Subs /\ (sub.boot => sub.on)'
    BY <1>3, <1>0, SMTT(30) DEF JobFindsGone, SessionShape, Subs
  <2>4. SessionShape'
    BY <1>3, <2>2, <2>3, <1>0 DEF JobFindsGone, SessionShape
  <2>5. DaemonShape'
    BY <1>3, <1>0 DEF JobFindsGone, daemonVars, DaemonShape
  <2> QED
    BY <1>3, <1>u, <2>4, <2>5 DEF JobFindsGone, Shape
<1>4. ASSUME NEW id \in Ids, JobRemoves(id)
      PROVE  Shape'
  <2>2. collection' \in Collection /\ WellNumbered(collection')
    BY <1>0, <1>4, RemoveLemma DEF JobRemoves, DaemonShape, Advances
  <2>3. DaemonShape'
    BY <1>4, <1>0, <2>2 DEF JobRemoves, DaemonShape
  <2>4. job' \in [Ids -> Jobs]
    <3>1. Finished(job[id]) \in Jobs /\ job' = [job EXCEPT ![id] = Finished(job[id])]
      BY <1>4, <1>j, QueuedType DEF JobRemoves
    <3> QED
      BY <3>1, <1>0 DEF SessionShape
  <2> DEFINE update == Update(id, None, SequenceFor(collection', id))
  <2>5. update \in Updates
    BY <2>2, UpdateType
  <2>6. BufferOrEmit(sub, update)
    BY <1>4 DEF JobRemoves
  <2> HIDE DEF update
  <2>7. sub' \in Subs /\ (sub.boot => sub.on)' /\ wire' \in Seq(Updates \cup Answers)
    BY <2>5, <2>6, <1>0, BufferOrEmitShape DEF SessionShape
  <2>8. SessionShape'
    BY <1>4, <2>4, <2>7, <1>0 DEF JobRemoves, SessionShape
  <2> QED
    BY <1>4, <1>u, <2>3, <2>8 DEF JobRemoves, Shape
<1>5. CASE ListingArrives
  <2>1. listing' \in Listings
    BY <1>5, <1>0 DEF ListingArrives, SessionShape, Listings
  <2>2. sub' \in Subs /\ (sub.boot => sub.on)'
    BY <1>5, Blank DEF ListingArrives, Subs
  <2>3. SessionShape'
    BY <1>5, <2>1, <2>2, <1>0 DEF ListingArrives, SessionShape
  <2>4. DaemonShape'
    BY <1>5, <1>0 DEF ListingArrives, daemonVars, DaemonShape
  <2> QED
    BY <1>5, <1>u, <2>3, <2>4 DEF ListingArrives, Shape
<1>6. CASE ListingCaptures
  <2>1. listing' \in Listings
    BY <1>6, <1>0 DEF ListingCaptures, SessionShape, DaemonShape, Listings
  <2>3. SessionShape'
    BY <1>6, <2>1, <1>0 DEF ListingCaptures, SessionShape
  <2>4. DaemonShape'
    BY <1>6, <1>0 DEF ListingCaptures, daemonVars, DaemonShape
  <2> QED
    BY <1>6, <1>u, <2>3, <2>4 DEF ListingCaptures, Shape
<1>7. CASE ListingAnswers
  <2>1. listing.values \in Snapshots /\ listing.cursor \in Cursors
    BY <1>0 DEF SessionShape, Listings, Rows, Snapshots
  <2>2. PICK order \in Orders(collection, listing.values) :
            collection' = ReplaceAll(collection, listing.values, order)
    BY <1>7 DEF ListingAnswers
  <2>3. collection' \in Collection /\ WellNumbered(collection')
    BY <1>0, <2>1, <2>2, ReplaceAllLemma DEF DaemonShape, Advances
  <2>4. DaemonShape'
    BY <1>7, <1>0, <2>3 DEF ListingAnswers, DaemonShape
  <2> DEFINE read == Read(collection', generation, listing.cursor)
             answer == [kind |-> "answer", read |-> read, generation |-> generation]
             named == [id \in Ids |-> IF id \in DOMAIN read.values THEN read.values[id] ELSE None]
             last == [id \in Ids |-> IF id \in DOMAIN read.values THEN "seeded" ELSE sub.last[id]]
  <2>5. read \in Reads
    BY <2>1, <2>3, <1>0, ReadType DEF DaemonShape, Cursors
  <2>6. /\ wire' = Append(wire, answer)
        /\ sub' = [sub EXCEPT !.last = last]
        /\ listing' = [listing EXCEPT !.at = "answered", !.values = named]
        /\ job' = job
    BY <1>7 DEF ListingAnswers
  <2> HIDE DEF read
  <2>7. named \in Rows
    <3>1. PICK ids \in SUBSET Ids : read.values \in [ids -> Contents]
      BY <2>5 DEF Reads
    <3> QED
      BY <3>1 DEF Rows
  <2>8. last \in [Ids -> Contents \cup {"none", "seeded", "removed"}]
    BY <1>0 DEF SessionShape, Subs
  <2>9. answer \in Answers
    BY <2>5, <1>0 DEF Answers, DaemonShape
  <2> HIDE DEF named, last, answer
  <2>10. sub' \in Subs /\ (sub.boot => sub.on)'
    BY <2>6, <2>8, <1>0 DEF SessionShape, Subs
  <2>11. listing' \in Listings
    BY <2>6, <2>7, <1>0 DEF SessionShape, Listings
  <2>12. wire' \in Seq(Updates \cup Answers)
    BY <2>6, <2>9, <1>0 DEF SessionShape
  <2>13. SessionShape'
    BY <2>6, <2>10, <2>11, <2>12, <1>0 DEF SessionShape
  <2> QED
    BY <1>7, <1>u, <2>4, <2>13 DEF ListingAnswers, Shape
<1>8. CASE ListingFlushes
  <2> DEFINE sent == ToFlush(sub.pending, listing.values)
             last == [id \in Ids |->
                IF \E i \in DOMAIN sent : sent[i].id = id
                THEN LastOf(sent[CHOOSE i \in DOMAIN sent : sent[i].id = id]) ELSE sub.last[id]]
  <2>1. sent \in Seq(Updates)
    BY <1>0, ToFlushType DEF SessionShape, Subs
  <2>2. /\ wire' = wire \o sent
        /\ sub' = [sub EXCEPT !.boot = FALSE, !.pending = <<>>, !.last = last]
        /\ listing' = NoListing /\ job' = job
    BY <1>8 DEF ListingFlushes
  <2> HIDE DEF sent
  <2>3. ASSUME NEW id \in Ids
        PROVE  last[id] \in Contents \cup {"none", "seeded", "removed"}
    <3>1. CASE \E i \in DOMAIN sent : sent[i].id = id
      <4> DEFINE at == CHOOSE i \in DOMAIN sent : sent[i].id = id
      <4>1. at \in DOMAIN sent
        BY <3>1
      <4>2. last[id] = LastOf(sent[at])
        BY <3>1
      <4> HIDE DEF at
      <4>3. sent[at] \in Updates
        BY <4>1, <2>1
      <4> HIDE DEF last
      <4> QED
        BY <4>2, <4>3 DEF LastOf, Updates
    <3>2. CASE ~ \E i \in DOMAIN sent : sent[i].id = id
      BY <3>2, <1>0 DEF SessionShape, Subs
    <3> QED
      BY <3>1, <3>2
  <2>4. last \in [Ids -> Contents \cup {"none", "seeded", "removed"}]
    BY <2>3
  <2> HIDE DEF last
  <2>5. sub' \in Subs /\ (sub.boot => sub.on)'
    <3>1. <<>> \in Seq(Updates) /\ sub \in Subs
      BY <1>0 DEF SessionShape
    <3> QED
      BY <3>1, <2>2, <2>4 DEF Subs
  <2>6. wire' \in Seq(Updates \cup Answers)
    <3>1. sent \in Seq(Updates \cup Answers)
      BY <2>1
    <3> QED
      BY <3>1, <2>2, <1>0 DEF SessionShape
  <2>7. SessionShape'
    BY <2>2, <2>5, <2>6, <1>0, Blank DEF SessionShape
  <2>8. DaemonShape'
    BY <1>8, <1>0 DEF ListingFlushes, daemonVars, DaemonShape
  <2> QED
    BY <1>8, <1>u, <2>7, <2>8 DEF ListingFlushes, Shape
<1> QED
  BY <1>1, <1>2, <1>3, <1>4, <1>5, <1>6, <1>7, <1>8 DEF Session

\* The steps of the app.
LEMMA AppSteps ==
    ASSUME Shape, App
    PROVE  Shape'
<1>0. DaemonShape /\ SessionShape /\ DemandShape /\ RowShape /\ BoundShape
  BY DEF Shape
<1>d. UNCHANGED daemonVars => DaemonShape'
  BY <1>0 DEF daemonVars, DaemonShape
<1>s. UNCHANGED sessionVars => SessionShape'
  BY <1>0 DEF sessionVars, SessionShape
<1>f. ASSUME NEW kind, Disturbed(kind), changes' = changes
      PROVE  BoundShape'
  BY <1>f, <1>0, ReplicaAssumption DEF Disturbed, BoundShape
<1>g. UNCHANGED <<changes, faults>> => BoundShape'
  BY <1>0 DEF BoundShape
<1>w. ASSUME wire # <<>>, wire' = Tail(wire), UNCHANGED <<job, sub, listing>>
      PROVE  SessionShape'
  BY <1>w, <1>0 DEF SessionShape
<1>1. ASSUME NEW who \in {"full", "route"}, Demand(who)
      PROVE  Shape'
  <2>1. txn' \in Txns /\ refresh' \in Refreshes /\ failed' \in BOOLEAN
    <3>1. CASE Starts(demand')
      BY <3>1, <1>0, StartsShape
    <3>2. CASE StartsNot
      BY <3>2, <1>0 DEF StartsNot, RowShape, DemandShape
    <3> QED
      BY <1>1, <3>1, <3>2 DEF Demand
  <2>2. DemandShape'
    BY <1>1, <2>1, <1>0 DEF Demand, DemandShape
  <2>3. RowShape'
    BY <1>1, <2>1, <1>0 DEF Demand, RowShape
  <2> QED
    BY <1>1, <2>2, <2>3, <1>d, <1>s, <1>g DEF Demand, Shape
<1>2. ASSUME NEW who \in {"full", "route"}, Drop(who)
      PROVE  Shape'
  <2>1. SessionShape'
    BY <1>2, <1>s, UnsubscribedShape DEF Drop
  <2>2. refresh' \in Refreshes /\ satisfied' \in BOOLEAN
    BY <1>2, <1>0 DEF Drop, DemandShape, Refreshes
  <2>3. DemandShape'
    BY <1>2, <2>2, <1>0 DEF Drop, DemandShape
  <2>4. txn' \in Txns /\ app' \in Helds /\ device' \in Helds
    <3>1. GivenUp \/ UNCHANGED <<txn, app, device>>
      BY <1>2 DEF Drop
    <3> QED
      BY <3>1, <1>0, GivenUpShape DEF RowShape
  <2>5. RowShape'
    BY <1>2, <2>4, <1>0 DEF Drop, RowShape
  <2> QED
    BY <1>2, <2>1, <2>3, <2>5, <1>d, <1>f DEF Drop, Shape
<1>3. CASE Connect
  <2>1. txn' \in Txns /\ refresh' \in Refreshes /\ failed' \in BOOLEAN
    <3>1. CASE Starts(demand)
      BY <3>1, <1>0, StartsShape
    <3>2. CASE StartsNot
      BY <3>2, <1>0 DEF StartsNot, RowShape, DemandShape
    <3> QED
      BY <1>3, <3>1, <3>2 DEF Connect
  <2>2. DemandShape'
    BY <1>3, <2>1, <1>0 DEF Connect, DemandShape
  <2>3. RowShape'
    BY <1>3, <2>1, <1>0 DEF Connect, RowShape
  <2> QED
    BY <1>3, <2>2, <2>3, <1>d, <1>s, <1>g DEF Connect, Shape
<1>4. CASE ForceRefresh
  <2>1. txn' \in Txns /\ refresh' \in Refreshes /\ failed' \in BOOLEAN
    BY <1>4, <1>0, StartsShape DEF ForceRefresh
  <2>2. DemandShape'
    BY <1>4, <2>1, <1>0 DEF ForceRefresh, DemandShape
  <2>3. RowShape'
    BY <1>4, <2>1, <1>0 DEF ForceRefresh, RowShape
  <2> QED
    BY <1>4, <2>2, <2>3, <1>d, <1>s, <1>f DEF ForceRefresh, Shape
<1>v. UNCHANGED demandVars => DemandShape'
  BY <1>0 DEF demandVars, DemandShape
<1>5. CASE ReadDevice
  <2>1. RowShape'
    BY <1>5, <1>0 DEF ReadDevice, RowShape
  <2> QED
    BY <1>5, <2>1, <1>d, <1>s, <1>v, <1>g DEF ReadDevice, Shape
<1>6. CASE DeviceRead
  <2>1. app' \in Helds
    <3>1. app.rows \in Rows /\ device.rows \in Rows /\ app.cursor \in Cursors /\ device.cursor \in Cursors
      BY <1>0 DEF RowShape, Helds
    <3>2. [id \in Ids |-> IF app.rows[id] # None THEN app.rows[id] ELSE device.rows[id]] \in Rows
      BY <3>1 DEF Rows
    <3> QED
      BY <1>6, <3>1, <3>2 DEF DeviceRead, Held, Helds
  <2>2. RowShape'
    BY <1>6, <2>1, <1>0 DEF DeviceRead, RowShape
  <2> QED
    BY <1>6, <2>2, <1>d, <1>s, <1>v, <1>g DEF DeviceRead, Shape
<1>7. CASE BeginsAfterCache
  <2>1. RowShape'
    BY <1>7, <1>0, BegunType, Blank DEF BeginsAfterCache, RowShape
  <2> QED
    BY <1>7, <2>1, <1>d, <1>s, <1>v, <1>g DEF BeginsAfterCache, Shape
<1>8. CASE AsksForListing
  <2>1. txn' \in Txns
    BY <1>8, <1>0 DEF AsksForListing, RowShape, Txns
  <2>2. RowShape'
    BY <1>8, <2>1, <1>0 DEF AsksForListing, RowShape
  <2>3. listing' \in Listings
    <3>1. txn.cursor \in Cursors
      BY <1>0 DEF RowShape, Txns
    <3> QED
      BY <1>8, <3>1, Blank DEF AsksForListing, Listings
  <2>4. SessionShape'
    BY <1>8, <2>3, Blank DEF AsksForListing, SessionShape, NoSub
  <2> QED
    BY <1>8, <2>2, <2>4, <1>d, <1>v, <1>g DEF AsksForListing, Shape
<1>h. ASSUME wire # <<>>
      PROVE  Head(wire) \in Updates \cup Answers
  BY <1>h, <1>0 DEF SessionShape
<1>9. CASE ReceiveAnswer
  <2>1. SessionShape'
    BY <1>9, <1>w DEF ReceiveAnswer
  <2>2. RowShape'
    <3>1. CASE txn.at # "listing"
      BY <1>9, <3>1, <1>0 DEF ReceiveAnswer, RowShape
    <3>2. CASE txn.at = "listing"
      <4> DEFINE read == Head(wire).read
                 rows == Completed(read)
                 new == Cursor(Head(wire).generation, read.head)
                 cursor == WriteCursor(app.cursor, new)
      <4>1. Head(wire) \in Answers
        BY <1>9, <1>h DEF ReceiveAnswer, Updates
      <4>2. read \in Reads /\ Head(wire).generation \in Nat
        BY <4>1 DEF Answers
      <4>3. new \in Cursors
        BY <4>2 DEF Reads, Cursor, Cursors
      <4>4. /\ txn.base \in Rows /\ txn.deltas \in Seq(Updates) /\ app.cursor \in Cursors
            /\ device \in Helds /\ generation \in Nat
        BY <1>0 DEF RowShape, Txns, Helds, DaemonShape
      <4>5. rows \in Rows
        <5>1. Merge(txn.base, read) \in Rows
          BY <4>2, <4>4, MergeType DEF Rows, Snapshots
        <5> QED
          BY <5>1, <4>4, WithDeltasType DEF Completed
      <4>6. NotedAll(cursor, txn.deltas) \in Cursors
        BY <4>3, <4>4, WriteCursorType, NotedAllType
      <4>7. app' = Held(rows, NotedAll(cursor, txn.deltas))
        BY <1>9, <3>2 DEF ReceiveAnswer
      <4>8. \E ids : device' = Persisted(ids, app')
        BY <1>9, <3>2 DEF ReceiveAnswer
      <4>9. txn' = NoTxn /\ touched' = (load = "reading") /\ UNCHANGED <<load, durable>>
        BY <1>9, <3>2 DEF ReceiveAnswer
      <4> HIDE DEF rows, cursor
      <4>10. app' \in Helds
        BY <4>5, <4>6, <4>7 DEF Held, Helds
      <4>11. device' \in Helds
        BY <4>4, <4>8, <4>10, PersistedType
      <4>12. touched' \in BOOLEAN
        BY <4>9
      <4> QED
        BY <4>9, <4>10, <4>11, <4>12, <1>0, Blank DEF RowShape
    <3> QED
      BY <3>1, <3>2
  <2> QED
    BY <1>9, <2>1, <2>2, <1>d, <1>v, <1>g DEF ReceiveAnswer, Shape
<1>10. CASE ReceiveUpdate
  <2>1. SessionShape'
    BY <1>10, <1>w DEF ReceiveUpdate
  <2> DEFINE update == Head(wire)
  <2>2. update \in Updates
    BY <1>10, <1>h DEF ReceiveUpdate, Answers
  <2>3. touched' \in BOOLEAN /\ UNCHANGED <<load, durable>>
    BY <1>10 DEF ReceiveUpdate
  <2>4. txn \in Txns /\ app \in Helds /\ device \in Helds /\ generation \in Nat
    BY <1>0 DEF RowShape, DaemonShape
  <2>5. CASE InTransaction
    <3>1. txn' = [txn EXCEPT !.deltas = Append(txn.deltas, update)] /\ UNCHANGED <<app, device>>
      BY <1>10, <2>5 DEF ReceiveUpdate
    <3> HIDE DEF update
    <3>2. Append(txn.deltas, update) \in Seq(Updates)
      BY <2>2, <2>4 DEF Txns
    <3>3. txn' \in Txns
      BY <3>1, <3>2, <2>4 DEF Txns
    <3>4. RowShape'
      BY <3>1, <3>3, <2>3, <2>4, <1>0 DEF RowShape
    <3> QED
      BY <1>10, <3>4, <2>1, <1>d, <1>v, <1>g DEF ReceiveUpdate, Shape
  <2>6. CASE ~ InTransaction
    <3> DEFINE rows == [app.rows EXCEPT ![update.id] = update.value]
    <3>1. /\ app' = Held(rows, Noted(app.cursor, update))
          /\ device' = Persisted({update.id}, app') /\ txn' = txn
      BY <1>10, <2>6 DEF ReceiveUpdate
    <3> HIDE DEF update
    <3>2. rows \in Rows
      BY <2>2, <2>4 DEF Rows, Helds, Updates
    <3>3. Noted(app.cursor, update) \in Cursors
      BY <2>2, <2>4, NotedType DEF Helds
    <3> HIDE DEF rows
    <3>4. app' \in Helds
      BY <3>1, <3>2, <3>3 DEF Held, Helds
    <3>5. device' \in Helds
      BY <3>1, <3>4, <2>4, PersistedType
    <3>6. RowShape'
      BY <3>1, <3>4, <3>5, <2>3, <1>0 DEF RowShape
    <3> QED
      BY <1>10, <3>6, <2>1, <1>d, <1>v, <1>g DEF ReceiveUpdate, Shape
  <2> QED
    BY <2>5, <2>6
<1>11. CASE TransactionFails
  <2>1. SessionShape'
    BY <1>11, <1>s, UnsubscribedShape DEF TransactionFails
  <2>2. RowShape'
    BY <1>11, <1>0, GivenUpShape DEF TransactionFails, RowShape
  <2>3. DemandShape'
    BY <1>11, <1>0 DEF TransactionFails, DemandShape, Refreshes
  <2> QED
    BY <1>11, <2>1, <2>2, <2>3, <1>d, <1>f DEF TransactionFails, Shape
<1>12. CASE RefreshEnds
  <2>1. txn' \in Txns /\ refresh' \in Refreshes /\ failed' \in BOOLEAN
    <3>1. CASE Starts(demand)
      BY <3>1, <1>0, StartsShape
    <3>2. CASE refresh' = NoRefresh /\ UNCHANGED <<txn, failed>>
      BY <3>2, <1>0, Blank DEF RowShape, DemandShape
    <3> QED
      BY <1>12, <3>1, <3>2 DEF RefreshEnds
  <2>2. DemandShape'
    BY <1>12, <2>1, <1>0 DEF RefreshEnds, DemandShape
  <2>3. RowShape'
    BY <1>12, <2>1, <1>0 DEF RefreshEnds, RowShape
  <2> QED
    BY <1>12, <2>2, <2>3, <1>d, <1>s, <1>g DEF RefreshEnds, Shape
<1>13. CASE RefreshFails
  <2>1. txn' \in Txns /\ refresh' \in Refreshes /\ failed' \in BOOLEAN
    <3>1. CASE Starts(demand)
      BY <3>1, <1>0, StartsShape
    <3>2. CASE refresh' = NoRefresh /\ failed' = TRUE /\ UNCHANGED txn
      BY <3>2, <1>0, Blank DEF RowShape
    <3> QED
      BY <1>13, <3>1, <3>2 DEF RefreshFails
  <2>2. DemandShape'
    BY <1>13, <2>1, <1>0 DEF RefreshFails, DemandShape
  <2>3. RowShape'
    BY <1>13, <2>1, <1>0 DEF RefreshFails, RowShape
  <2>4. BoundShape'
    BY <1>13, <1>f, <1>g DEF RefreshFails
  <2> QED
    BY <1>13, <2>2, <2>3, <2>4, <1>d, <1>s DEF RefreshFails, Shape
<1>14. CASE Flush
  <2>1. RowShape'
    BY <1>14, <1>0 DEF Flush, RowShape
  <2> QED
    BY <1>14, <2>1, <1>d, <1>s, <1>v, <1>g DEF Flush, Shape
<1> QED
  BY <1>1, <1>2, <1>3, <1>4, <1>5, <1>6, <1>7, <1>8, <1>9, <1>10, <1>11, <1>12, <1>13, <1>14 DEF App

\* The registry, other sessions, lost connections and restarts.
LEMMA EnvironmentSteps ==
    ASSUME Shape, Environment
    PROVE  Shape'
<1>0. DaemonShape /\ SessionShape /\ DemandShape /\ RowShape /\ BoundShape
  BY DEF Shape
<1>s. UNCHANGED sessionVars => SessionShape'
  BY <1>0 DEF sessionVars, SessionShape
<1>v. UNCHANGED demandVars => DemandShape'
  BY <1>0 DEF demandVars, DemandShape
<1>r. UNCHANGED rowVars => RowShape'
  BY <1>0 DEF rowVars, RowShape
<1>f. ASSUME NEW kind, Disturbed(kind), changes' = changes
      PROVE  BoundShape'
  BY <1>f, <1>0, ReplicaAssumption DEF Disturbed, BoundShape
<1>1. ASSUME NEW id \in Ids, NEW value \in Contents \cup {None}, Mutate(id, value)
      PROVE  Shape'
  <2>1. DaemonShape'
    BY <1>1, <1>0 DEF Mutate, DaemonShape, Rows
  <2>2. job' \in [Ids -> Jobs]
    <3>1. Queued(job[id]) \in Jobs
      BY <1>0, QueuedType DEF SessionShape
    <3> QED
      BY <1>1, <3>1, <1>0 DEF Mutate, SessionShape
  <2>3. SessionShape'
    BY <1>1, <2>2, <1>0 DEF Mutate, SessionShape
  <2>4. BoundShape'
    BY <1>1, <1>0, ReplicaAssumption DEF Mutate, BoundShape
  <2> QED
    BY <1>1, <2>1, <2>3, <2>4, <1>v, <1>r DEF Mutate, Shape
<1>2. ASSUME NEW ids \in {{id} : id \in Ids} \cup {Ids}, OtherReads(ids)
      PROVE  Shape'
  <2>1. ids \subseteq Ids
    OBVIOUS
  <2>2. DaemonShape'
    BY <1>2, <2>1, <1>0 DEF OtherReads, DaemonShape, Rows
  <2> QED
    BY <1>2, <2>2, <1>s, <1>v, <1>r, <1>f DEF OtherReads, Shape
<1>3. CASE OtherNumbers
  <2>1. OtherSnapshot \in Snapshots
    <3>1. \A id \in Ids : collection.entry[id].value \in Contents \cup {None}
      BY <1>0 DEF DaemonShape, Collection, Entry
    <3> QED
      BY <3>1, <1>0 DEF OtherSnapshot, Snapshots, DaemonShape
  <2>2. PICK order \in Orders(collection, OtherSnapshot) :
            collection' = ReplaceAll(collection, OtherSnapshot, order)
    BY <1>3 DEF OtherNumbers
  <2>3. collection' \in Collection /\ WellNumbered(collection')
    BY <1>0, <2>1, <2>2, ReplaceAllLemma DEF DaemonShape, Advances
  <2>4. DaemonShape'
    BY <1>3, <1>0, <2>3 DEF OtherNumbers, DaemonShape
  <2>5. BoundShape'
    BY <1>3, <1>0 DEF OtherNumbers, BoundShape
  <2> QED
    BY <1>3, <2>4, <2>5, <1>s, <1>v, <1>r DEF OtherNumbers, Shape
<1>d. ASSUME Disconnected
      PROVE  /\ SessionShape' /\ online' = FALSE /\ satisfied' = FALSE /\ refresh' \in Refreshes
             /\ txn' \in Txns /\ app' \in Helds /\ device' \in Helds
  <2>1. SessionShape'
    BY <1>d, UnsubscribedShape DEF Disconnected
  <2>2. txn' \in Txns /\ app' \in Helds /\ device' \in Helds
    <3>1. GivenUp \/ UNCHANGED <<txn, app, device>>
      BY <1>d DEF Disconnected
    <3> QED
      BY <3>1, <1>0, GivenUpShape DEF RowShape
  <2>3. refresh' \in Refreshes
    <3> DEFINE doomed == refresh.doomed \/ InTransaction
    <3>1. doomed \in BOOLEAN
      OBVIOUS
    <3>2. refresh' = refresh \/ refresh' = [refresh EXCEPT !.moved = TRUE, !.doomed = doomed]
      BY <1>d DEF Disconnected
    <3> HIDE DEF doomed
    <3> QED
      BY <3>1, <3>2, <1>0 DEF DemandShape, Refreshes
  <2> QED
    BY <1>d, <2>1, <2>2, <2>3 DEF Disconnected
<1>4. CASE Cut
  <2>1. DaemonShape'
    BY <1>4, <1>0 DEF Cut, daemonVars, DaemonShape
  <2>2. DemandShape' /\ RowShape'
    BY <1>4, <1>d, <1>0 DEF Cut, DemandShape, RowShape
  <2> QED
    BY <1>4, <2>1, <2>2, <1>d, <1>f DEF Cut, Shape
<1>5. CASE Crash
  <2>1. DaemonShape'
    BY <1>5, <1>0, Blank DEF Crash, DaemonShape
  <2>2. DemandShape' /\ RowShape'
    BY <1>5, <1>d, <1>0 DEF Crash, DemandShape, RowShape
  <2> QED
    BY <1>5, <2>1, <2>2, <1>d, <1>f DEF Crash, Shape
<1>6. CASE Kill
  <2>1. DaemonShape'
    BY <1>6, <1>0 DEF Kill, daemonVars, DaemonShape
  <2>2. DemandShape'
    BY <1>6, Blank DEF Kill, DemandShape
  <2>3. RowShape'
    BY <1>6, <1>0, Blank DEF Kill, RowShape
  <2>4. SessionShape'
    BY <1>6, UnsubscribedShape DEF Kill
  <2> QED
    BY <1>6, <2>1, <2>2, <2>3, <2>4, <1>f DEF Kill, Shape
<1> QED
  BY <1>1, <1>2, <1>3, <1>4, <1>5, <1>6 DEF Environment

LEMMA ShapeHolds == Spec => []Shape
<1>1. ASSUME Shape, [Next]_vars
      PROVE  Shape'
  <2>1. CASE UNCHANGED vars
    BY <1>1, <2>1 DEF vars, daemonVars, sessionVars, demandVars, rowVars, Shape, DaemonShape,
                      SessionShape, DemandShape, RowShape, BoundShape
  <2> QED
    BY <1>1, <2>1, SessionSteps, AppSteps, EnvironmentSteps DEF Next
<1> QED
  BY <1>1, InitShape, PTL DEF Spec

\* Every variable keeps its type: what is recorded, pending or sent are updates
\* of workspaces, and rows and cursors remain such whatever is merged into them.
THEOREM TypeCorrect == Spec => []TypeOK
<1>1. ASSUME Shape
      PROVE  TypeOK
  <2>1. DaemonShape /\ SessionShape /\ DemandShape /\ RowShape /\ BoundShape
    BY <1>1 DEF Shape
  <2>2. collection.head \in Nat
    BY <2>1 DEF DaemonShape, Collection
  <2>3. /\ sub.on \in BOOLEAN /\ sub.boot \in BOOLEAN
        /\ sub.last \in [Ids -> Contents \cup {"none", "seeded", "removed"}]
        /\ sub.pending \in Seq(Updates)
    BY <2>1 DEF SessionShape, Subs
  <2>4. /\ listing.at \in {"none", "sent", "received", "captured", "answered"}
        /\ listing.cursor \in Cursors /\ listing.values \in Rows
    BY <2>1 DEF SessionShape, Listings
  <2>5. txn.at \in {"none", "cache", "projects", "listing"} /\ txn.deltas \in Seq(Updates)
    BY <2>1 DEF RowShape, Txns
  <2>6. \A held \in {app, device, durable} : held.rows \in Rows /\ held.cursor \in Cursors
    BY <2>1 DEF RowShape, Helds
  <2>7. /\ \A i \in DOMAIN sub.pending : sub.pending[i] \in Updates
        /\ \A i \in DOMAIN txn.deltas : txn.deltas[i] \in Updates
    BY <2>3, <2>5
  <2> QED
    BY <2>1, <2>2, <2>3, <2>4, <2>5, <2>6, <2>7 DEF TypeOK, DaemonShape, SessionShape, DemandShape,
       RowShape, BoundShape, Jobs, Refreshes
<1> QED
  BY <1>1, ShapeHolds, PTL

-----------------------------------------------------------------------------
(***************************************************************************)
(* Demand is served.                                                       *)
(***************************************************************************)
\* The daemon has, or will have, a subscription of the app.
Served == sub.on \/ listing.at = "sent"

\* Only a connected app whose directory is needed is satisfied, and between
\* refreshes it is served, or the last refresh was reported to fail.
SatisfiedIsServed ==
  /\ satisfied => online /\ demand # {}
  /\ (satisfied /\ ~ refresh.on) => (Served \/ failed)
  /\ (online /\ demand # {} /\ ~ refresh.on) => (failed \/ satisfied)

\* A refresh is for someone, and of this connection unless it has moved.  It
\* has asked for a listing, or will, unless it is going to fail.
RefreshServes ==
  /\ refresh.on => demand # {}
  /\ (refresh.on /\ ~ refresh.moved) => online
  /\ refresh.moved => ~ satisfied
  /\ (refresh.on /\ online /\ ~ refresh.doomed /\ ~ refresh.moved) =>
        (Served \/ txn.at \in {"cache", "projects"})

\* A listing the daemon works on has its subscription, and a transaction has
\* its refresh, unless that has failed and left it behind.
PartsOfRefresh ==
  /\ listing.at \in {"received", "captured", "answered"} => sub.on
  /\ (txn.at # "none" /\ ~ refresh.on) => failed

DemandInv == SatisfiedIsServed /\ RefreshServes /\ PartsOfRefresh

\* What of the types this takes.
LEMMA ControlTypes ==
    ASSUME Shape
    PROVE  /\ sub \in Subs /\ listing \in Listings /\ txn \in Txns /\ refresh \in Refreshes
           /\ online \in BOOLEAN /\ satisfied \in BOOLEAN /\ failed \in BOOLEAN
           /\ refresh.on \in BOOLEAN /\ refresh.moved \in BOOLEAN /\ refresh.doomed \in BOOLEAN
           /\ sub.on \in BOOLEAN
BY DEF Shape, SessionShape, DemandShape, RowShape, Refreshes, Subs

LEMMA SessionServes ==
    ASSUME Shape, DemandInv, Session
    PROVE  DemandInv'
<1>t. /\ sub \in Subs /\ listing \in Listings /\ txn \in Txns /\ refresh \in Refreshes
  BY ControlTypes
<1>1. /\ UNCHANGED <<online, demand, refresh, satisfied, failed, txn>>
      /\ Served' = Served
      /\ (listing'.at \in {"received", "captured", "answered"}) => sub'.on
  <2>0. (listing.at \in {"received", "captured", "answered"}) => sub.on
    BY DEF DemandInv, PartsOfRefresh
  <2>1. ASSUME NEW update, BufferOrEmit(sub, update)
        PROVE  sub'.on = sub.on
    BY <2>1, <1>t DEF BufferOrEmit, Subs
  <2>2. ASSUME NEW id \in Ids, JobReads(id) \/ JobUpserts(id) \/ JobFindsGone(id) \/ JobRemoves(id)
        PROVE  /\ UNCHANGED <<online, demand, refresh, satisfied, failed, txn>>
               /\ Served' = Served
               /\ (listing'.at \in {"received", "captured", "answered"}) => sub'.on
    <3>1. sub'.on = sub.on
      <4>1. CASE JobReads(id)
        BY <4>1 DEF JobReads
      <4>2. CASE JobUpserts(id)
        BY <4>2, <2>1 DEF JobUpserts
      <4>3. CASE JobFindsGone(id)
        BY <4>3, <1>t DEF JobFindsGone, Subs
      <4>4. CASE JobRemoves(id)
        BY <4>4, <2>1 DEF JobRemoves
      <4> QED
        BY <2>2, <4>1, <4>2, <4>3, <4>4
    <3>2. UNCHANGED <<online, demand, refresh, satisfied, failed, txn, listing>>
      BY <2>2 DEF JobReads, JobUpserts, JobFindsGone, JobRemoves, demandVars, rowVars
    <3> QED
      BY <3>1, <3>2, <2>0 DEF Served
  <2>3. CASE ListingArrives
    BY <2>3, <1>t DEF ListingArrives, demandVars, rowVars, Served, NoSub, Listings
  <2>4. CASE ListingCaptures
    BY <2>4, <2>0, <1>t DEF ListingCaptures, demandVars, rowVars, Served, Listings
  <2>5. CASE ListingAnswers
    <3>1. sub'.on = sub.on
      BY <2>5, <1>t DEF ListingAnswers, Subs
    <3>2. listing'.at = "answered" /\ listing.at = "captured"
      BY <2>5, <1>t DEF ListingAnswers, Listings
    <3>3. UNCHANGED <<online, demand, refresh, satisfied, failed, txn>>
      BY <2>5 DEF ListingAnswers, demandVars, rowVars
    <3> QED
      BY <3>1, <3>2, <3>3, <2>0 DEF Served
  <2>6. CASE ListingFlushes
    <3>1. sub'.on = sub.on
      BY <2>6, <1>t DEF ListingFlushes, Subs
    <3>2. listing'.at = "none" /\ listing.at = "answered"
      BY <2>6 DEF ListingFlushes, NoListing
    <3>3. UNCHANGED <<online, demand, refresh, satisfied, failed, txn>>
      BY <2>6 DEF ListingFlushes, demandVars, rowVars
    <3> QED
      BY <3>1, <3>2, <3>3, <2>0 DEF Served
  <2> QED
    BY <2>2, <2>3, <2>4, <2>5, <2>6 DEF Session
<1>2. SatisfiedIsServed'
  BY <1>1 DEF DemandInv, SatisfiedIsServed
<1>3. RefreshServes'
  BY <1>1 DEF DemandInv, RefreshServes
<1>4. PartsOfRefresh'
  BY <1>1 DEF DemandInv, PartsOfRefresh
<1> QED
  BY <1>2, <1>3, <1>4 DEF DemandInv

\* A refresh starts for whoever is there, and a listing under way is left to it.
LEMMA StartServes ==
    ASSUME Shape, NEW who, Starts(who)
    PROVE  /\ refresh'.on = TRUE /\ refresh'.moved = FALSE /\ refresh'.doomed = FALSE
           /\ txn'.at \in {"cache", "projects"} /\ failed' = FALSE
<1>1. txn \in Txns
  BY ControlTypes
<1> QED
  BY <1>1 DEF Starts, NoRefresh, Begun, Txns

LEMMA AppServes ==
    ASSUME "dropped" \notin Lapses, Shape, DemandInv, App
    PROVE  DemandInv'
<1>t. /\ sub \in Subs /\ listing \in Listings /\ txn \in Txns /\ refresh \in Refreshes
      /\ online \in BOOLEAN /\ satisfied \in BOOLEAN /\ failed \in BOOLEAN
      /\ refresh.on \in BOOLEAN /\ refresh.moved \in BOOLEAN /\ refresh.doomed \in BOOLEAN
      /\ sub.on \in BOOLEAN
  BY ControlTypes
<1> USE DEF Served
<1>0. SatisfiedIsServed /\ RefreshServes /\ PartsOfRefresh
  BY DEF DemandInv
<1>1. ASSUME NEW who \in {"full", "route"}, Demand(who)
      PROVE  DemandInv'
  <2>0. UNCHANGED <<online, satisfied, sub, listing>> /\ demand' # {}
    BY <1>1 DEF Demand, sessionVars
  <2>1. CASE online /\ ~ refresh.on /\ ~ satisfied
    <3>1. Starts(demand')
      BY <1>1, <2>1 DEF Demand
    <3>2. /\ refresh'.on = TRUE /\ refresh'.moved = FALSE
          /\ txn'.at \in {"cache", "projects"} /\ failed' = FALSE
      BY <3>1, StartServes
    <3> QED
      BY <2>0, <2>1, <3>2, <1>0 DEF SatisfiedIsServed, RefreshServes, PartsOfRefresh, DemandInv
  <2>2. CASE ~(online /\ ~ refresh.on /\ ~ satisfied)
    <3>1. UNCHANGED <<refresh, txn, failed>>
      BY <1>1, <2>2 DEF Demand, StartsNot
    <3> QED
      BY <2>0, <2>2, <3>1, <1>0, <1>t DEF SatisfiedIsServed, RefreshServes, PartsOfRefresh, DemandInv
  <2> QED
    BY <2>1, <2>2
<1>2. ASSUME NEW who \in {"full", "route"}, Drop(who)
      PROVE  DemandInv'
  <2>1. CASE demand' # {}
    BY <1>2, <2>1, <1>0, <1>t DEF Drop, sessionVars, SatisfiedIsServed, RefreshServes, PartsOfRefresh, DemandInv
  <2>2. CASE demand' = {}
    <3>1. ~ refresh.on /\ satisfied' = FALSE /\ listing' = NoListing /\ UNCHANGED <<online, failed>>
      BY <1>2, <2>2 DEF Drop, Unsubscribed
    <3>2. /\ refresh' = refresh \/ refresh' = [refresh EXCEPT !.doomed = FALSE]
          /\ txn' = txn \/ txn' = NoTxn
      BY <1>2, <2>2, <3>1 DEF Drop, GivenUp
    <3> QED
      BY <2>2, <3>1, <3>2, <1>0, <1>t DEF NoListing, NoTxn, Refreshes, SatisfiedIsServed, RefreshServes, PartsOfRefresh, DemandInv
  <2> QED
    BY <2>1, <2>2
<1>3. CASE Connect
  <2>0. ~ online /\ online' /\ UNCHANGED <<demand, satisfied, sub, listing>>
    BY <1>3 DEF Connect, sessionVars
  <2>1. CASE demand # {} /\ ~ refresh.on
    BY <1>3, <2>0, <2>1, <1>0, <1>t, StartServes DEF Connect, SatisfiedIsServed, RefreshServes, PartsOfRefresh, DemandInv
  <2>2. CASE ~(demand # {} /\ ~ refresh.on)
    BY <1>3, <2>0, <2>2, <1>0, <1>t DEF Connect, StartsNot, SatisfiedIsServed, RefreshServes, PartsOfRefresh, DemandInv
  <2> QED
    BY <2>1, <2>2
<1>4. CASE ForceRefresh
  BY <1>4, <1>0, <1>t, StartServes DEF ForceRefresh, sessionVars, SatisfiedIsServed, RefreshServes, PartsOfRefresh, DemandInv
<1>5. ASSUME UNCHANGED <<sub, listing, demandVars, txn>>
      PROVE  DemandInv'
  BY <1>5, <1>0 DEF demandVars, SatisfiedIsServed, RefreshServes, PartsOfRefresh, DemandInv
<1>6. CASE ReadDevice \/ DeviceRead \/ Flush
  BY <1>6, <1>5 DEF ReadDevice, DeviceRead, Flush, sessionVars
<1>7. CASE BeginsAfterCache
  BY <1>7, <1>0, <1>t DEF BeginsAfterCache, Begun, NoTxn, sessionVars, demandVars, SatisfiedIsServed, RefreshServes, PartsOfRefresh, DemandInv
<1>8. CASE AsksForListing
  BY <1>8, <1>0, <1>t DEF AsksForListing, NoListing, NoSub, Txns, demandVars, SatisfiedIsServed, RefreshServes, PartsOfRefresh, DemandInv
<1>9. CASE ReceiveAnswer
  <2>1. UNCHANGED <<sub, listing, demandVars>> /\ (txn' = txn \/ (txn.at = "listing" /\ txn' = NoTxn))
    BY <1>9 DEF ReceiveAnswer
  <2> QED
    BY <2>1, <1>0, <1>t DEF NoTxn, demandVars, SatisfiedIsServed, RefreshServes, PartsOfRefresh, DemandInv
<1>10. CASE ReceiveUpdate
  <2>1. UNCHANGED <<sub, listing, demandVars>> /\ txn'.at = txn.at
    BY <1>10, <1>t DEF ReceiveUpdate, Txns
  <2> QED
    BY <2>1, <1>0, <1>t DEF demandVars, SatisfiedIsServed, RefreshServes, PartsOfRefresh, DemandInv
<1>11. CASE TransactionFails
  <2>1. /\ InTransaction /\ txn' = NoTxn /\ refresh' = [refresh EXCEPT !.doomed = refresh.on]
        /\ UNCHANGED <<online, demand, satisfied, failed>>
    BY <1>11 DEF TransactionFails, GivenUp
  <2>2. UNCHANGED <<sub, listing>> \/ (sub' = NoSub /\ listing' = NoListing)
    BY <1>11 DEF TransactionFails, Unsubscribed, sessionVars
  <2> QED
    BY <2>1, <2>2, <1>0, <1>t DEF InTransaction, NoTxn, NoSub, NoListing, Refreshes, SatisfiedIsServed, RefreshServes, PartsOfRefresh, DemandInv
<1>12. CASE RefreshEnds
  <2>0. /\ refresh.on /\ ~ refresh.doomed /\ txn.at = "none" /\ UNCHANGED <<online, demand, sub, listing>>
        /\ satisfied' = (satisfied \/ ~ refresh.moved)
    BY <1>12 DEF RefreshEnds, sessionVars
  <2>1. CASE refresh.moved /\ demand # {} /\ online
    <3>1. Starts(demand)
      BY <1>12, <2>1 DEF RefreshEnds
    <3>2. /\ refresh'.on = TRUE /\ refresh'.moved = FALSE
          /\ txn'.at \in {"cache", "projects"} /\ failed' = FALSE
      BY <3>1, StartServes
    <3>3. satisfied' = FALSE
      BY <2>0, <2>1, <1>0, <1>t DEF RefreshServes
    <3> QED
      BY <2>0, <2>1, <3>2, <3>3, <1>0 DEF SatisfiedIsServed, RefreshServes, PartsOfRefresh, DemandInv
  <2>2. CASE ~(refresh.moved /\ demand # {} /\ online)
    <3>1. refresh' = NoRefresh /\ UNCHANGED <<txn, failed>>
      BY <1>12, <2>2 DEF RefreshEnds
    <3> QED
      BY <2>0, <2>2, <3>1, <1>0, <1>t DEF NoRefresh, SatisfiedIsServed, RefreshServes, PartsOfRefresh, DemandInv
  <2> QED
    BY <2>1, <2>2
<1>13. CASE RefreshFails
  <2>0. refresh.on /\ UNCHANGED <<online, demand, sub, listing, satisfied>>
    BY <1>13 DEF RefreshFails, sessionVars
  <2>1. CASE refresh.moved /\ demand # {} /\ online
    <3>1. Starts(demand)
      BY <1>13, <2>1 DEF RefreshFails
    <3>2. /\ refresh'.on = TRUE /\ refresh'.moved = FALSE
          /\ txn'.at \in {"cache", "projects"} /\ failed' = FALSE
      BY <3>1, StartServes
    <3>3. satisfied' = FALSE
      BY <2>0, <2>1, <1>0, <1>t DEF RefreshServes
    <3> QED
      BY <2>0, <2>1, <3>2, <3>3, <1>0 DEF SatisfiedIsServed, RefreshServes, PartsOfRefresh, DemandInv
  <2>2. CASE ~(refresh.moved /\ demand # {} /\ online)
    <3>1. refresh' = NoRefresh /\ failed' = TRUE /\ UNCHANGED txn
      BY <1>13, <2>2 DEF RefreshFails
    <3> QED
      BY <2>0, <2>2, <3>1, <1>0, <1>t DEF NoRefresh, SatisfiedIsServed, RefreshServes, PartsOfRefresh, DemandInv
  <2> QED
    BY <2>1, <2>2
<1> QED
  BY <1>1, <1>2, <1>3, <1>4, <1>6, <1>7, <1>8, <1>9, <1>10, <1>11, <1>12, <1>13 DEF App

LEMMA EnvironmentServes ==
    ASSUME Shape, DemandInv, Environment
    PROVE  DemandInv'
<1>t. /\ txn \in Txns /\ refresh \in Refreshes
      /\ online \in BOOLEAN /\ satisfied \in BOOLEAN /\ failed \in BOOLEAN
      /\ refresh.on \in BOOLEAN /\ refresh.moved \in BOOLEAN /\ refresh.doomed \in BOOLEAN
  BY ControlTypes
<1> USE DEF Served
<1>0. SatisfiedIsServed /\ RefreshServes /\ PartsOfRefresh
  BY DEF DemandInv
<1>1. ASSUME UNCHANGED <<sub, listing, demandVars, txn>>
      PROVE  DemandInv'
  BY <1>1, <1>0 DEF demandVars, SatisfiedIsServed, RefreshServes, PartsOfRefresh, DemandInv
<1>2. ASSUME NEW id \in Ids, NEW value \in Contents \cup {None}, Mutate(id, value)
      PROVE  DemandInv'
  BY <1>2, <1>1 DEF Mutate, rowVars
<1>3. ASSUME NEW ids, OtherReads(ids)
      PROVE  DemandInv'
  BY <1>3, <1>1 DEF OtherReads, sessionVars, rowVars
<1>4. CASE OtherNumbers
  BY <1>4, <1>1 DEF OtherNumbers, sessionVars, rowVars
<1>5. ASSUME Disconnected, UNCHANGED <<demand, failed>>
      PROVE  DemandInv'
  <2>1. /\ online' = FALSE /\ satisfied' = FALSE /\ listing' = NoListing
        /\ txn' = txn \/ (InTransaction /\ txn' = NoTxn)
    BY <1>5 DEF Disconnected, Unsubscribed, GivenUp
  <2>2. /\ refresh'.on = refresh.on
        /\ (online /\ refresh.on) => refresh'.moved
        /\ ~(online /\ refresh.on) => refresh' = refresh
    BY <1>5, <1>t DEF Disconnected, Refreshes
  <2> QED
    BY <1>5, <2>1, <2>2, <1>0, <1>t DEF NoListing, NoTxn, InTransaction, SatisfiedIsServed, RefreshServes, PartsOfRefresh, DemandInv
<1>6. CASE Cut
  BY <1>6, <1>5 DEF Cut
<1>7. CASE Crash
  BY <1>7, <1>5 DEF Crash
<1>8. CASE Kill
  BY <1>8 DEF Kill, Unsubscribed, NoSub, NoListing, NoTxn, NoRefresh, SatisfiedIsServed, RefreshServes, PartsOfRefresh, DemandInv
<1> QED
  BY <1>2, <1>3, <1>4, <1>6, <1>7, <1>8 DEF Environment

LEMMA DemandHolds ==
    ASSUME "dropped" \notin Lapses
    PROVE  Spec => []DemandInv
<1>1. Init => DemandInv
  BY DEF Init, NoSub, NoListing, NoTxn, NoRefresh, Served, SatisfiedIsServed, RefreshServes,
         PartsOfRefresh, DemandInv
<1>2. ASSUME Shape, DemandInv, [Next]_vars
      PROVE  DemandInv'
  <2>1. CASE UNCHANGED vars
    BY <1>2, <2>1 DEF vars, sessionVars, demandVars, rowVars, Served, SatisfiedIsServed,
                      RefreshServes, PartsOfRefresh, DemandInv
  <2> QED
    BY <1>2, <2>1, SessionServes, AppServes, EnvironmentServes DEF Next
<1> QED
  BY <1>1, <1>2, ShapeHolds, PTL DEF Spec

\* Where demand is not dropped while a refresh runs, a connected app whose
\* directory is needed refreshes it, is subscribed or about to be, or was told that
\* its refresh failed, whatever connections, processes and refreshes fail
\* (requestDemandRefresh, connectionChanged).
THEOREM DemandServed ==
    ASSUME "dropped" \notin Lapses
    PROVE  Spec => []DemandIsServed
<1>1. DemandInv => DemandIsServed
  BY DEF DemandInv, SatisfiedIsServed, DemandIsServed, Served
<1> QED
  BY <1>1, DemandHolds, PTL

-----------------------------------------------------------------------------
(***************************************************************************)
(* What the session and a refresh have under way.                          *)
(***************************************************************************)
\* Nothing happens of what costs the app a change, and values differ.
NothingLapses == Lapses = {} /\ Quiet = {}

\* The answer to a listing is the first message on its way.
AnswerComes == wire # <<>> /\ wire[1].kind = "answer"

\* A listing was asked for and its answer has not come.
UnderWay == listing.at \in {"sent", "received", "captured"} \/ AnswerComes

\* A subscription that starts buffers updates, one of each workspace, until its
\* answer is sent, and nothing is sent before it.
SessionControl ==
  /\ sub.boot <=> listing.at \in {"received", "captured", "answered"}
  /\ listing.at = "sent" => ~ sub.on
  /\ ~ sub.on => wire = <<>> /\ \A id \in Ids : job[id] = NoJob
  /\ ~ sub.boot => sub.pending = <<>>
  /\ \A i, j \in DOMAIN sub.pending : sub.pending[i].id = sub.pending[j].id => i = j
  /\ sub.boot => \A id \in Ids : sub.last[id] \in {"none", "seeded"}
  /\ listing.at \in {"received", "captured"} => wire = <<>> /\ \A id \in Ids : sub.last[id] = "none"
  /\ listing.at = "answered" => \A i \in DOMAIN wire : wire[i].kind = "answer"
  /\ \A i \in DOMAIN wire : i > 1 => wire[i].kind = "update"
  /\ AnswerComes => wire[1].generation = generation

\* What of the types the session's control takes.
LEMMA SessionTypes ==
    ASSUME Shape
    PROVE  /\ sub \in Subs /\ (sub.boot => sub.on) /\ sub.on \in BOOLEAN /\ sub.boot \in BOOLEAN
           /\ sub.pending \in Seq(Updates) /\ listing \in Listings
           /\ sub.last \in [Ids -> Contents \cup {"none", "seeded", "removed"}]
           /\ wire \in Seq(Updates \cup Answers) /\ job \in [Ids -> Jobs]
           /\ generation \in Nat /\ collection \in Collection /\ WellNumbered(collection)
           /\ truth \in Rows
BY DEF Shape, SessionShape, DaemonShape, Subs

\* Replacing a pending update, or adding one, keeps one of each workspace.
LEMMA BufferedOnce ==
    ASSUME NEW pending \in Seq(Updates), NEW update \in Updates,
           \A i, j \in DOMAIN pending : pending[i].id = pending[j].id => i = j
    PROVE  LET after == Buffered(pending, update)
           IN  /\ \A i, j \in DOMAIN after : after[i].id = after[j].id => i = j
               /\ \E i \in DOMAIN after : after[i] = update
               /\ \A i \in DOMAIN after : after[i].id = update.id => after[i] = update
               /\ \A i \in DOMAIN after : after[i].id # update.id =>
                    \E j \in DOMAIN pending : pending[j] = after[i]
               /\ \A j \in DOMAIN pending : pending[j].id # update.id =>
                    \E i \in DOMAIN after : after[i] = pending[j]
<1> DEFINE at == {i \in DOMAIN pending : pending[i].id = update.id}
<1>0. DOMAIN pending = 1 .. Len(pending) /\ Len(pending) \in Nat
  OBVIOUS
<1>1. CASE at = {}
  <2> DEFINE after == Append(pending, update)
  <2>1. Buffered(pending, update) = after
    BY <1>1 DEF Buffered
  <2>2. /\ DOMAIN after = 1 .. Len(pending) + 1
        /\ \A i \in 1 .. Len(pending) : after[i] = pending[i]
        /\ after[Len(pending) + 1] = update
    OBVIOUS
  <2> HIDE DEF after
  <2>3. \A i \in DOMAIN pending : pending[i].id # update.id
    BY <1>1
  <2>4. \A i \in DOMAIN after : i \in DOMAIN pending \/ i = Len(pending) + 1
    BY <2>2, <1>0
  <2>5. \A i \in DOMAIN pending : i \in DOMAIN after /\ after[i] = pending[i]
    BY <2>2, <1>0
  <2>6. Len(pending) + 1 \in DOMAIN after
    BY <2>2, <1>0
  <2>7. \A i, j \in DOMAIN after : after[i].id = after[j].id => i = j
    BY <2>2, <2>3, <2>4, <2>5
  <2> QED
    BY <2>1, <2>2, <2>3, <2>4, <2>5, <2>6, <2>7
<1>2. CASE at # {}
  <2> DEFINE after == [i \in DOMAIN pending |-> IF i \in at THEN update ELSE pending[i]]
  <2>1. Buffered(pending, update) = after
    BY <1>2 DEF Buffered
  <2>2. DOMAIN after = DOMAIN pending
    OBVIOUS
  <2>3. \A i \in DOMAIN pending : pending[i].id = update.id => after[i] = update
    OBVIOUS
  <2>4. \A i \in DOMAIN pending : pending[i].id # update.id => after[i] = pending[i]
    OBVIOUS
  <2>5. \E i \in DOMAIN pending : pending[i].id = update.id
    BY <1>2
  <2> HIDE DEF after, at
  <2>6. \A i \in DOMAIN pending : after[i].id = pending[i].id
    BY <2>3, <2>4
  <2>7. \A i \in DOMAIN after : after[i].id = update.id => after[i] = update
    BY <2>2, <2>3, <2>6
  <2>8. \A i, j \in DOMAIN after : after[i].id = after[j].id => i = j
    BY <2>2, <2>6
  <2>9. \A i \in DOMAIN after : after[i].id # update.id => \E j \in DOMAIN pending : pending[j] = after[i]
    BY <2>2, <2>4, <2>6
  <2>10. \A j \in DOMAIN pending : pending[j].id # update.id => \E i \in DOMAIN after : after[i] = pending[j]
    BY <2>2, <2>4
  <2>11. \E i \in DOMAIN after : after[i] = update
    BY <2>2, <2>3, <2>5
  <2> QED
    BY <2>1, <2>7, <2>8, <2>9, <2>10, <2>11
<1> QED
  BY <1>1, <1>2

\* A message appended leaves those before it, and an answer that comes comes still.
LEMMA AppendedMessage ==
    ASSUME wire \in Seq(Updates \cup Answers), NEW m \in Updates, wire' = Append(wire, m)
    PROVE  /\ AnswerComes' <=> AnswerComes
           /\ AnswerComes => wire'[1] = wire[1]
           /\ \A i \in DOMAIN wire : i \in DOMAIN wire' /\ wire'[i] = wire[i]
           /\ Len(wire) + 1 \in DOMAIN wire' /\ wire'[Len(wire) + 1] = m
           /\ \A i \in DOMAIN wire' : i \in DOMAIN wire \/ i = Len(wire) + 1
           /\ DOMAIN wire = 1 .. Len(wire) /\ Len(wire) \in Nat
<1>1. /\ DOMAIN wire = 1 .. Len(wire) /\ Len(wire) \in Nat
      /\ DOMAIN wire' = 1 .. Len(wire) + 1
      /\ \A i \in 1 .. Len(wire) : wire'[i] = wire[i]
      /\ wire'[Len(wire) + 1] = m
      /\ wire' # <<>> /\ (wire = <<>> <=> Len(wire) = 0)
  OBVIOUS
<1>2. m.kind = "update"
  BY DEF Updates
<1>3. CASE Len(wire) = 0
  <2>1. wire'[1] = m /\ wire = <<>>
    BY <1>1, <1>3
  <2> QED
    BY <1>1, <1>2, <1>3, <2>1 DEF AnswerComes
<1>4. CASE Len(wire) # 0
  <2>1. wire'[1] = wire[1] /\ wire # <<>>
    BY <1>1, <1>4
  <2> QED
    BY <1>1, <1>2, <1>4, <2>1 DEF AnswerComes
<1> QED
  BY <1>3, <1>4

\* The first message is received: the others move up.
LEMMA ReceivedMessage ==
    ASSUME wire \in Seq(Updates \cup Answers), wire # <<>>, wire' = Tail(wire)
    PROVE  /\ \A i \in DOMAIN wire' : i \in Nat /\ i >= 1 /\ i + 1 \in DOMAIN wire /\ wire'[i] = wire[i + 1]
           /\ \A i \in DOMAIN wire : i \in Nat /\ (i = 1 \/ (i > 1 /\ i - 1 \in DOMAIN wire' /\ wire'[i - 1] = wire[i]))
           /\ 1 \in DOMAIN wire /\ Head(wire) = wire[1]
OBVIOUS

\* What is emitted or buffered leaves the session in order.
LEMMA BufferOrEmitControl ==
    ASSUME Shape, SessionControl, sub.on, NEW update \in Updates, BufferOrEmit(sub, update),
           job' \in [Ids -> Jobs], UNCHANGED <<listing, generation>>
    PROVE  SessionControl'
<1>t. /\ sub \in Subs /\ sub.pending \in Seq(Updates) /\ sub.boot \in BOOLEAN /\ listing \in Listings
      /\ sub.last \in [Ids -> Contents \cup {"none", "seeded", "removed"}]
      /\ wire \in Seq(Updates \cup Answers)
  BY SessionTypes
<1>1. CASE sub.boot
  <2>1. sub' = [sub EXCEPT !.pending = Buffered(sub.pending, update)] /\ wire' = wire
    BY <1>1 DEF BufferOrEmit
  <2>2. sub'.pending = Buffered(sub.pending, update) /\ sub'.boot /\ sub'.on /\ sub'.last = sub.last
    BY <2>1, <1>1, <1>t DEF Subs
  <2>3. \A i, j \in DOMAIN sub'.pending : sub'.pending[i].id = sub'.pending[j].id => i = j
    BY <2>2, <1>t, BufferedOnce DEF SessionControl
  <2> QED
    BY <2>1, <2>2, <2>3, <1>1 DEF SessionControl, AnswerComes
<1>2. CASE ~ sub.boot
  <2>1. wire' = Append(wire, update) /\ sub' = [sub EXCEPT !.last[update.id] = LastOf(update)]
    BY <1>2 DEF BufferOrEmit
  <2>2. sub'.pending = sub.pending /\ ~ sub'.boot /\ sub'.on
    BY <2>1, <1>2, <1>t DEF Subs
  <2>3. /\ AnswerComes' <=> AnswerComes
        /\ AnswerComes => wire'[1] = wire[1]
        /\ \A i \in DOMAIN wire : i \in DOMAIN wire' /\ wire'[i] = wire[i]
        /\ Len(wire) + 1 \in DOMAIN wire' /\ wire'[Len(wire) + 1] = update
        /\ \A i \in DOMAIN wire' : i \in DOMAIN wire \/ i = Len(wire) + 1
    BY <2>1, <1>t, AppendedMessage
  <2>4. update.kind = "update"
    BY DEF Updates
  <2>5. listing.at \notin {"received", "captured", "answered"} /\ sub.pending = <<>>
    BY <1>2 DEF SessionControl
  <2>6. \A i \in DOMAIN wire' : i > 1 => wire'[i].kind = "update"
    BY <2>3, <2>4 DEF SessionControl
  <2>7. (AnswerComes => wire[1].generation = generation)'
    BY <2>3 DEF SessionControl
  <2> QED
    BY <2>2, <2>5, <2>6, <2>7 DEF SessionControl
<1> QED
  BY <1>1, <1>2

\* The steps of the session, and of others that move it.
LEMMA SessionMoves ==
    ASSUME [Next]_vars
    PROVE  \/ UNCHANGED <<job, sub, listing, wire, generation>>
           \/ \E id \in Ids : JobReads(id) \/ JobUpserts(id) \/ JobFindsGone(id) \/ JobRemoves(id)
           \/ ListingArrives \/ ListingCaptures \/ ListingAnswers \/ ListingFlushes
           \/ \E id \in Ids, value \in Contents \cup {None} : Mutate(id, value)
           \/ Unsubscribed
           \/ AsksForListing
           \/ wire # <<>> /\ wire' = Tail(wire) /\ UNCHANGED <<job, sub, listing, generation>>
<1>1. CASE UNCHANGED vars
  BY <1>1 DEF vars, sessionVars, daemonVars
<1>2. CASE Session
  BY <1>2 DEF Session
<1>3. CASE App
  <2>1. ASSUME NEW who, Demand(who)
        PROVE  UNCHANGED <<job, sub, listing, wire, generation>>
    BY <2>1 DEF Demand, sessionVars, daemonVars
  <2>2. ASSUME NEW who, Drop(who)
        PROVE  Unsubscribed \/ UNCHANGED <<job, sub, listing, wire, generation>>
    BY <2>2 DEF Drop, sessionVars, daemonVars
  <2>3. CASE \/ Connect \/ ForceRefresh \/ ReadDevice \/ DeviceRead \/ BeginsAfterCache \/ RefreshEnds
             \/ RefreshFails \/ Flush
    BY <2>3 DEF Connect, ForceRefresh, ReadDevice, DeviceRead, BeginsAfterCache, RefreshEnds, RefreshFails,
                Flush, sessionVars, daemonVars
  <2>4. CASE ReceiveAnswer \/ ReceiveUpdate
    BY <2>4 DEF ReceiveAnswer, ReceiveUpdate, daemonVars
  <2>5. CASE TransactionFails
    BY <2>5 DEF TransactionFails, sessionVars, daemonVars
  <2> QED
    BY <1>3, <2>1, <2>2, <2>3, <2>4, <2>5 DEF App
<1>4. CASE Environment
  <2>1. ASSUME NEW ids, OtherReads(ids)
        PROVE  UNCHANGED <<job, sub, listing, wire, generation>>
    BY <2>1 DEF OtherReads, sessionVars
  <2>2. CASE OtherNumbers
    BY <2>2 DEF OtherNumbers, sessionVars
  <2>3. CASE Cut \/ Crash \/ Kill
    BY <2>3 DEF Cut, Crash, Kill, Disconnected
  <2> QED
    BY <1>4, <2>1, <2>2, <2>3 DEF Environment
<1> QED
  BY <1>1, <1>2, <1>3, <1>4 DEF Next

\* Messages sent together follow those that are on their way.
LEMMA SentMessages ==
    ASSUME wire \in Seq(Updates \cup Answers), NEW sent \in Seq(Updates), wire' = wire \o sent
    PROVE  /\ \A i \in DOMAIN wire' : \/ i \in DOMAIN wire /\ wire'[i] = wire[i]
                                     \/ /\ i > Len(wire) /\ i - Len(wire) \in DOMAIN sent
                                        /\ wire'[i] = sent[i - Len(wire)]
           /\ \A i \in DOMAIN wire : i \in DOMAIN wire' /\ wire'[i] = wire[i]
           /\ \A i \in DOMAIN sent : i + Len(wire) \in DOMAIN wire' /\ wire'[i + Len(wire)] = sent[i]
           /\ DOMAIN wire = 1 .. Len(wire) /\ Len(wire) \in Nat
           /\ DOMAIN sent = 1 .. Len(sent) /\ Len(sent) \in Nat
<1>1. /\ DOMAIN wire = 1 .. Len(wire) /\ Len(wire) \in Nat
      /\ DOMAIN sent = 1 .. Len(sent) /\ Len(sent) \in Nat
      /\ sent \in Seq(Updates \cup Answers)
  OBVIOUS
<1>2. /\ DOMAIN wire' = 1 .. Len(wire) + Len(sent)
      /\ \A i \in 1 .. Len(wire) : wire'[i] = wire[i]
      /\ \A i \in 1 .. Len(sent) : wire'[i + Len(wire)] = sent[i]
      /\ \A i \in Len(wire) + 1 .. Len(wire) + Len(sent) : wire'[i] = sent[i - Len(wire)]
  BY <1>1
<1> QED
  BY <1>1, <1>2

LEMMA SessionControlStep ==
    ASSUME Shape, Shape', DemandInv, SessionControl, [Next]_vars
    PROVE  SessionControl'
<1>t. /\ sub \in Subs /\ sub.pending \in Seq(Updates) /\ sub.boot \in BOOLEAN /\ listing \in Listings
      /\ sub.last \in [Ids -> Contents \cup {"none", "seeded", "removed"}]
      /\ wire \in Seq(Updates \cup Answers) /\ job \in [Ids -> Jobs] /\ (sub.boot => sub.on)
      /\ generation \in Nat /\ collection \in Collection /\ WellNumbered(collection)
      /\ sub.on \in BOOLEAN /\ job' \in [Ids -> Jobs]
      /\ collection' \in Collection /\ WellNumbered(collection')
  <2>1. job' \in [Ids -> Jobs] /\ collection' \in Collection /\ WellNumbered(collection')
    BY DEF Shape, SessionShape, DaemonShape
  <2> QED
    BY <2>1, SessionTypes
<1>0. \A id \in Ids : job[id].at # "idle" => sub.on
  BY DEF SessionControl, NoJob
<1>1. CASE UNCHANGED <<job, sub, listing, wire, generation>>
  BY <1>1 DEF SessionControl, AnswerComes
<1>2. ASSUME NEW id \in Ids, JobReads(id)
      PROVE  SessionControl'
  <2>1. sub.on /\ UNCHANGED <<sub, listing, wire, generation>>
    BY <1>2, <1>0 DEF JobReads, daemonVars
  <2> QED
    BY <2>1 DEF SessionControl, AnswerComes
<1>3. ASSUME NEW id \in Ids, JobUpserts(id)
      PROVE  SessionControl'
  <2> DEFINE update == Update(id, job[id].value, SequenceFor(collection', id))
  <2>1. sub.on /\ UNCHANGED <<listing, generation>>
    BY <1>3, <1>0 DEF JobUpserts
  <2>2. update \in Updates
    <3>1. job[id].value \in Contents
      BY <1>3, <1>t DEF JobUpserts, Jobs
    <3> QED
      BY <3>1, <1>t, UpdateType
  <2>3. UNCHANGED <<sub, wire>> \/ BufferOrEmit(sub, update)
    BY <1>3 DEF JobUpserts
  <2> HIDE DEF update
  <2>4. CASE UNCHANGED <<sub, wire>>
    BY <2>1, <2>4 DEF SessionControl, AnswerComes
  <2> QED
    BY <2>1, <2>2, <2>3, <2>4, <1>t, BufferOrEmitControl
<1>4. ASSUME NEW id \in Ids, JobFindsGone(id)
      PROVE  SessionControl'
  <2>1. /\ sub.on /\ UNCHANGED <<listing, wire, generation>>
        /\ sub' = sub \/ sub' = [sub EXCEPT !.last[id] = "none"]
    BY <1>4, <1>0 DEF JobFindsGone, daemonVars
  <2>2. /\ sub'.on = sub.on /\ sub'.boot = sub.boot /\ sub'.pending = sub.pending
        /\ \A i \in Ids : sub'.last[i] = sub.last[i] \/ sub'.last[i] = "none"
    BY <2>1, <1>t DEF Subs
  <2> QED
    BY <2>1, <2>2 DEF SessionControl, AnswerComes
<1>5. ASSUME NEW id \in Ids, JobRemoves(id)
      PROVE  SessionControl'
  <2> DEFINE update == Update(id, None, SequenceFor(collection', id))
  <2>1. sub.on /\ UNCHANGED <<listing, generation>>
    BY <1>5, <1>0 DEF JobRemoves
  <2>2. update \in Updates
    BY <1>t, UpdateType
  <2>3. BufferOrEmit(sub, update)
    BY <1>5 DEF JobRemoves
  <2> HIDE DEF update
  <2> QED
    BY <2>1, <2>2, <2>3, <1>t, BufferOrEmitControl
<1>6. CASE ListingArrives
  <2>1. /\ listing'.at = "received" /\ sub'.on /\ sub'.boot /\ sub'.pending = <<>>
        /\ \A id \in Ids : sub'.last[id] = "none"
        /\ UNCHANGED <<job, wire, generation>> /\ wire = <<>>
    BY <1>6, <1>t DEF ListingArrives, daemonVars, NoSub, SessionControl, Listings
  <2> QED
    BY <2>1 DEF SessionControl, AnswerComes
<1>7. CASE ListingCaptures
  <2>1. /\ listing.at = "received" /\ listing'.at = "captured" /\ UNCHANGED <<sub, job, wire, generation>>
    BY <1>7, <1>t DEF ListingCaptures, daemonVars, Listings
  <2> QED
    BY <2>1 DEF SessionControl, AnswerComes
<1>8. CASE ListingAnswers
  <2>1. /\ listing.at = "captured" /\ listing'.at = "answered" /\ UNCHANGED <<job, generation>>
        /\ sub'.on = sub.on /\ sub'.boot = sub.boot /\ sub'.pending = sub.pending
        /\ \A id \in Ids : sub'.last[id] = sub.last[id] \/ sub'.last[id] = "seeded"
    <3> DEFINE read == Read(collection', generation, listing.cursor)
               last == [id \in Ids |-> IF id \in DOMAIN read.values THEN "seeded" ELSE sub.last[id]]
    <3>1. sub' = [sub EXCEPT !.last = last] /\ UNCHANGED <<job, generation>>
      BY <1>8 DEF ListingAnswers
    <3>2. \A id \in Ids : last[id] = sub.last[id] \/ last[id] = "seeded"
      OBVIOUS
    <3>3. listing.at = "captured" /\ listing'.at = "answered"
      BY <1>8, <1>t DEF ListingAnswers, Listings
    <3> HIDE DEF last
    <3> QED
      BY <3>1, <3>2, <3>3, <1>t DEF Subs
  <2>2. \E m : wire' = Append(wire, m) /\ m.kind = "answer" /\ m.generation = generation
    BY <1>8 DEF ListingAnswers
  <2>3. wire = <<>>
    BY <2>1 DEF SessionControl
  <2>4. /\ \A i \in DOMAIN wire' : i = 1 /\ wire'[i].kind = "answer"
        /\ wire'[1].generation = generation
    BY <2>2, <2>3
  <2>5. sub.on /\ sub.boot
    BY <2>1, <1>t DEF SessionControl
  <2> QED
    BY <2>1, <2>4, <2>5 DEF SessionControl, AnswerComes
<1>9. CASE ListingFlushes
  <2> DEFINE sent == ToFlush(sub.pending, listing.values)
  <2>1. sent \in Seq(Updates)
    BY <1>t, ToFlushType
  <2>2. /\ listing.at = "answered" /\ wire' = wire \o sent /\ UNCHANGED <<job, generation>>
        /\ listing'.at = "none"
        /\ sub'.on = sub.on /\ sub'.boot = FALSE /\ sub'.pending = <<>>
    BY <1>9, <1>t DEF ListingFlushes, daemonVars, NoListing, Subs
  <2> HIDE DEF sent
  <2>3. sub.on
    BY <2>2, <1>t DEF SessionControl
  <2>4. \A i \in DOMAIN wire' : \/ i \in DOMAIN wire /\ wire'[i] = wire[i]
                               \/ /\ i > Len(wire) /\ i - Len(wire) \in DOMAIN sent
                                  /\ wire'[i] = sent[i - Len(wire)]
    <3>1. wire' = wire \o sent /\ wire \in Seq(Updates \cup Answers) /\ sent \in Seq(Updates)
      BY <2>1, <2>2, <1>t
    <3> QED
      BY ONLY <3>1, SentMessages
  <2>5. \A i \in DOMAIN sent : sent[i].kind = "update"
    <3>1. \A i \in DOMAIN sent : sent[i] \in Updates
      BY <2>1
    <3> QED
      BY <3>1 DEF Updates
  <2>6. \A i \in DOMAIN wire' : i > 1 => wire'[i].kind = "update"
    BY <2>4, <2>5 DEF SessionControl
  <2>7. (AnswerComes => wire[1].generation = generation)'
    <3>1. SUFFICES ASSUME AnswerComes' PROVE wire'[1].generation = generation
      BY <2>2
    <3>2. 1 \in DOMAIN wire'
      BY <3>1, <2>1, <2>2, <1>t DEF AnswerComes
    <3>3. 1 \in DOMAIN wire /\ wire'[1] = wire[1]
      BY <3>1, <3>2, <2>4, <2>5 DEF AnswerComes
    <3> QED
      BY <3>1, <3>3 DEF AnswerComes, SessionControl
  <2> QED
    BY <2>2, <2>3, <2>6, <2>7 DEF SessionControl, AnswerComes
<1>10. ASSUME NEW id \in Ids, NEW value \in Contents \cup {None}, Mutate(id, value)
      PROVE  SessionControl'
  <2>1. UNCHANGED <<sub, listing, wire, generation>> /\ (sub.on \/ job' = job)
    BY <1>10 DEF Mutate
  <2> QED
    BY <2>1 DEF SessionControl, AnswerComes
<1>11. CASE Unsubscribed \/ AsksForListing
  <2>1. /\ \A id \in Ids : job'[id] = NoJob
        /\ sub'.on = FALSE /\ sub'.boot = FALSE /\ sub'.pending = <<>>
        /\ wire' = <<>> /\ listing'.at \in {"none", "sent"}
    <3>1. CASE Unsubscribed
      BY <3>1 DEF Unsubscribed, NoSub, NoListing
    <3>2. CASE AsksForListing
      BY <3>2 DEF AsksForListing, NoSub, NoListing
    <3> QED
      BY <1>11, <3>1, <3>2
  <2> QED
    BY <2>1 DEF SessionControl, AnswerComes
<1>12. CASE wire # <<>> /\ wire' = Tail(wire) /\ UNCHANGED <<job, sub, listing, generation>>
  <2>1. \A i \in DOMAIN wire' : i \in Nat /\ i >= 1 /\ i + 1 \in DOMAIN wire /\ wire'[i] = wire[i + 1]
    BY <1>12, <1>t, ReceivedMessage
  <2>2. \A i \in DOMAIN wire' : wire'[i].kind = "update"
    BY <2>1 DEF SessionControl
  <2>3. listing.at = "answered" => \A i \in DOMAIN wire' : wire'[i].kind = "answer"
    BY <2>1 DEF SessionControl
  <2>4. ~ AnswerComes'
    <3>1. wire' # <<>> => 1 \in DOMAIN wire'
      BY <1>12, <1>t
    <3> QED
      BY <3>1, <2>2 DEF AnswerComes
  <2>5. sub.on /\ listing.at \notin {"received", "captured"}
    BY <1>12 DEF SessionControl
  <2> QED
    BY <1>12, <2>2, <2>3, <2>4, <2>5 DEF SessionControl
<1> QED
  BY <1>1, <1>2, <1>3, <1>4, <1>5, <1>6, <1>7, <1>8, <1>9, <1>10, <1>11, <1>12, SessionMoves

\* A refresh's transaction waits for the listing it has asked for, or supersedes
\* the one that another has asked for; its base is what the app holds.
TransactionControl ==
  /\ ~ InTransaction => txn.deltas = <<>> /\ ~ txn.superseding
  /\ InTransaction => load = "done" /\ txn.base = app.rows /\ txn.cursor = app.cursor
  /\ txn.superseding => txn.at = "projects"
  /\ txn.at = "listing" => UnderWay
  /\ UnderWay => txn.at = "listing" \/ txn.superseding
  /\ txn.at = "listing" /\ listing.at \in {"sent", "received", "captured"} => listing.cursor = app.cursor

\* Until the device is read the app has nothing, and afterwards the device is
\* given what the app has.
DeviceControl ==
  /\ load # "done" =>
        /\ demand \subseteq {"full"} /\ (refresh.on => txn.at = "cache")
        /\ app = Held(NoRows, None) /\ device = durable /\ ~ touched
        /\ ~ sub.on /\ listing.at = "none"
  /\ load = "done" => device = app

\* Updates and the answer leave in order, whatever the session goes on to do.
LEMMA AnswerKept ==
    ASSUME Shape, Shape', SessionControl,
           \/ \E id \in Ids : JobReads(id) \/ JobUpserts(id) \/ JobFindsGone(id) \/ JobRemoves(id)
           \/ ListingFlushes
    PROVE  (AnswerComes' <=> AnswerComes) /\ (AnswerComes => wire'[1] = wire[1])
<1>t. /\ sub.pending \in Seq(Updates) /\ wire \in Seq(Updates \cup Answers) /\ job \in [Ids -> Jobs]
      /\ collection' \in Collection
  <2>1. collection' \in Collection
    BY DEF Shape, DaemonShape
  <2> QED
    BY <2>1, SessionTypes
<1>1. ASSUME NEW update \in Updates, BufferOrEmit(sub, update)
      PROVE  (AnswerComes' <=> AnswerComes) /\ (AnswerComes => wire'[1] = wire[1])
  <2>1. wire' = wire \/ wire' = Append(wire, update)
    BY <1>1 DEF BufferOrEmit
  <2> QED
    BY <2>1, <1>t, AppendedMessage DEF AnswerComes
<1>2. ASSUME NEW id \in Ids, JobReads(id) \/ JobFindsGone(id)
      PROVE  (AnswerComes' <=> AnswerComes) /\ (AnswerComes => wire'[1] = wire[1])
  BY <1>2 DEF JobReads, JobFindsGone, AnswerComes
<1>3. ASSUME NEW id \in Ids, JobUpserts(id)
      PROVE  (AnswerComes' <=> AnswerComes) /\ (AnswerComes => wire'[1] = wire[1])
  <2> DEFINE update == Update(id, job[id].value, SequenceFor(collection', id))
  <2>1. update \in Updates
    <3>1. job[id].value \in Contents
      BY <1>3, <1>t DEF JobUpserts, Jobs
    <3> QED
      BY <3>1, <1>t, UpdateType
  <2>2. UNCHANGED wire \/ BufferOrEmit(sub, update)
    BY <1>3 DEF JobUpserts
  <2> HIDE DEF update
  <2>3. CASE UNCHANGED wire
    BY <2>3 DEF AnswerComes
  <2> QED
    BY <2>1, <2>2, <2>3, <1>1
<1>4. ASSUME NEW id \in Ids, JobRemoves(id)
      PROVE  (AnswerComes' <=> AnswerComes) /\ (AnswerComes => wire'[1] = wire[1])
  BY <1>4, <1>t, <1>1, UpdateType DEF JobRemoves
<1>5. CASE ListingFlushes
  <2> DEFINE sent == ToFlush(sub.pending, listing.values)
  <2>1. sent \in Seq(Updates) /\ wire' = wire \o sent
    BY <1>5, <1>t, ToFlushType DEF ListingFlushes
  <2> HIDE DEF sent
  <2>2. /\ \A i \in DOMAIN wire' : \/ i \in DOMAIN wire /\ wire'[i] = wire[i]
                                  \/ /\ i > Len(wire) /\ i - Len(wire) \in DOMAIN sent
                                     /\ wire'[i] = sent[i - Len(wire)]
        /\ \A i \in DOMAIN wire : i \in DOMAIN wire' /\ wire'[i] = wire[i]
    BY <2>1, <1>t, SentMessages
  <2>3. \A i \in DOMAIN sent : sent[i].kind = "update"
    <3>1. \A i \in DOMAIN sent : sent[i] \in Updates
      BY <2>1
    <3> QED
      BY <3>1 DEF Updates
  <2>4. wire' # <<>> => 1 \in DOMAIN wire'
    BY <2>1, <1>t
  <2>5. wire # <<>> <=> 1 \in DOMAIN wire
    BY <1>t
  <2> QED
    BY <2>2, <2>3, <2>4, <2>5 DEF AnswerComes
<1> QED
  BY <1>2, <1>3, <1>4, <1>5

\* The session's own steps leave a listing under way until its answer is received.
LEMMA SessionUnderWay ==
    ASSUME Shape, Shape', SessionControl, Session
    PROVE  /\ UnderWay' <=> UnderWay
           /\ listing'.at \in {"sent", "received", "captured"} =>
                listing.at \in {"sent", "received", "captured"} /\ listing'.cursor = listing.cursor
           /\ (~ sub.on /\ listing.at = "none") => (~ sub'.on /\ listing'.at = "none")
           /\ UNCHANGED <<demandVars, rowVars>>
<1>t. listing \in Listings /\ wire \in Seq(Updates \cup Answers)
  BY SessionTypes
<1>u. UNCHANGED <<demandVars, rowVars>>
  BY DEF Session, JobReads, JobUpserts, JobFindsGone, JobRemoves, ListingArrives, ListingCaptures,
         ListingAnswers, ListingFlushes
<1>1. ASSUME NEW id \in Ids, JobReads(id) \/ JobUpserts(id) \/ JobFindsGone(id) \/ JobRemoves(id)
      PROVE  /\ UnderWay' <=> UnderWay
             /\ UNCHANGED listing
             /\ sub.on
  <2>1. UNCHANGED listing
    BY <1>1 DEF JobReads, JobUpserts, JobFindsGone, JobRemoves
  <2>2. job[id].at # "idle"
    BY <1>1 DEF JobReads, JobUpserts, JobFindsGone, JobRemoves
  <2>3. sub.on
    BY <2>2 DEF SessionControl, NoJob
  <2> QED
    BY <1>1, <2>1, <2>3, AnswerKept DEF UnderWay
<1>2. CASE ListingArrives \/ ListingCaptures
  <2>1. /\ listing.at \in {"sent", "received", "captured"}
        /\ listing'.at \in {"sent", "received", "captured"} /\ listing'.cursor = listing.cursor
    BY <1>2, <1>t DEF ListingArrives, ListingCaptures, Listings
  <2> QED
    BY <2>1, <1>u DEF UnderWay
<1>3. CASE ListingAnswers
  <2>1. listing.at = "captured" /\ listing'.at = "answered"
    BY <1>3, <1>t DEF ListingAnswers, Listings
  <2>2. \E m : wire' = Append(wire, m) /\ m.kind = "answer"
    BY <1>3 DEF ListingAnswers
  <2>3. AnswerComes'
    BY <2>1, <2>2 DEF SessionControl, AnswerComes
  <2> QED
    BY <2>1, <2>3, <1>u DEF UnderWay
<1>4. CASE ListingFlushes
  <2>1. listing.at = "answered" /\ listing'.at = "none"
    BY <1>4 DEF ListingFlushes, NoListing
  <2> QED
    BY <1>4, <2>1, <1>u, AnswerKept DEF UnderWay
<1> QED
  BY <1>1, <1>2, <1>3, <1>4, <1>u DEF Session

Controls == SessionControl /\ TransactionControl /\ DeviceControl

\* What of the types the app's control takes.
LEMMA RowTypes ==
    ASSUME Shape
    PROVE  /\ txn \in Txns /\ app \in Helds /\ device \in Helds /\ durable \in Helds
           /\ app.rows \in Rows /\ device.rows \in Rows /\ durable.rows \in Rows
           /\ app.cursor \in Cursors /\ device.cursor \in Cursors /\ durable.cursor \in Cursors
           /\ txn.base \in Rows /\ txn.cursor \in Cursors /\ txn.deltas \in Seq(Updates)
           /\ txn.superseding \in BOOLEAN
           /\ refresh \in Refreshes /\ load \in {"none", "reading", "done"} /\ demand \subseteq {"full", "route"}
BY DEF Shape, RowShape, DemandShape, Txns, Helds

\* Who holds the same rows and the same cursor holds the same.
LEMMA SameHeld ==
    ASSUME NEW x \in Helds, NEW y \in Helds, x.rows = y.rows, x.cursor = y.cursor
    PROVE  x = y
BY DEF Helds

\* A transaction starts from what the app holds, and takes over from the one before.
LEMMA StartControls ==
    ASSUME Shape, Controls, NEW who, Starts(who), load # "done" => "full" \in who,
           UNCHANGED <<sub, listing, wire, load, app, device, durable, touched>>
    PROVE  /\ TransactionControl'
           /\ load # "done" => txn'.at = "cache"
<1>t. txn \in Txns
  BY RowTypes
<1>c. TransactionControl /\ DeviceControl
  BY DEF Controls
<1>1. UnderWay' <=> UnderWay
  BY DEF UnderWay, AnswerComes
<1>2. CASE load # "done"
  <2>1. txn' = [txn EXCEPT !.at = "cache"]
    BY <1>2 DEF Starts
  <2>2. ~ UnderWay
    BY <1>2, <1>c DEF DeviceControl, TransactionControl, InTransaction
  <2>3. ~ InTransaction
    BY <1>2, <1>c DEF TransactionControl
  <2> QED
    BY <2>1, <2>2, <2>3, <1>1, <1>t, <1>c DEF TransactionControl, InTransaction, Txns
<1>3. CASE load = "done"
  <2>1. txn' = Begun
    BY <1>3 DEF Starts
  <2>2. /\ txn'.at = "projects" /\ txn'.base = app.rows /\ txn'.cursor = app.cursor
        /\ txn'.superseding = (txn.superseding \/ txn.at = "listing")
    BY <2>1 DEF Begun
  <2> QED
    BY <1>3, <2>2, <1>1, <1>c DEF TransactionControl, InTransaction
<1> QED
  BY <1>2, <1>3

\* A transaction that is given up leaves the same rows on the device.
LEMMA GivenUpControls ==
    ASSUME Shape, Controls, InTransaction, GivenUp, load' = load
    PROVE  /\ txn' = NoTxn /\ load = "done" /\ device' = app' /\ app'.cursor = app.cursor
           /\ app'.rows = WithDeltas(app.rows, txn.deltas)
<1>1. load = "done" /\ device = app
  BY DEF Controls, TransactionControl, DeviceControl
<1>t. app \in Helds /\ device \in Helds
  BY RowTypes
<1>2. app' = Held(WithDeltas(app.rows, txn.deltas), app.cursor)
  BY DEF GivenUp
<1>3. device' = [device EXCEPT !.rows = WithDeltas(device.rows, txn.deltas)]
  BY DEF GivenUp
<1>4. txn' = NoTxn
  BY DEF GivenUp
<1> QED
  BY <1>1, <1>2, <1>3, <1>4, <1>t DEF Held, Helds

LEMMA ControlsOfApp ==
    ASSUME NothingLapses, Shape, Shape', DemandInv, Controls, App
    PROVE  TransactionControl' /\ DeviceControl'
<1>t. /\ txn \in Txns /\ app \in Helds /\ device \in Helds /\ durable \in Helds
      /\ refresh \in Refreshes /\ load \in {"none", "reading", "done"} /\ demand \subseteq {"full", "route"}
      /\ wire \in Seq(Updates \cup Answers) /\ txn.superseding \in BOOLEAN
  BY RowTypes, SessionTypes
<1>c. SessionControl /\ TransactionControl /\ DeviceControl
  BY DEF Controls
<1>l. Lapses = {}
  BY DEF NothingLapses
<1>s. ASSUME UNCHANGED <<sub, listing, wire, load, app, device, durable, touched, txn>>,
             load # "done" => demand' \subseteq {"full"} /\ (refresh'.on => txn.at = "cache")
      PROVE  TransactionControl' /\ DeviceControl'
  BY <1>s, <1>c DEF TransactionControl, DeviceControl, UnderWay, AnswerComes, InTransaction
<1>b. ASSUME NEW who, Starts(who), UNCHANGED <<sub, listing, wire, load, app, device, durable, touched>>,
             load # "done" => "full" \in who /\ demand' \subseteq {"full"}
      PROVE  TransactionControl' /\ DeviceControl'
  <2>1. TransactionControl' /\ (load # "done" => txn'.at = "cache")
    BY <1>b, StartControls
  <2> QED
    BY <2>1, <1>b, <1>c DEF DeviceControl
<1>r. UNCHANGED <<sub, listing, wire>> => (UnderWay' <=> UnderWay)
  BY DEF UnderWay, AnswerComes
<1>1. ASSUME NEW who \in {"full", "route"}, Demand(who)
      PROVE  TransactionControl' /\ DeviceControl'
  <2>1. /\ UNCHANGED <<sub, listing, wire, app, device, durable>>
        /\ load # "done" => who = "full" /\ demand = {}
        /\ demand' = demand \cup {who}
        /\ load' = IF who = "full" /\ load = "none" THEN "reading" ELSE load
        /\ touched' = IF load' # load THEN FALSE ELSE touched
    BY <1>1, <1>l DEF Demand, sessionVars
  <2>2. load # "done" => demand' = {"full"} /\ load' # "done" /\ ~ touched'
    BY <2>1, <1>c DEF DeviceControl
  <2>3. load = "done" => load' = load /\ touched' = touched
    BY <2>1
  <2>4. Starts(demand') \/ (StartsNot /\ (refresh.on \/ ~ refresh.on))
    BY <1>1 DEF Demand
  <2>5. TransactionControl' /\ (load # "done" => (refresh'.on => txn'.at = "cache"))
    <3>1. CASE Starts(demand')
      <4>1. CASE load = "done"
        BY <3>1, <4>1, <2>1, <2>3, StartControls
      <4>2. CASE load # "done"
        <5>1. txn' = [txn EXCEPT !.at = "cache"]
          BY <3>1, <4>2, <2>2 DEF Starts
        <5>2. ~ UnderWay /\ ~ InTransaction
          BY <4>2, <1>c DEF DeviceControl, TransactionControl, InTransaction
        <5> QED
          BY <5>1, <5>2, <1>r, <2>1, <1>t, <1>c DEF TransactionControl, InTransaction, Txns
      <4> QED
        BY <4>1, <4>2
    <3>2. CASE StartsNot
      BY <3>2, <1>r, <2>1, <2>3, <1>c DEF StartsNot, TransactionControl, DeviceControl, InTransaction
    <3> QED
      BY <2>4, <3>1, <3>2
  <2> QED
    BY <2>1, <2>2, <2>3, <2>5, <1>c DEF DeviceControl
<1>u. Unsubscribed => ~ UnderWay' /\ listing'.at = "none" /\ sub'.on = FALSE
  BY DEF Unsubscribed, NoSub, NoListing, UnderWay, AnswerComes
<1>2. ASSUME NEW who \in {"full", "route"}, Drop(who)
      PROVE  TransactionControl' /\ DeviceControl'
  <2>1. demand' = demand \ {who} /\ UNCHANGED <<load, touched, durable>>
    BY <1>2 DEF Drop
  <2>2. CASE demand' # {}
    BY <1>2, <2>1, <2>2, <1>s, <1>c DEF Drop, sessionVars, DeviceControl
  <2>3. CASE demand' = {}
    <3>1. Unsubscribed /\ ~ refresh.on
      BY <1>2, <2>3, <1>l DEF Drop
    <3>2. CASE txn.at = "listing"
      <4>1. GivenUp /\ InTransaction
        BY <1>2, <2>3, <3>2 DEF Drop, InTransaction
      <4>2. txn' = NoTxn /\ load = "done" /\ device' = app'
        BY <2>1, <4>1, GivenUpControls
      <4> QED
        BY <2>1, <4>2, <3>1, <1>u DEF TransactionControl, DeviceControl, NoTxn, InTransaction
    <3>3. CASE txn.at # "listing"
      <4>1. UNCHANGED <<refresh, txn, app, device>>
        BY <1>2, <2>3, <3>3 DEF Drop
      <4> QED
        BY <2>1, <4>1, <3>1, <3>3, <1>u, <1>c DEF TransactionControl, DeviceControl, InTransaction
    <3> QED
      BY <3>2, <3>3
  <2> QED
    BY <2>2, <2>3
<1>3. CASE Connect \/ ForceRefresh
  <2>1. UNCHANGED <<sub, listing, wire, load, app, device, durable, touched, demand>>
    BY <1>3 DEF Connect, ForceRefresh, sessionVars
  <2>2. (Starts(demand) /\ demand # {}) \/ StartsNot
    BY <1>3 DEF Connect, ForceRefresh
  <2>3. CASE Starts(demand) /\ demand # {}
    BY <2>1, <2>3, <1>b, <1>c DEF DeviceControl
  <2>4. CASE StartsNot
    BY <2>1, <2>4, <1>s, <1>c DEF StartsNot, DeviceControl
  <2> QED
    BY <2>2, <2>3, <2>4
<1>5. CASE ReadDevice
  BY <1>5, <1>c, <1>r DEF ReadDevice, sessionVars, demandVars, TransactionControl, DeviceControl, InTransaction
<1>6. CASE DeviceRead
  <2>1. /\ load = "reading" /\ load' = "done" /\ UNCHANGED <<sub, listing, wire, txn, device>>
        /\ app' = Held([id \in Ids |-> IF app.rows[id] # None THEN app.rows[id] ELSE device.rows[id]],
                       IF touched THEN app.cursor ELSE device.cursor)
    BY <1>6 DEF DeviceRead, sessionVars
  <2>2. app = Held(NoRows, None) /\ ~ touched
    BY <2>1, <1>c DEF DeviceControl
  <2>3. app' = device
    <3>1. device.rows \in Rows
      BY RowTypes
    <3>2. \A id \in Ids : app.rows[id] = None
      BY <2>2 DEF Held, NoRows
    <3>3. [id \in Ids |-> IF app.rows[id] # None THEN app.rows[id] ELSE device.rows[id]] = device.rows
      BY <3>1, <3>2 DEF Rows
    <3> QED
      BY <2>1, <2>2, <3>3, <1>t DEF Held, Helds
  <2>4. ~ InTransaction
    BY <2>1, <1>c DEF TransactionControl
  <2>5. ~ UnderWay
    BY <2>4, <1>c DEF TransactionControl, InTransaction
  <2> QED
    BY <2>1, <2>3, <2>4, <2>5, <1>r, <1>c DEF TransactionControl, DeviceControl, InTransaction
<1>7. CASE BeginsAfterCache
  <2>1. /\ UNCHANGED <<sub, listing, wire, load, app, device, durable, demand, refresh, touched>>
        /\ txn.at = "cache" /\ load = "done" /\ txn' \in {Begun, NoTxn}
    BY <1>7 DEF BeginsAfterCache, sessionVars, demandVars
  <2>2. ~ UnderWay /\ ~ txn.superseding
    BY <2>1, <1>c DEF TransactionControl, InTransaction
  <2> QED
    BY <2>1, <2>2, <1>r, <1>c DEF Begun, NoTxn, TransactionControl, DeviceControl, InTransaction
<1>8. CASE AsksForListing
  <2>1. /\ txn.at = "projects" /\ txn' = [txn EXCEPT !.at = "listing", !.superseding = FALSE]
        /\ wire' = <<>> /\ sub' = NoSub /\ listing' = [NoListing EXCEPT !.at = "sent", !.cursor = txn.cursor]
        /\ UNCHANGED <<load, app, device, durable, demand, refresh, touched>>
    BY <1>8 DEF AsksForListing, demandVars
  <2>2. listing'.at = "sent" /\ listing'.cursor = txn.cursor
    BY <2>1 DEF NoListing
  <2>3. txn'.at = "listing" /\ ~ txn'.superseding /\ txn'.base = txn.base /\ txn'.cursor = txn.cursor
    BY <2>1, <1>t DEF Txns
  <2>4. load = "done"
    BY <2>1, <1>c DEF TransactionControl, InTransaction
  <2>5. UnderWay'
    BY <2>2 DEF UnderWay
  <2>6. InTransaction /\ InTransaction'
    BY <2>1, <2>3 DEF InTransaction
  <2>7. TransactionControl'
    BY <2>1, <2>2, <2>3, <2>4, <2>5, <2>6, <1>c DEF TransactionControl
  <2>8. DeviceControl'
    BY <2>1, <2>4, <1>c DEF DeviceControl
  <2> QED
    BY <2>7, <2>8
<1>9. CASE ReceiveAnswer
  <2>1. /\ wire # <<>> /\ wire' = Tail(wire) /\ Head(wire).kind = "answer"
        /\ UNCHANGED <<sub, listing, load, durable, demand, refresh>>
    BY <1>9 DEF ReceiveAnswer, demandVars
  <2>2. AnswerComes /\ ~ AnswerComes' /\ listing.at \notin {"received", "captured"} /\ sub.on
    <3>1. /\ \A i \in DOMAIN wire' : i \in Nat /\ i >= 1 /\ i + 1 \in DOMAIN wire /\ wire'[i] = wire[i + 1]
          /\ Head(wire) = wire[1]
      BY <2>1, <1>t, ReceivedMessage
    <3>2. wire' # <<>> => 1 \in DOMAIN wire'
      BY <2>1, <1>t
    <3> QED
      BY <2>1, <3>1, <3>2, <1>c DEF AnswerComes, SessionControl
  <2>3. load = "done"
    BY <2>2, <1>c DEF DeviceControl
  <2>4. listing.at # "sent"
    BY <2>2, <1>c DEF SessionControl
  <2>5. CASE txn.at # "listing"
    <3>1. UNCHANGED <<txn, app, device, touched>>
      BY <1>9, <2>5 DEF ReceiveAnswer
    <3>2. ~ UnderWay'
      BY <2>1, <2>2, <2>4 DEF UnderWay
    <3> QED
      BY <2>1, <2>3, <2>5, <3>1, <3>2, <1>c DEF TransactionControl, DeviceControl, InTransaction
  <2>6. CASE txn.at = "listing"
    <3> DEFINE read == Head(wire).read
               rows == Completed(read)
               named == {id \in Ids : app.rows[id] # None \/ rows[id] # None}
               changed == DOMAIN read.values \cup read.removals \cup {id \in Ids : Recorded(id)}
               ids == IF read.mode = "changes" THEN changed ELSE named
    <3>1. /\ txn' = NoTxn /\ app'.rows = rows /\ device' = Persisted(ids, app')
      BY <1>9, <2>6 DEF ReceiveAnswer, Held
    <3>2. device = app /\ txn.base = app.rows
      BY <2>3, <2>6, <1>c DEF TransactionControl, DeviceControl, InTransaction
    <3>3. app' \in Helds /\ device' \in Helds /\ app'.rows \in Rows
      BY DEF Shape, RowShape, Helds
    <3>4. ASSUME NEW id \in Ids, id \notin ids
          PROVE  app.rows[id] = rows[id]
      <4>1. CASE read.mode = "changes"
        <5>1. id \notin DOMAIN read.values /\ id \notin read.removals /\ ~ Recorded(id)
          BY <3>4, <4>1
        <5>2. rows[id] = Merge(txn.base, read)[id]
          BY <5>1 DEF Completed, WithDeltas, Recorded
        <5>3. Merge(txn.base, read)[id] = txn.base[id]
          BY <4>1, <5>1 DEF Merge
        <5> QED
          BY <5>2, <5>3, <3>2
      <4>2. CASE read.mode # "changes"
        BY <3>4, <4>2
      <4> QED
        BY <4>1, <4>2
    <3>5. device'.rows = app'.rows /\ device'.cursor = app'.cursor
      <4> HIDE DEF ids, rows
      <4>1. device' = Held([id \in Ids |-> IF id \in ids THEN app'.rows[id] ELSE device.rows[id]], app'.cursor)
        BY <3>1 DEF Persisted
      <4>2. \A id \in Ids : (IF id \in ids THEN app'.rows[id] ELSE device.rows[id]) = app'.rows[id]
        BY <3>1, <3>2, <3>4
      <4>3. [id \in Ids |-> IF id \in ids THEN app'.rows[id] ELSE device.rows[id]] = app'.rows
        BY <4>2, <3>3 DEF Rows
      <4> QED
        BY <4>1, <4>3 DEF Held
    <3>6. device' = app'
      BY <3>3, <3>5, SameHeld
    <3>7. ~ UnderWay'
      BY <2>1, <2>2, <2>4 DEF UnderWay
    <3> QED
      BY <2>1, <2>3, <3>1, <3>6, <3>7 DEF TransactionControl, DeviceControl, InTransaction, NoTxn
  <2> QED
    BY <2>5, <2>6
<1>10. CASE ReceiveUpdate
  <2>1. /\ wire # <<>> /\ wire' = Tail(wire) /\ Head(wire).kind = "update"
        /\ UNCHANGED <<sub, listing, load, durable, demand, refresh>>
    BY <1>10 DEF ReceiveUpdate, demandVars
  <2>2. ~ AnswerComes /\ ~ AnswerComes' /\ sub.on
    <3>1. /\ \A i \in DOMAIN wire' : i \in Nat /\ i >= 1 /\ i + 1 \in DOMAIN wire /\ wire'[i] = wire[i + 1]
          /\ Head(wire) = wire[1]
      BY <2>1, <1>t, ReceivedMessage
    <3>2. wire' # <<>> => 1 \in DOMAIN wire'
      BY <2>1, <1>t
    <3> QED
      BY <2>1, <3>1, <3>2, <1>c DEF AnswerComes, SessionControl
  <2>3. load = "done"
    BY <2>2, <1>c DEF DeviceControl
  <2>4. UnderWay' <=> UnderWay
    BY <2>1, <2>2 DEF UnderWay
  <2>u. Head(wire) \in Updates
    <3>1. Head(wire) \in Updates \cup Answers
      BY <2>1, <1>t
    <3> QED
      BY <3>1, <2>1 DEF Answers
  <2>5. CASE InTransaction
    <3>1. /\ txn' = [txn EXCEPT !.deltas = Append(txn.deltas, Head(wire))]
          /\ UNCHANGED <<app, device>>
      BY <1>10, <2>5 DEF ReceiveUpdate
    <3>2. /\ txn'.at = txn.at /\ txn'.base = txn.base /\ txn'.cursor = txn.cursor
          /\ txn'.superseding = txn.superseding
      BY <3>1, <1>t DEF Txns
    <3> QED
      BY <2>1, <2>3, <2>4, <2>5, <3>1, <3>2, <1>c DEF TransactionControl, DeviceControl, InTransaction
  <2>6. CASE ~ InTransaction
    <3>1. /\ app' = Held([app.rows EXCEPT ![Head(wire).id] = Head(wire).value], Noted(app.cursor, Head(wire)))
          /\ device' = Persisted({Head(wire).id}, app') /\ txn' = txn
      BY <1>10, <2>6 DEF ReceiveUpdate
    <3>2. device = app
      BY <2>3, <1>c DEF DeviceControl
    <3>3. app' \in Helds /\ device' \in Helds /\ app'.rows \in Rows /\ app.rows \in Rows
      BY DEF Shape, RowShape, Helds
    <3>4. \A id \in Ids : id # Head(wire).id => app'.rows[id] = app.rows[id]
      BY <3>1, <3>3 DEF Held, Rows
    <3>5. [id \in Ids |-> IF id \in {Head(wire).id} THEN app'.rows[id] ELSE device.rows[id]] = app'.rows
      BY <3>2, <3>3, <3>4 DEF Rows
    <3>6. device' = app'
      BY <3>1, <3>3, <3>5, SameHeld DEF Persisted, Held
    <3> QED
      BY <2>1, <2>3, <2>4, <2>6, <3>1, <3>6, <1>c DEF TransactionControl, DeviceControl, InTransaction
  <2> QED
    BY <2>5, <2>6
<1>11. CASE TransactionFails
  <2>1. InTransaction /\ GivenUp /\ UNCHANGED <<load, touched, durable, demand>>
    BY <1>11 DEF TransactionFails
  <2>2. txn' = NoTxn /\ load = "done" /\ device' = app'
    BY <2>1, GivenUpControls
  <2>3. ~ UnderWay'
    <3>1. CASE txn.at = "projects"
      <4>1. UNCHANGED <<sub, listing, wire>> /\ ~ txn.superseding
        BY <1>11, <3>1, <1>l DEF TransactionFails, sessionVars
      <4> QED
        BY <3>1, <4>1, <1>r, <1>c DEF TransactionControl
    <3>2. CASE txn.at # "projects"
      BY <1>11, <3>2, <1>u DEF TransactionFails
    <3> QED
      BY <3>1, <3>2
  <2> QED
    BY <2>1, <2>2, <2>3 DEF TransactionControl, DeviceControl, InTransaction, NoTxn
<1>12. CASE RefreshEnds
  <2>1. /\ UNCHANGED <<sub, listing, wire, load, app, durable, touched, demand>>
        /\ refresh.on /\ txn.at = "none" /\ device' = IF refresh.cached THEN app ELSE device
    BY <1>12 DEF RefreshEnds, sessionVars
  <2>2. load = "done"
    BY <2>1, <1>c DEF DeviceControl
  <2>3. device' = device
    BY <2>1, <2>2, <1>c DEF DeviceControl
  <2>4. Starts(demand) \/ (refresh' = NoRefresh /\ UNCHANGED txn)
    BY <1>12 DEF RefreshEnds
  <2> QED
    BY <2>1, <2>2, <2>3, <2>4, <1>s, <1>b
<1>13. CASE RefreshFails
  <2>1. /\ UNCHANGED <<sub, listing, wire, load, app, device, durable, touched, demand>>
        /\ refresh.on /\ txn.at # "cache"
    BY <1>13 DEF RefreshFails, sessionVars
  <2>2. load = "done"
    BY <2>1, <1>c DEF DeviceControl
  <2>4. Starts(demand) \/ (refresh' = NoRefresh /\ UNCHANGED txn)
    BY <1>13 DEF RefreshFails
  <2> QED
    BY <2>1, <2>2, <2>4, <1>s, <1>b
<1>14. CASE Flush
  <2>1. /\ UNCHANGED <<sub, listing, wire, load, app, device, touched, txn, demand, refresh>>
        /\ durable' = device
    BY <1>14 DEF Flush, sessionVars, demandVars
  <2> QED
    BY <2>1, <1>r, <1>c DEF TransactionControl, DeviceControl, InTransaction
<1> QED
  BY <1>1, <1>2, <1>3, <1>5, <1>6, <1>7, <1>8, <1>9, <1>10, <1>11, <1>12, <1>13, <1>14 DEF App

LEMMA ControlStep ==
    ASSUME NothingLapses, Shape, Shape', DemandInv, Controls, [Next]_vars
    PROVE  Controls'
<1>c. SessionControl /\ TransactionControl /\ DeviceControl
  BY DEF Controls
<1>0. SessionControl'
  BY <1>c, SessionControlStep
<1>1. CASE Session
  <2>1. /\ UnderWay' <=> UnderWay
        /\ listing'.at \in {"sent", "received", "captured"} =>
              listing.at \in {"sent", "received", "captured"} /\ listing'.cursor = listing.cursor
        /\ (~ sub.on /\ listing.at = "none") => (~ sub'.on /\ listing'.at = "none")
        /\ UNCHANGED <<demandVars, rowVars>>
    BY <1>1, <1>c, SessionUnderWay
  <2>2. TransactionControl' /\ DeviceControl'
    BY <2>1, <1>c DEF TransactionControl, DeviceControl, InTransaction, demandVars, rowVars
  <2> QED
    BY <1>0, <2>2 DEF Controls
<1>2. CASE App
  BY <1>2, <1>0, ControlsOfApp DEF Controls
<1>3. ASSUME UNCHANGED <<sub, listing, wire, demandVars, rowVars>>
      PROVE  TransactionControl' /\ DeviceControl'
  BY <1>3, <1>c DEF TransactionControl, DeviceControl, InTransaction, UnderWay, AnswerComes, demandVars, rowVars
<1>u. Unsubscribed => ~ UnderWay' /\ listing'.at = "none" /\ sub'.on = FALSE
  BY DEF Unsubscribed, NoSub, NoListing, UnderWay, AnswerComes
<1>4. ASSUME Disconnected, UNCHANGED <<demand, load, touched, durable>>
      PROVE  TransactionControl' /\ DeviceControl'
  <2>1. ~ UnderWay' /\ listing'.at = "none" /\ sub'.on = FALSE
    BY <1>4, <1>u DEF Disconnected
  <2>2. CASE InTransaction
    <3>1. txn' = NoTxn /\ load = "done" /\ device' = app'
      BY <1>4, <2>2, GivenUpControls DEF Disconnected
    <3> QED
      BY <1>4, <2>1, <3>1 DEF TransactionControl, DeviceControl, InTransaction, NoTxn
  <2>3. CASE ~ InTransaction
    <3>1. UNCHANGED <<txn, app, device>> /\ refresh'.on = refresh.on
      BY <1>4, <2>3, RowTypes DEF Disconnected, Refreshes
    <3> QED
      BY <1>4, <2>1, <2>3, <3>1, <1>c DEF TransactionControl, DeviceControl, InTransaction
  <2> QED
    BY <2>2, <2>3
<1>5. CASE Environment
  <2>1. ASSUME NEW id \in Ids, NEW value \in Contents \cup {None}, Mutate(id, value)
        PROVE  UNCHANGED <<sub, listing, wire, demandVars, rowVars>>
    BY <2>1 DEF Mutate
  <2>2. ASSUME NEW ids, OtherReads(ids)
        PROVE  UNCHANGED <<sub, listing, wire, demandVars, rowVars>>
    BY <2>2 DEF OtherReads, sessionVars
  <2>3. CASE OtherNumbers
    BY <2>3, <1>0, <1>3 DEF OtherNumbers, sessionVars, Controls
  <2>4. CASE Cut \/ Crash
    BY <2>4, <1>0, <1>4 DEF Cut, Crash, Controls
  <2>5. CASE Kill
    <3>1. /\ Unsubscribed /\ demand' = {} /\ refresh' = NoRefresh /\ txn' = NoTxn /\ load' = "none"
          /\ touched' = FALSE /\ app' = Held(NoRows, None) /\ device' = durable /\ durable' = durable
      BY <2>5 DEF Kill
    <3>2. TransactionControl' /\ DeviceControl'
      BY <3>1, <1>u DEF TransactionControl, DeviceControl, InTransaction, NoTxn, NoRefresh
    <3> QED
      BY <3>2, <1>0 DEF Controls
  <2> QED
    BY <1>5, <2>1, <2>2, <2>3, <2>4, <2>5, <1>0, <1>3 DEF Environment, Controls
<1>6. CASE UNCHANGED vars
  BY <1>6, <1>0, <1>3 DEF vars, sessionVars, Controls
<1> QED
  BY <1>1, <1>2, <1>5, <1>6 DEF Next

LEMMA ControlStarts == Init => Controls
<1> SUFFICES ASSUME Init PROVE Controls
  OBVIOUS
<1>1. SessionControl
  BY DEF Init, SessionControl, NoSub, NoListing, AnswerComes
<1>2. TransactionControl /\ DeviceControl
  BY DEF Init, TransactionControl, DeviceControl, InTransaction, NoTxn, NoSub, NoListing, UnderWay,
         AnswerComes, NoRefresh
<1> QED
  BY <1>1, <1>2 DEF Controls

-----------------------------------------------------------------------------
(***************************************************************************)
(* The steps, by what they do to what the daemon has, what it has sent and *)
(* what the app holds.                                                     *)
(***************************************************************************)
StayPut == UNCHANGED <<truth, generation, collection, job, sub, listing, wire>>

\* Nothing of it moves.
Stands == StayPut /\ UNCHANGED <<txn, app>>

\* A refresh starts, or starts over: the next transaction takes over.
TakesOver ==
  /\ StayPut /\ UNCHANGED app
  /\ txn'.deltas = txn.deltas /\ txn'.at # "listing"
  /\ txn'.superseding = (txn.superseding \/ txn.at = "listing")

\* What a transaction has recorded is applied when it is given up.
Abandons ==
  /\ InTransaction /\ txn' = NoTxn
  /\ app'.cursor = app.cursor /\ app'.rows = WithDeltas(app.rows, txn.deltas)

\* The projects cannot be had.
LosesProjects == txn.at = "projects" /\ ~ txn.superseding /\ Abandons /\ StayPut

\* The app has no subscription, or the answer to its listing is to come, or will
\* be ignored: it goes by what it holds.
Kept == ~ sub.on \/ listing.at \in {"received", "captured"} \/ AnswerComes \/ txn.superseding

\* The subscription ends and no update is missed that a later number covers.
Leaves ==
  /\ Unsubscribed /\ UNCHANGED <<truth, generation, collection>>
  /\ Abandons \/ UNCHANGED <<txn, app>>
  /\ Kept \/ ~ Overtaken(Stream)

Restarts ==
  /\ Unsubscribed /\ generation' = generation + 1 /\ collection' = EmptyCollection
  /\ Abandons \/ (UNCHANGED <<txn, app>> /\ ~ InTransaction)

IsKilled ==
  /\ Unsubscribed /\ UNCHANGED <<truth, generation, collection>>
  /\ txn' = NoTxn /\ app' = Held(NoRows, None)

\* A transaction that starts follows the one before.
LEMMA StartTakesOver ==
    ASSUME Shape, Controls, NEW who, Starts(who), StayPut, UNCHANGED app
    PROVE  TakesOver
<1>t. txn \in Txns
  BY RowTypes
<1>c. TransactionControl
  BY DEF Controls
<1>1. CASE txn' = Begun
  BY <1>1 DEF Begun, TakesOver
<1>2. CASE txn' # Begun
  <2>1. load # "done" /\ txn' = [txn EXCEPT !.at = "cache"]
    BY <1>2 DEF Starts
  <2>2. ~ InTransaction
    BY <2>1, <1>c DEF TransactionControl
  <2>3. txn.superseding = FALSE /\ txn.at # "listing"
    BY <2>2, <1>c, <1>t DEF TransactionControl, InTransaction, Txns
  <2> QED
    BY <2>1, <2>3, <1>t DEF TakesOver, Txns
<1> QED
  BY <1>1, <1>2

LEMMA GivenUpAbandons ==
    ASSUME InTransaction, GivenUp
    PROVE  Abandons
BY DEF GivenUp, Abandons, Held

LEMMA StepsOfApp ==
    ASSUME NothingLapses, Shape, DemandInv, Controls, App
    PROVE  /\ \/ Stands \/ TakesOver \/ LosesProjects \/ Leaves
              \/ DeviceRead \/ AsksForListing \/ ReceiveAnswer \/ ReceiveUpdate
           /\ durable' = durable \/ DeviceRead \/ Flush
<1>l. Lapses = {}
  BY DEF NothingLapses
<1>c. SessionControl /\ TransactionControl /\ DeviceControl
  BY DEF Controls
<1>1. ASSUME NEW who \in {"full", "route"}, Demand(who)
      PROVE  (Stands \/ TakesOver) /\ durable' = durable
  <2>1. StayPut /\ UNCHANGED <<app, durable>> /\ (Starts(demand') \/ StartsNot)
    BY <1>1 DEF Demand, daemonVars, sessionVars, StayPut
  <2> QED
    BY <2>1, StartTakesOver DEF StartsNot, Stands
<1>2. ASSUME NEW who \in {"full", "route"}, Drop(who)
      PROVE  (Stands \/ Leaves) /\ durable' = durable
  <2>1. UNCHANGED <<truth, generation, collection, durable>>
    BY <1>2 DEF Drop, daemonVars
  <2>2. CASE demand' # {}
    BY <1>2, <2>1, <2>2 DEF Drop, sessionVars, Stands, StayPut
  <2>3. CASE demand' = {}
    <3>1. Unsubscribed /\ ~ Overtaken(Stream)
      BY <1>2, <2>3, <1>l DEF Drop, MayCut
    <3>2. Abandons \/ UNCHANGED <<txn, app>>
      BY <1>2, <2>3, GivenUpAbandons DEF Drop, InTransaction
    <3> QED
      BY <2>1, <3>1, <3>2 DEF Leaves
  <2> QED
    BY <2>2, <2>3
<1>3. CASE Connect \/ ForceRefresh
  <2>1. StayPut /\ UNCHANGED <<app, durable>> /\ (Starts(demand) \/ StartsNot)
    BY <1>3 DEF Connect, ForceRefresh, daemonVars, sessionVars, StayPut
  <2> QED
    BY <2>1, StartTakesOver DEF StartsNot, Stands
<1>5. CASE ReadDevice \/ Flush
  BY <1>5 DEF ReadDevice, Flush, daemonVars, sessionVars, StayPut, Stands
<1>6. CASE BeginsAfterCache
  <2>1. StayPut /\ UNCHANGED <<app, durable>> /\ txn.at = "cache" /\ txn' \in {Begun, NoTxn}
    BY <1>6 DEF BeginsAfterCache, daemonVars, sessionVars, StayPut
  <2>2. txn.superseding = FALSE /\ txn.deltas = <<>>
    BY <2>1, <1>c, RowTypes DEF TransactionControl, InTransaction
  <2>3. CASE txn' = Begun
    BY <2>1, <2>3 DEF Begun, TakesOver
  <2>4. CASE txn' = NoTxn
    <3>1. (txn.superseding \/ txn.at = "listing") = FALSE
      BY <2>1, <2>2
    <3> QED
      BY <2>1, <2>2, <2>4, <3>1 DEF NoTxn, TakesOver
  <2> QED
    BY <2>1, <2>3, <2>4
<1>7. CASE TransactionFails
  <2>1. /\ InTransaction /\ GivenUp /\ UNCHANGED <<truth, generation, collection, durable>>
        /\ ~ txn.superseding
    BY <1>7, <1>l DEF TransactionFails, daemonVars
  <2>2. CASE txn.at = "projects"
    BY <1>7, <2>1, <2>2, GivenUpAbandons DEF TransactionFails, sessionVars, LosesProjects, StayPut
  <2>3. CASE txn.at # "projects"
    <3>1. Unsubscribed /\ txn.at = "listing"
      BY <1>7, <2>1, <2>3 DEF TransactionFails, InTransaction
    <3>2. Kept
      BY <3>1, <1>c DEF TransactionControl, SessionControl, UnderWay, Kept
    <3> QED
      BY <2>1, <3>1, <3>2, GivenUpAbandons DEF Leaves
  <2> QED
    BY <2>2, <2>3
<1>8. CASE RefreshEnds
  <2>1. StayPut /\ UNCHANGED <<app, durable>> /\ (Starts(demand) \/ UNCHANGED txn)
    BY <1>8 DEF RefreshEnds, daemonVars, sessionVars, StayPut
  <2> QED
    BY <2>1, StartTakesOver DEF Stands
<1>9. CASE RefreshFails
  <2>1. StayPut /\ UNCHANGED <<app, durable>> /\ (Starts(demand) \/ UNCHANGED txn)
    BY <1>9 DEF RefreshFails, daemonVars, sessionVars, StayPut
  <2> QED
    BY <2>1, StartTakesOver DEF Stands
<1>10. CASE AsksForListing \/ ReceiveAnswer \/ ReceiveUpdate
  BY <1>10 DEF AsksForListing, ReceiveAnswer, ReceiveUpdate
<1> QED
  BY <1>1, <1>2, <1>3, <1>5, <1>6, <1>7, <1>8, <1>9, <1>10 DEF App

LEMMA StepsOfAll ==
    ASSUME NothingLapses, Shape, DemandInv, Controls, [Next]_vars
    PROVE  /\ \/ Stands \/ TakesOver \/ LosesProjects \/ Leaves \/ Restarts \/ IsKilled
              \/ DeviceRead \/ AsksForListing \/ ReceiveAnswer \/ ReceiveUpdate
              \/ \E id \in Ids : JobReads(id) \/ JobUpserts(id) \/ JobFindsGone(id) \/ JobRemoves(id)
              \/ ListingArrives \/ ListingCaptures \/ ListingAnswers \/ ListingFlushes
              \/ \E id \in Ids, value \in Contents \cup {None} : Mutate(id, value)
              \/ OtherNumbers
           /\ durable' = durable \/ DeviceRead \/ Flush
<1>l. Lapses = {}
  BY DEF NothingLapses
<1>1. CASE Session
  BY <1>1 DEF Session, JobReads, JobUpserts, JobFindsGone, JobRemoves, ListingArrives, ListingCaptures,
              ListingAnswers, ListingFlushes, rowVars
<1>2. CASE App
  BY <1>2, StepsOfApp
<1>3. CASE Environment
  <2>1. ASSUME NEW ids, OtherReads(ids)
        PROVE  Stands /\ durable' = durable
    BY <2>1 DEF OtherReads, sessionVars, rowVars, Stands, StayPut
  <2>2. ASSUME Disconnected
        PROVE  Unsubscribed /\ (Abandons \/ (UNCHANGED <<txn, app>> /\ ~ InTransaction))
    BY <2>2, GivenUpAbandons DEF Disconnected
  <2>3. CASE Cut
    BY <2>2, <2>3, <1>l DEF Cut, MayCut, daemonVars, Leaves
  <2>4. CASE Crash
    BY <2>2, <2>4 DEF Crash, Restarts
  <2>5. CASE Kill
    BY <2>5 DEF Kill, daemonVars, IsKilled
  <2>6. \A id \in Ids, value \in Contents \cup {None} : Mutate(id, value) => durable' = durable
    BY DEF Mutate, rowVars
  <2>7. OtherNumbers => durable' = durable
    BY DEF OtherNumbers, rowVars
  <2> QED
    BY <1>3, <2>1, <2>3, <2>4, <2>5, <2>6, <2>7 DEF Environment
<1>4. CASE UNCHANGED vars
  BY <1>4 DEF vars, daemonVars, sessionVars, rowVars, Stands, StayPut
<1> QED
  BY <1>1, <1>2, <1>3, <1>4 DEF Next

-----------------------------------------------------------------------------
(***************************************************************************)
(* Numbers.                                                                *)
(***************************************************************************)
\* The number a cursor must have reached to cover what the collection has of a
\* workspace.
Mark(c, id) == IF c.entry[id].kind = "unknown" THEN c.expired ELSE c.entry[id].seq

\* No mark falls, and what changes is marked above the old head.
LEMMA MarkLemma ==
    ASSUME NEW c \in Collection, WellNumbered(c), NEW d \in Collection, WellNumbered(d),
           Evolves(c, d), NEW id \in Ids
    PROVE  /\ Mark(c, id) \in Nat /\ Mark(d, id) \in Nat
           /\ Mark(c, id) <= c.head /\ Mark(d, id) <= d.head /\ c.head <= d.head
           /\ Mark(c, id) <= Mark(d, id)
           /\ d.entry[id].value = c.entry[id].value \/ Mark(d, id) > c.head
<1>1. /\ c.entry[id] \in Entry /\ d.entry[id] \in Entry
      /\ c.expired \in Nat /\ d.expired \in Nat /\ c.head \in Nat /\ d.head \in Nat
  BY DEF Collection
<1>2. /\ c.entry[id].seq \in Nat /\ d.entry[id].seq \in Nat
      /\ c.entry[id].seq <= c.head /\ d.entry[id].seq <= d.head
      /\ c.expired <= c.head /\ d.expired <= d.head
      /\ c.entry[id].kind = "removed" => c.entry[id].value = None
  BY <1>1 DEF Entry, WellNumbered, WellFormed
<1>3. /\ c.head <= d.head /\ c.expired <= d.expired
      /\ \/ d.entry[id] = c.entry[id]
         \/ d.entry[id].kind # "unknown" /\ d.entry[id].seq > c.head
         \/ /\ d.entry[id] = Unknown
            /\ \/ c.entry[id].kind = "removed" /\ d.expired >= c.entry[id].seq
               \/ d.expired > c.head
  BY DEF Evolves
<1>4. CASE d.entry[id] = c.entry[id]
  BY <1>1, <1>2, <1>3, <1>4 DEF Mark
<1>5. CASE d.entry[id].kind # "unknown" /\ d.entry[id].seq > c.head
  BY <1>1, <1>2, <1>3, <1>5 DEF Mark
<1>6. CASE /\ d.entry[id] = Unknown
           /\ \/ c.entry[id].kind = "removed" /\ d.expired >= c.entry[id].seq
              \/ d.expired > c.head
  BY <1>1, <1>2, <1>3, <1>6 DEF Mark, Unknown
<1> QED
  BY <1>3, <1>4, <1>5, <1>6

\* The collection as it is, and after a step.
LEMMA CollectionTypes ==
    ASSUME Shape
    PROVE  /\ collection \in Collection /\ WellNumbered(collection) /\ generation \in Nat
           /\ collection.head \in Nat /\ truth \in Rows
BY DEF Shape, DaemonShape, Collection

\* Only a restart of the daemon does more than number changes anew.
LEMMA CollectionMoves ==
    ASSUME NothingLapses, Shape, Shape', DemandInv, Controls, [Next]_vars, ~ Restarts
    PROVE  generation' = generation /\ Evolves(collection, collection')
<1>t. /\ collection \in Collection /\ WellNumbered(collection) /\ job \in [Ids -> Jobs]
      /\ listing \in Listings
  BY SessionTypes
<1>e. Evolves(collection, collection)
  <2>1. collection.head \in Nat /\ collection.expired \in Nat
    BY <1>t DEF Collection
  <2> QED
    BY <2>1 DEF Evolves
<1>1. CASE Stands \/ TakesOver \/ LosesProjects \/ Leaves \/ IsKilled \/ DeviceRead \/ AsksForListing
           \/ ReceiveAnswer \/ ReceiveUpdate \/ ListingArrives \/ ListingCaptures \/ ListingFlushes
  <2>1. UNCHANGED <<generation, collection>>
    BY <1>1 DEF Stands, TakesOver, LosesProjects, StayPut, Leaves, IsKilled, DeviceRead, AsksForListing,
                ReceiveAnswer, ReceiveUpdate, ListingArrives, ListingCaptures, ListingFlushes, daemonVars
  <2> QED
    BY <2>1, <1>e
<1>2. ASSUME NEW id \in Ids, JobReads(id) \/ JobFindsGone(id)
      PROVE  generation' = generation /\ Evolves(collection, collection')
  BY <1>2, <1>e DEF JobReads, JobFindsGone, daemonVars
<1>3. ASSUME NEW id \in Ids, JobUpserts(id)
      PROVE  generation' = generation /\ Evolves(collection, collection')
  <2>1. job[id].value \in Contents /\ collection' = Replace(collection, id, job[id].value)
        /\ generation' = generation
    BY <1>3, <1>t DEF JobUpserts, Jobs
  <2> QED
    BY <2>1, <1>t, ReplaceLemma DEF Advances
<1>4. ASSUME NEW id \in Ids, JobRemoves(id)
      PROVE  generation' = generation /\ Evolves(collection, collection')
  BY <1>4, <1>t, RemoveLemma DEF JobRemoves, Advances
<1>5. CASE ListingAnswers
  <2>1. listing.values \in Snapshots
    BY <1>t DEF Listings, Rows, Snapshots
  <2>2. PICK order \in Orders(collection, listing.values) :
            collection' = ReplaceAll(collection, listing.values, order)
    BY <1>5 DEF ListingAnswers
  <2>3. generation' = generation
    BY <1>5 DEF ListingAnswers
  <2> QED
    BY <2>1, <2>2, <2>3, <1>t, ReplaceAllLemma DEF Advances
<1>6. CASE OtherNumbers
  <2>1. OtherSnapshot \in Snapshots
    <3>1. \A id \in Ids : collection.entry[id].value \in Contents \cup {None}
      BY <1>t DEF Collection, Entry
    <3> QED
      BY <3>1 DEF OtherSnapshot, Snapshots, Shape, DaemonShape
  <2>2. PICK order \in Orders(collection, OtherSnapshot) :
            collection' = ReplaceAll(collection, OtherSnapshot, order)
    BY <1>6 DEF OtherNumbers
  <2>3. generation' = generation
    BY <1>6 DEF OtherNumbers
  <2> QED
    BY <2>1, <2>2, <2>3, <1>t, ReplaceAllLemma DEF Advances
<1>7. ASSUME NEW id \in Ids, NEW value \in Contents \cup {None}, Mutate(id, value)
      PROVE  generation' = generation /\ Evolves(collection, collection')
  BY <1>7, <1>e DEF Mutate
<1> QED
  BY <1>1, <1>2, <1>3, <1>4, <1>5, <1>6, <1>7, StepsOfAll

\* The device's rows and cursor are the app's when they are read.
LEMMA DeviceReadRestores ==
    ASSUME Shape, Controls, DeviceRead
    PROVE  /\ StayPut /\ txn' = txn /\ app' = durable /\ durable' = durable
           /\ ~ InTransaction /\ ~ sub.on /\ ~ UnderWay
<1>t. device \in Helds /\ device.rows \in Rows
  BY RowTypes
<1>c. TransactionControl /\ DeviceControl
  BY DEF Controls
<1>1. /\ load = "reading" /\ StayPut /\ txn' = txn /\ durable' = device
      /\ app' = Held([id \in Ids |-> IF app.rows[id] # None THEN app.rows[id] ELSE device.rows[id]],
                     IF touched THEN app.cursor ELSE device.cursor)
  BY DEF DeviceRead, daemonVars, sessionVars, StayPut
<1>2. app = Held(NoRows, None) /\ ~ touched /\ device = durable /\ ~ sub.on
  BY <1>1, <1>c DEF DeviceControl
<1>3. \A id \in Ids : app.rows[id] = None
  BY <1>2 DEF Held, NoRows
<1>4. [id \in Ids |-> IF app.rows[id] # None THEN app.rows[id] ELSE device.rows[id]] = device.rows
  BY <1>t, <1>3 DEF Rows
<1>5. app' = device
  BY <1>1, <1>2, <1>4, <1>t DEF Held, Helds
<1>6. ~ InTransaction /\ ~ UnderWay
  BY <1>1, <1>c DEF TransactionControl, InTransaction
<1> QED
  BY <1>1, <1>2, <1>5, <1>6

\* What the device writes is what the app holds.
LEMMA FlushWrites ==
    ASSUME NothingLapses, Controls, Flush
    PROVE  Stands /\ durable' = app /\ ~ Overtaken(txn.deltas \o Stream)
BY DEF NothingLapses, Controls, DeviceControl, Flush, Stands, StayPut, daemonVars, sessionVars

\* The updates that are pending, on their way or recorded.
Said ==
  {m \in Updates : \/ \E i \in DOMAIN wire : wire[i] = m
                   \/ \E i \in DOMAIN sub.pending : sub.pending[i] = m
                   \/ \E i \in DOMAIN txn.deltas : txn.deltas[i] = m}

Numbered(m) == m.seq # None => m.seq <= Mark(collection, m.id)

Past(cursor, gen, head) ==
  cursor # None => /\ cursor.generation <= gen
                   /\ cursor.generation = gen => cursor.seq <= head

CursorPast(cursor) == Past(cursor, generation, collection.head)

\* No update has a number above its workspace's mark, and no cursor or answer
\* one above the daemon's last.
Numbers ==
  /\ \A m \in Said : Numbered(m)
  /\ CursorPast(app.cursor) /\ CursorPast(durable.cursor)
  /\ AnswerComes => wire[1].read.head <= collection.head

\* What a number-preserving step may do: it says nothing new, but for one update
\* that the collection has numbered.
LEMMA SaidStaysNumbered ==
    ASSUME Shape, Shape', Numbers, Evolves(collection, collection'), generation' = generation,
           NEW m \in Updates,
           \/ m \in Said
           \/ \E id \in Ids, value \in Contents \cup {None} :
                m = Update(id, value, SequenceFor(collection', id))
    PROVE  Numbered(m)'
<1>t. /\ collection \in Collection /\ WellNumbered(collection)
      /\ collection' \in Collection /\ WellNumbered(collection')
  BY DEF Shape, DaemonShape
<1>1. CASE m \in Said
  <2>1. m.id \in Ids /\ (m.seq # None => m.seq \in Nat)
    BY DEF Updates
  <2>2. /\ Mark(collection, m.id) \in Nat /\ Mark(collection', m.id) \in Nat
        /\ Mark(collection, m.id) <= Mark(collection', m.id)
    BY <1>t, <2>1, MarkLemma
  <2> QED
    BY <1>1, <2>1, <2>2 DEF Numbers, Numbered
<1>2. ASSUME NEW id \in Ids, NEW value \in Contents \cup {None},
             m = Update(id, value, SequenceFor(collection', id))
      PROVE  Numbered(m)'
  <2>1. m.id = id /\ m.seq = SequenceFor(collection', id)
    BY <1>2 DEF Update
  <2>2. collection'.entry[id].seq \in Nat
    BY <1>t DEF Collection, Entry
  <2> QED
    BY <2>1, <2>2 DEF Numbered, SequenceFor, Mark
<1> QED
  BY <1>1, <1>2

LEMMA CursorStaysPast ==
    ASSUME Shape, Shape', Evolves(collection, collection'), generation' = generation,
           NEW cursor \in Cursors, CursorPast(cursor)
    PROVE  Past(cursor, generation', collection'.head)
<1>1. collection.head \in Nat /\ collection'.head \in Nat
  BY DEF Shape, DaemonShape, Collection
<1>2. collection.head <= collection'.head
  BY DEF Evolves
<1> QED
  BY <1>1, <1>2 DEF CursorPast, Past, Cursors

\* A cursor that follows numbered updates or an answer is not past the daemon.
LEMMA NotedPast ==
    ASSUME Shape, NEW cursor \in Cursors, CursorPast(cursor), NEW m \in Updates, Numbered(m)
    PROVE  CursorPast(Noted(cursor, m))
<1>1. m.id \in Ids /\ (m.seq # None => m.seq \in Nat)
  BY DEF Updates
<1>2. Mark(collection, m.id) <= collection.head /\ Mark(collection, m.id) \in Nat
      /\ collection.head \in Nat /\ generation \in Nat
  <2>1. collection.entry[m.id] \in Entry /\ collection.expired \in Nat /\ collection.head \in Nat
    BY <1>1 DEF Shape, DaemonShape, Collection
  <2>2. collection.entry[m.id].seq <= collection.head /\ collection.expired <= collection.head
    BY <1>1 DEF Shape, DaemonShape, WellNumbered
  <2> QED
    BY <2>1, <2>2 DEF Entry, Mark, Shape, DaemonShape
<1>3. CASE m.seq = None
  BY <1>3 DEF Noted
<1>4. CASE m.seq # None
  <2>1. m.seq <= collection.head
    BY <1>1, <1>2, <1>4 DEF Numbered
  <2> QED
    BY <1>1, <1>2, <1>4, <2>1 DEF Noted, WriteCursor, Cursor, CursorPast, Past, Cursors
<1> QED
  BY <1>3, <1>4

LEMMA NotedAllPast ==
    ASSUME Shape, NEW cursor \in Cursors, CursorPast(cursor), Numbers
    PROVE  CursorPast(NotedAll(cursor, txn.deltas))
<1> DEFINE deltas == txn.deltas
           numbered == {i \in DOMAIN deltas : deltas[i].seq # None}
           top == CHOOSE i \in numbered : \A j \in numbered : deltas[i].seq >= deltas[j].seq
<1>0. deltas \in Seq(Updates)
  BY RowTypes
<1>1. CASE numbered = {}
  BY <1>1 DEF NotedAll
<1>2. CASE numbered # {}
  <2>1. \E i \in numbered : \A j \in numbered : deltas[i].seq >= deltas[j].seq
    BY <1>0, <1>2, HighestDelta
  <2>2. numbered \subseteq DOMAIN deltas
    OBVIOUS
  <2>3. NotedAll(cursor, deltas) = Noted(cursor, deltas[top])
    BY <1>2 DEF NotedAll
  <2> HIDE DEF numbered
  <2>4. top \in numbered
    BY <2>1
  <2> HIDE DEF top
  <2>5. deltas[top] \in Updates
    BY <1>0, <2>2, <2>4
  <2>6. deltas[top] \in Said
    BY <2>2, <2>4, <2>5 DEF Said
  <2>7. Numbered(deltas[top])
    BY <2>6 DEF Numbers
  <2> QED
    BY <2>3, <2>5, <2>7, NotedPast
<1> QED
  BY <1>1, <1>2

\* What a step says that has not been said.
NothingNew == Said' \subseteq Said
OneNew ==
  \A m \in Said' : \/ m \in Said
                   \/ \E id \in Ids, value \in Contents \cup {None} :
                        m = Update(id, value, SequenceFor(collection', id))

\* What is pending and sent when an update is buffered or emitted.
LEMMA BufferOrEmitSays ==
    ASSUME Shape, NEW update \in Updates, BufferOrEmit(sub, update), UNCHANGED txn
    PROVE  \A m \in Said' : m \in Said \/ m = update
<1>t. sub \in Subs /\ sub.pending \in Seq(Updates) /\ wire \in Seq(Updates \cup Answers)
  BY SessionTypes
<1>1. CASE ~ sub.on
  BY <1>1 DEF BufferOrEmit, Said
<1>2. CASE sub.on /\ sub.boot
  <2>1. wire' = wire /\ sub'.pending = Buffered(sub.pending, update)
    BY <1>2, <1>t DEF BufferOrEmit, Subs
  <2>2. \A i \in DOMAIN sub'.pending :
            sub'.pending[i] = update \/ \E j \in DOMAIN sub.pending : sub.pending[j] = sub'.pending[i]
    <3> DEFINE at == {i \in DOMAIN sub.pending : sub.pending[i].id = update.id}
    <3>1. CASE at = {}
      <4>1. sub'.pending = Append(sub.pending, update)
        BY <2>1, <3>1 DEF Buffered
      <4> QED
        BY <4>1, <1>t
    <3>2. CASE at # {}
      <4>1. sub'.pending = [i \in DOMAIN sub.pending |-> IF i \in at THEN update ELSE sub.pending[i]]
        BY <2>1, <3>2 DEF Buffered
      <4> HIDE DEF at
      <4> QED
        BY <4>1
    <3> QED
      BY <3>1, <3>2
  <2> QED
    BY <2>1, <2>2 DEF Said
<1>3. CASE sub.on /\ ~ sub.boot
  <2>1. wire' = Append(wire, update) /\ sub'.pending = sub.pending
    BY <1>3, <1>t DEF BufferOrEmit, Subs
  <2>2. /\ \A i \in DOMAIN wire : i \in DOMAIN wire' /\ wire'[i] = wire[i]
        /\ wire'[Len(wire) + 1] = update
        /\ \A i \in DOMAIN wire' : i \in DOMAIN wire \/ i = Len(wire) + 1
    BY <2>1, <1>t, AppendedMessage
  <2> QED
    BY <2>1, <2>2 DEF Said
<1> QED
  BY <1>1, <1>2, <1>3

\* When a message is received no answer is left, and the listing is over or answered.
LEMMA ReceivedControl ==
    ASSUME Shape, SessionControl, wire # <<>>, wire' = Tail(wire)
    PROVE  /\ ~ AnswerComes' /\ sub.on /\ listing.at \notin {"sent", "received", "captured"}
           /\ Head(wire) = wire[1]
           /\ Head(wire).kind = "update" => Head(wire) \in Updates /\ ~ AnswerComes /\ listing.at # "answered"
           /\ Head(wire).kind = "answer" => Head(wire) \in Answers /\ AnswerComes
<1>t. wire \in Seq(Updates \cup Answers)
  BY SessionTypes
<1>1. /\ \A i \in DOMAIN wire' : i \in Nat /\ i >= 1 /\ i + 1 \in DOMAIN wire /\ wire'[i] = wire[i + 1]
      /\ Head(wire) = wire[1] /\ 1 \in DOMAIN wire
  BY <1>t, ReceivedMessage
<1>2. wire' # <<>> => 1 \in DOMAIN wire'
  BY <1>t
<1>3. ~ AnswerComes' /\ sub.on /\ listing.at \notin {"sent", "received", "captured"}
  BY <1>1, <1>2 DEF SessionControl, AnswerComes
<1>4. Head(wire) \in Updates \cup Answers
  BY <1>t
<1>5. Head(wire).kind = "update" => Head(wire) \in Updates /\ ~ AnswerComes /\ listing.at # "answered"
  BY <1>1, <1>4 DEF Answers, AnswerComes, SessionControl
<1>6. Head(wire).kind = "answer" => Head(wire) \in Answers /\ AnswerComes
  BY <1>1, <1>4 DEF Updates, AnswerComes
<1> QED
  BY <1>1, <1>3, <1>5, <1>6

\* Steps at which nothing is sent.
LEMMA AnswerMoves ==
    ASSUME NothingLapses, Shape, Shape', DemandInv, Controls, [Next]_vars
    PROVE  ~ AnswerComes' \/ ListingAnswers \/ (AnswerComes /\ wire'[1] = wire[1])
<1>c. SessionControl
  BY DEF Controls
<1>1. CASE wire' = wire
  BY <1>1 DEF AnswerComes
<1>2. CASE wire' = <<>>
  BY <1>2 DEF AnswerComes
<1>3. CASE Stands \/ TakesOver \/ LosesProjects \/ DeviceRead \/ ListingArrives \/ ListingCaptures \/ OtherNumbers
  <2>1. wire' = wire
    BY <1>3 DEF Stands, TakesOver, LosesProjects, StayPut, DeviceRead, ListingArrives, ListingCaptures,
                OtherNumbers, sessionVars
  <2> QED
    BY <2>1, <1>1
<1>4. CASE Leaves \/ Restarts \/ IsKilled \/ AsksForListing
  BY <1>4, <1>2 DEF Leaves, Restarts, IsKilled, AsksForListing, Unsubscribed
<1>5. CASE ReceiveAnswer \/ ReceiveUpdate
  BY <1>5, <1>c, ReceivedControl DEF ReceiveAnswer, ReceiveUpdate
<1>6. ASSUME NEW id \in Ids, NEW value \in Contents \cup {None}, Mutate(id, value)
      PROVE  wire' = wire
  BY <1>6 DEF Mutate
<1> QED
  BY <1>c, <1>1, <1>3, <1>4, <1>5, <1>6, AnswerKept, StepsOfAll

LEMMA SaysLittle ==
    ASSUME NothingLapses, Shape, Shape', DemandInv, Controls, [Next]_vars, ~ Restarts
    PROVE  OneNew
<1>t. /\ sub \in Subs /\ sub.pending \in Seq(Updates) /\ wire \in Seq(Updates \cup Answers)
      /\ job \in [Ids -> Jobs] /\ collection' \in Collection /\ txn \in Txns /\ txn.deltas \in Seq(Updates)
  <2>1. collection' \in Collection
    BY DEF Shape, DaemonShape
  <2> QED
    BY <2>1, SessionTypes, RowTypes
<1>c. SessionControl
  BY DEF Controls
<1>n. NothingNew => OneNew
  BY DEF NothingNew, OneNew
<1>1. CASE Stands \/ TakesOver \/ DeviceRead \/ ListingCaptures \/ OtherNumbers
  <2>1. UNCHANGED <<wire, sub>> /\ txn'.deltas = txn.deltas
    BY <1>1 DEF Stands, TakesOver, StayPut, DeviceRead, ListingCaptures, OtherNumbers, sessionVars,
                rowVars
  <2> QED
    BY <2>1, <1>n DEF NothingNew, Said
<1>2. CASE LosesProjects
  <2>1. UNCHANGED <<wire, sub>> /\ txn'.deltas = <<>>
    BY <1>2 DEF LosesProjects, Abandons, StayPut, NoTxn
  <2> QED
    BY <2>1, <1>n DEF NothingNew, Said
<1>3. CASE Leaves \/ IsKilled
  <2>1. wire' = <<>> /\ sub'.pending = <<>> /\ txn'.deltas \in {<<>>, txn.deltas}
    BY <1>3 DEF Leaves, IsKilled, Unsubscribed, NoSub, Abandons, NoTxn
  <2> QED
    BY <2>1, <1>n DEF NothingNew, Said
<1>4. CASE AsksForListing
  <2>1. wire' = <<>> /\ sub'.pending = <<>> /\ txn'.deltas = txn.deltas
    BY <1>4, <1>t DEF AsksForListing, NoSub, Txns
  <2> QED
    BY <2>1, <1>n DEF NothingNew, Said
<1>5. CASE ListingArrives
  <2>1. wire' = wire /\ sub'.pending = <<>> /\ txn' = txn
    BY <1>5 DEF ListingArrives, NoSub, rowVars
  <2> QED
    BY <2>1, <1>n DEF NothingNew, Said
<1>6. CASE ReceiveAnswer
  <2>1. wire # <<>> /\ wire' = Tail(wire) /\ sub' = sub /\ (txn' = txn \/ txn' = NoTxn)
    BY <1>6 DEF ReceiveAnswer
  <2>2. \A i \in DOMAIN wire' : i + 1 \in DOMAIN wire /\ wire'[i] = wire[i + 1]
    BY <2>1, <1>t, ReceivedMessage
  <2> QED
    BY <2>1, <2>2, <1>n DEF NothingNew, Said, NoTxn
<1>7. CASE ReceiveUpdate
  <2>1. wire # <<>> /\ wire' = Tail(wire) /\ sub' = sub
    BY <1>7 DEF ReceiveUpdate
  <2>2. \A i \in DOMAIN wire' : i + 1 \in DOMAIN wire /\ wire'[i] = wire[i + 1]
    BY <2>1, <1>t, ReceivedMessage
  <2>3. txn'.deltas = txn.deltas \/ txn'.deltas = Append(txn.deltas, wire[1])
    <3>1. txn' = txn \/ txn' = [txn EXCEPT !.deltas = Append(txn.deltas, wire[1])]
      BY <1>7, <2>1, <1>t DEF ReceiveUpdate
    <3> QED
      BY <3>1, <1>t DEF Txns
  <2>4. 1 \in DOMAIN wire /\ Head(wire) = wire[1]
    BY <2>1, <1>t
  <2>5. \A i \in DOMAIN txn'.deltas : txn'.deltas[i] = wire[1]
            \/ \E j \in DOMAIN txn.deltas : txn.deltas[j] = txn'.deltas[i]
    <3>1. wire[1] \in Updates
      BY <1>7, <2>1, <1>c, ReceivedControl DEF ReceiveUpdate
    <3>2. CASE txn'.deltas = Append(txn.deltas, wire[1])
      BY <3>1, <3>2, <1>t
    <3> QED
      BY <2>3, <3>2
  <2> QED
    BY <2>1, <2>2, <2>4, <2>5, <1>n DEF NothingNew, Said
<1>8. ASSUME NEW id \in Ids, NEW value \in Contents \cup {None}, Mutate(id, value)
      PROVE  OneNew
  BY <1>8, <1>n DEF Mutate, rowVars, NothingNew, Said
<1>9. ASSUME NEW id \in Ids, JobReads(id) \/ JobFindsGone(id)
      PROVE  OneNew
  <2>1. wire' = wire /\ txn' = txn /\ sub'.pending = sub.pending
    BY <1>9, <1>t DEF JobReads, JobFindsGone, rowVars, Subs
  <2> QED
    BY <2>1, <1>n DEF NothingNew, Said
<1>10. ASSUME NEW id \in Ids, JobUpserts(id)
      PROVE  OneNew
  <2> DEFINE update == Update(id, job[id].value, SequenceFor(collection', id))
  <2>1. job[id].value \in Contents
    BY <1>10, <1>t DEF JobUpserts, Jobs
  <2>2. update \in Updates
    BY <2>1, <1>t, UpdateType
  <2>3. (UNCHANGED <<sub, wire>> \/ BufferOrEmit(sub, update)) /\ txn' = txn
    BY <1>10 DEF JobUpserts, rowVars
  <2>4. CASE UNCHANGED <<sub, wire>>
    BY <2>3, <2>4, <1>n DEF NothingNew, Said
  <2>5. CASE BufferOrEmit(sub, update)
    <3>1. \A m \in Said' : m \in Said \/ m = update
      <4> HIDE DEF update
      <4> QED
        BY <2>2, <2>3, <2>5, BufferOrEmitSays
    <3> QED
      BY <2>1, <3>1 DEF OneNew
  <2> QED
    BY <2>3, <2>4, <2>5
<1>11. ASSUME NEW id \in Ids, JobRemoves(id)
      PROVE  OneNew
  <2> DEFINE update == Update(id, None, SequenceFor(collection', id))
  <2>2. update \in Updates
    BY <1>t, UpdateType
  <2>3. BufferOrEmit(sub, update) /\ txn' = txn
    BY <1>11 DEF JobRemoves, rowVars
  <2>4. \A m \in Said' : m \in Said \/ m = update
    <3> HIDE DEF update
    <3> QED
      BY <2>2, <2>3, BufferOrEmitSays
  <2> QED
    BY <2>4 DEF OneNew
<1>12. CASE ListingAnswers
  <2>1. PICK m : wire' = Append(wire, m) /\ m.kind = "answer"
    BY <1>12 DEF ListingAnswers
  <2>2. wire = <<>>
    BY <1>12, <1>c DEF ListingAnswers, SessionControl
  <2>3. \A i \in DOMAIN wire' : wire'[i].kind = "answer"
    BY <2>1, <2>2
  <2>4. sub'.pending = sub.pending /\ txn' = txn
    <3> DEFINE read == Read(collection', generation, listing.cursor)
    <3>1. sub' = [sub EXCEPT !.last = [id \in Ids |-> IF id \in DOMAIN read.values THEN "seeded" ELSE sub.last[id]]]
      BY <1>12 DEF ListingAnswers
    <3> QED
      BY <1>12, <3>1, <1>t DEF ListingAnswers, rowVars, Subs
  <2>5. \A m2 \in Updates : m2.kind = "update"
    BY DEF Updates
  <2>6. \A m2 \in Said' : \/ \E i \in DOMAIN sub.pending : sub.pending[i] = m2
                          \/ \E i \in DOMAIN txn.deltas : txn.deltas[i] = m2
    BY <2>3, <2>4, <2>5 DEF Said
  <2>7. Said' \subseteq Updates
    BY DEF Said, Updates
  <2> QED
    BY <2>6, <2>7, <1>n DEF NothingNew, Said
<1>13. CASE ListingFlushes
  <2> DEFINE sent == ToFlush(sub.pending, listing.values)
  <2>1. /\ sent \in Seq(Updates) /\ wire' = wire \o sent /\ txn' = txn
        /\ \A k \in DOMAIN sent : \E i \in DOMAIN sub.pending : sent[k] = sub.pending[i]
    BY <1>13, <1>t, ToFlushType DEF ListingFlushes, rowVars
  <2>2. sub'.pending = <<>>
    BY <1>13, <1>t DEF ListingFlushes, Subs
  <2> HIDE DEF sent
  <2>3. \A i \in DOMAIN wire' : \/ i \in DOMAIN wire /\ wire'[i] = wire[i]
                                \/ /\ i > Len(wire) /\ i - Len(wire) \in DOMAIN sent
                                   /\ wire'[i] = sent[i - Len(wire)]
    BY <2>1, <1>t, SentMessages
  <2>4. \A i \in DOMAIN wire' : \/ \E j \in DOMAIN wire : wire[j] = wire'[i]
                             \/ \E j \in DOMAIN sub.pending : sub.pending[j] = wire'[i]
    BY <2>1, <2>3
  <2>5. DOMAIN sub'.pending = {} /\ txn'.deltas = txn.deltas
    BY <2>1, <2>2
  <2>6. Said' \subseteq Updates
    BY DEF Said, Updates
  <2> QED
    BY <2>4, <2>5, <2>6, <1>n DEF NothingNew, Said
<1> QED
  BY <1>1, <1>2, <1>3, <1>4, <1>5, <1>6, <1>7, <1>8, <1>9, <1>10, <1>11, <1>12, <1>13, StepsOfAll

LEMMA NumbersStep ==
    ASSUME NothingLapses, Shape, Shape', DemandInv, Controls, Numbers, [Next]_vars
    PROVE  Numbers'
<1>t. /\ generation \in Nat /\ collection.head \in Nat /\ app.cursor \in Cursors /\ durable.cursor \in Cursors
      /\ listing.cursor \in Cursors /\ collection' \in Collection /\ WellNumbered(collection')
      /\ app'.cursor \in Cursors /\ durable'.cursor \in Cursors
  <2>1. /\ collection' \in Collection /\ WellNumbered(collection') /\ listing \in Listings
        /\ app'.cursor \in Cursors /\ durable'.cursor \in Cursors
    BY DEF Shape, DaemonShape, SessionShape, RowShape, Helds
  <2> QED
    BY <2>1, RowTypes, CollectionTypes DEF Listings
<1>c. SessionControl /\ TransactionControl
  BY DEF Controls
<1>1. CASE Restarts
  <2>1. wire' = <<>> /\ sub'.pending = <<>> /\ generation' = generation + 1
    BY <1>1 DEF Restarts, Unsubscribed, NoSub
  <2>2. txn'.deltas = <<>> /\ app'.cursor = app.cursor
    BY <1>1, <1>c DEF Restarts, Abandons, NoTxn, TransactionControl
  <2>3. durable' = durable
    <3>1. ~ DeviceRead /\ ~ Flush
      BY <1>1, <1>t DEF Restarts, DeviceRead, Flush, daemonVars
    <3> QED
      BY <3>1, StepsOfAll
  <2>4. CursorPast(app.cursor)' /\ CursorPast(durable.cursor)'
    BY <2>1, <2>2, <2>3, <1>t DEF Numbers, CursorPast, Past, Cursors
  <2>5. Said' = {}
    BY <2>1, <2>2 DEF Said
  <2> QED
    BY <2>1, <2>4, <2>5 DEF Numbers, AnswerComes
<1>2. CASE ~ Restarts
  <2>1. generation' = generation /\ Evolves(collection, collection')
    BY <1>2, CollectionMoves
  <2>2. \A m \in Said' : Numbered(m)'
    <3>1. TAKE m \in Said'
    <3>2. m \in Updates
      BY DEF Said
    <3> QED
      BY <1>2, <2>1, <3>2, SaysLittle, SaidStaysNumbered DEF OneNew
  <2>3. ASSUME NEW cursor \in Cursors, CursorPast(cursor)
        PROVE  Past(cursor, generation', collection'.head)
    BY <2>1, <2>3, CursorStaysPast
  <2>4. CursorPast(app.cursor)
    BY DEF Numbers
  <2>5. CursorPast(durable.cursor)
    BY DEF Numbers
  <2>6. Past(app'.cursor, generation', collection'.head)
    <3>1. CASE app'.cursor = app.cursor
      BY <2>3, <2>4, <3>1, <1>t
    <3>2. CASE DeviceRead
      BY <3>2, <2>3, <2>5, <1>t, DeviceReadRestores
    <3>3. CASE IsKilled
      BY <3>3 DEF IsKilled, Held, Past
    <3>4. CASE ReceiveAnswer
      <4>0. /\ wire # <<>> /\ wire' = Tail(wire) /\ Head(wire).kind = "answer"
        BY <3>4 DEF ReceiveAnswer
      <4>1. Head(wire) = wire[1] /\ wire[1] \in Answers /\ AnswerComes
        BY <4>0, <1>c, ReceivedControl
      <4>2. CASE txn.at # "listing"
        BY <3>1, <3>4, <4>2 DEF ReceiveAnswer
      <4>3. CASE txn.at = "listing"
        <5> DEFINE new == Cursor(wire[1].generation, wire[1].read.head)
                   cursor == WriteCursor(app.cursor, new)
        <5>1. app'.cursor = NotedAll(cursor, txn.deltas)
          BY <3>4, <4>1, <4>3 DEF ReceiveAnswer, Held
        <5>2. /\ wire[1].generation = generation /\ wire[1].read.head <= collection.head
              /\ wire[1].read.head \in Nat
          BY <4>1, <1>c DEF SessionControl, Numbers, Answers, Reads
        <5>3. new \in Cursors /\ CursorPast(new)
          BY <5>2, <1>t DEF Cursor, Cursors, CursorPast, Past
        <5>4. cursor \in Cursors /\ CursorPast(cursor)
          BY <5>3, <2>4, <1>t DEF WriteCursor
        <5> HIDE DEF cursor
        <5>5. Past(app'.cursor, generation, collection.head)
          BY <5>1, <5>4, NotedAllPast DEF CursorPast
        <5> QED
          BY <5>5, <2>3, <1>t DEF CursorPast
      <4> QED
        BY <4>2, <4>3
    <3>5. CASE ReceiveUpdate
      <4>0. /\ wire # <<>> /\ wire' = Tail(wire) /\ Head(wire).kind = "update"
        BY <3>5 DEF ReceiveUpdate
      <4>1. Head(wire) = wire[1] /\ wire[1] \in Updates
        BY <4>0, <1>c, ReceivedControl
      <4>2. Numbered(wire[1])
        <5>1. 1 \in DOMAIN wire
          BY <4>0, SessionTypes
        <5>2. wire[1] \in Said
          BY <4>1, <5>1 DEF Said
        <5> QED
          BY <5>2 DEF Numbers
      <4>3. app'.cursor = app.cursor \/ app'.cursor = Noted(app.cursor, wire[1])
        BY <3>5, <4>1 DEF ReceiveUpdate, Held
      <4>4. Past(app'.cursor, generation, collection.head)
        BY <4>1, <4>2, <4>3, <2>4, <1>t, NotedPast DEF CursorPast
      <4> QED
        BY <4>4, <2>3, <1>t DEF CursorPast
    <3>6. CASE Stands \/ TakesOver \/ LosesProjects \/ Leaves \/ AsksForListing \/ OtherNumbers
               \/ ListingArrives \/ ListingCaptures \/ ListingAnswers \/ ListingFlushes
      <4>1. app'.cursor = app.cursor
        BY <3>6 DEF Stands, TakesOver, LosesProjects, Leaves, Abandons, AsksForListing, OtherNumbers,
                    ListingArrives, ListingCaptures, ListingAnswers, ListingFlushes, rowVars
      <4> QED
        BY <3>1, <4>1
    <3>7. CASE \/ \E id \in Ids : JobReads(id) \/ JobUpserts(id) \/ JobFindsGone(id) \/ JobRemoves(id)
               \/ \E id \in Ids, value \in Contents \cup {None} : Mutate(id, value)
      <4>1. app'.cursor = app.cursor
        BY <3>7 DEF JobReads, JobUpserts, JobFindsGone, JobRemoves, Mutate, rowVars
      <4> QED
        BY <3>1, <4>1
    <3> QED
      BY <1>2, <3>2, <3>3, <3>4, <3>5, <3>6, <3>7, StepsOfAll
  <2>7. Past(durable'.cursor, generation', collection'.head)
    <3>1. durable' = durable \/ durable' = app
      <4>1. DeviceRead => durable' = durable
        BY DeviceReadRestores
      <4>2. Flush => durable' = app
        BY FlushWrites
      <4> QED
        BY <4>1, <4>2, StepsOfAll
    <3> QED
      BY <3>1, <2>3, <2>4, <2>5, <1>t
  <2>8. (AnswerComes => wire[1].read.head <= collection.head)'
    <3>0. collection'.head \in Nat /\ collection.head <= collection'.head
      BY <2>1, <1>t DEF Evolves, Collection
    <3>1. CASE AnswerComes /\ wire'[1] = wire[1]
      <4>1. wire[1].read.head <= collection.head
        BY <3>1 DEF Numbers
      <4>2. wire[1].read.head \in Nat
        <5>1. wire[1] \in Updates \cup Answers
          BY <3>1, SessionTypes DEF AnswerComes
        <5> QED
          BY <3>1, <5>1 DEF AnswerComes, Updates, Answers, Reads
      <4> QED
        BY <3>0, <3>1, <4>1, <4>2, <1>t
    <3>2. CASE ListingAnswers
      <4> DEFINE read == Read(collection', generation, listing.cursor)
      <4>1. wire' = Append(wire, [kind |-> "answer", read |-> read, generation |-> generation]) /\ wire = <<>>
        BY <3>2, <1>c DEF ListingAnswers, SessionControl
      <4>2. read.head = collection'.head
        BY <1>t, ReadType DEF Cursors
      <4> HIDE DEF read
      <4>3. wire'[1].read = read
        BY <4>1
      <4> QED
        BY <3>0, <4>2, <4>3
    <3> QED
      BY <1>c, <3>1, <3>2, AnswerMoves
  <2> QED
    BY <2>2, <2>6, <2>7, <2>8 DEF Numbers, CursorPast
<1> QED
  BY <1>1, <1>2

LEMMA NumbersStart == Init => Numbers
<1> SUFFICES ASSUME Init PROVE Numbers
  OBVIOUS
<1>1. wire = <<>> /\ sub.pending = <<>> /\ txn.deltas = <<>> /\ app.cursor = None /\ durable.cursor = None
  BY DEF Init, NoSub, NoTxn, Held
<1> QED
  BY <1>1 DEF Numbers, Said, CursorPast, Past, AnswerComes

-----------------------------------------------------------------------------
(***************************************************************************)
(* What has been recorded, read and captured.                              *)
(***************************************************************************)
IsPending(id) == \E i \in DOMAIN sub.pending : sub.pending[i].id = id
Pends(id, value) == \E i \in DOMAIN sub.pending : sub.pending[i].id = id /\ sub.pending[i].value = value

\* What a transaction has recorded is still so, and a listing that was answered
\* meanwhile says nothing else.
RecordedIsTrue ==
  /\ \A i \in DOMAIN txn.deltas : txn.deltas[i].value = truth[txn.deltas[i].id]
  /\ \A id \in Ids : Recorded(id) =>
        /\ listing.at = "captured" => listing.values[id] = truth[id]
        /\ listing.at = "answered" => listing.values[id] \in {None, truth[id]}

\* What a job has read is still so, or it will read again.
JobsTrue ==
  \A id \in Ids : ~ job[id].again =>
     /\ job[id].at = "read" => job[id].value = truth[id]
     /\ job[id].at = "removing" => truth[id] = None

\* While a subscription starts, nothing it has not heard of goes; what is pending, or
\* else captured, is so unless a job will tell.
CapturedAt(id) ==
  /\ truth[id] = None => job[id] = NoJob /\ ~ IsPending(id)
  /\ job[id].at # "removing" /\ (job[id].at = "read" => job[id].value # None)
  /\ job[id].at = "idle" /\ IsPending(id) => Pends(id, truth[id])
  /\ listing.at = "captured" =>
        /\ truth[id] = None => listing.values[id] = None
        /\ job[id].at = "idle" /\ ~ IsPending(id) => listing.values[id] = truth[id]

Captured == listing.at \in {"received", "captured"} => \A id \in Ids : CapturedAt(id)

Truthful == RecordedIsTrue /\ JobsTrue /\ Captured

\* A job that sends what it has read says it to the subscription, unless that
\* was the last it said.
LEMMA UpsertSends ==
    ASSUME Shape, Shape', Controls, NEW id \in Ids, JobUpserts(id)
    PROVE  /\ sub.on /\ job[id].at = "read" /\ job[id].value \in Contents
           /\ job'[id] = Finished(job[id]) /\ \A o \in Ids : o # id => job'[o] = job[o]
           /\ UNCHANGED <<truth, generation, listing, txn, app>>
           /\ \/ sub.last[id] = job[id].value /\ UNCHANGED <<sub, wire>>
              \/ \E m \in Updates : m.id = id /\ m.value = job[id].value /\ BufferOrEmit(sub, m)
<1>t. job \in [Ids -> Jobs] /\ collection' \in Collection
  <2>1. collection' \in Collection
    BY DEF Shape, DaemonShape
  <2> QED
    BY <2>1, SessionTypes
<1>1. job[id].at = "read" /\ job[id].value \in Contents
  BY <1>t DEF JobUpserts, Jobs
<1>2. sub.on
  BY <1>1 DEF Controls, SessionControl, NoJob
<1>3. job' = [job EXCEPT ![id] = Finished(job[id])] /\ UNCHANGED <<truth, generation, listing, txn, app>>
  BY DEF JobUpserts, rowVars
<1>4. job'[id] = Finished(job[id]) /\ \A o \in Ids : o # id => job'[o] = job[o]
  BY <1>3, <1>t
<1> DEFINE m == Update(id, job[id].value, SequenceFor(collection', id))
<1>5. m \in Updates /\ m.id = id /\ m.value = job[id].value
  BY <1>1, <1>t, UpdateType DEF Update
<1>6. (sub.last[id] = job[id].value /\ UNCHANGED <<sub, wire>>) \/ BufferOrEmit(sub, m)
  BY DEF JobUpserts, Update
<1> HIDE DEF m
<1> QED
  BY <1>1, <1>2, <1>3, <1>4, <1>5, <1>6

LEMMA RemovalSends ==
    ASSUME Shape, Shape', Controls, NEW id \in Ids, JobRemoves(id)
    PROVE  /\ sub.on /\ job[id].at = "removing"
           /\ job'[id] = Finished(job[id]) /\ \A o \in Ids : o # id => job'[o] = job[o]
           /\ UNCHANGED <<truth, generation, listing, txn, app>>
           /\ \E m \in Updates : m.id = id /\ m.value = None /\ BufferOrEmit(sub, m)
<1>t. job \in [Ids -> Jobs] /\ collection' \in Collection
  <2>1. collection' \in Collection
    BY DEF Shape, DaemonShape
  <2> QED
    BY <2>1, SessionTypes
<1>1. job[id].at = "removing"
  BY DEF JobRemoves
<1>2. sub.on
  BY <1>1 DEF Controls, SessionControl, NoJob
<1>3. job' = [job EXCEPT ![id] = Finished(job[id])] /\ UNCHANGED <<truth, generation, listing, txn, app>>
  BY DEF JobRemoves, rowVars
<1>4. job'[id] = Finished(job[id]) /\ \A o \in Ids : o # id => job'[o] = job[o]
  BY <1>3, <1>t
<1> DEFINE m == Update(id, None, SequenceFor(collection', id))
<1>5. m \in Updates /\ m.id = id /\ m.value = None
  BY <1>t, UpdateType DEF Update
<1>6. BufferOrEmit(sub, m)
  BY DEF JobRemoves
<1> HIDE DEF m
<1> QED
  BY <1>1, <1>2, <1>3, <1>4, <1>5, <1>6

\* What is pending when an update is buffered.
LEMMA BufferedPends ==
    ASSUME Shape, Controls, sub.boot, NEW m \in Updates, BufferOrEmit(sub, m)
    PROVE  /\ UNCHANGED wire /\ sub'.last = sub.last /\ sub'.on = sub.on /\ sub'.boot
           /\ IsPending(m.id)' /\ \A x : Pends(m.id, x)' <=> x = m.value
           /\ \A id : id # m.id => (IsPending(id)' <=> IsPending(id)) /\ \A x : Pends(id, x)' <=> Pends(id, x)
<1>t. sub \in Subs /\ sub.pending \in Seq(Updates) /\ (sub.boot => sub.on)
  BY SessionTypes
<1>1. sub' = [sub EXCEPT !.pending = Buffered(sub.pending, m)] /\ wire' = wire
  BY <1>t DEF BufferOrEmit
<1> DEFINE after == Buffered(sub.pending, m)
<1>2. sub'.pending = after /\ sub'.last = sub.last /\ sub'.on = sub.on /\ sub'.boot
  BY <1>1, <1>t DEF Subs
<1>3. /\ \E i \in DOMAIN after : after[i] = m
      /\ \A i \in DOMAIN after : after[i].id = m.id => after[i] = m
      /\ \A i \in DOMAIN after : after[i].id # m.id =>
           \E j \in DOMAIN sub.pending : sub.pending[j] = after[i]
      /\ \A j \in DOMAIN sub.pending : sub.pending[j].id # m.id =>
           \E i \in DOMAIN after : after[i] = sub.pending[j]
  BY <1>t, BufferedOnce DEF Controls, SessionControl
<1> HIDE DEF after
<1>4. IsPending(m.id)' /\ \A x : Pends(m.id, x)' <=> x = m.value
  BY <1>2, <1>3 DEF IsPending, Pends
<1>5. ASSUME NEW id, id # m.id
      PROVE  (IsPending(id)' <=> IsPending(id)) /\ \A x : Pends(id, x)' <=> Pends(id, x)
  BY <1>2, <1>3, <1>5 DEF IsPending, Pends
<1> QED
  BY <1>1, <1>2, <1>4, <1>5

LEMMA ReadingReads ==
    ASSUME Shape, Controls, NEW id \in Ids, JobReads(id)
    PROVE  /\ sub.on /\ job[id].at = "queued"
           /\ job'[id].at = "read" /\ job'[id].value = truth[id] /\ job'[id].again = job[id].again
           /\ \A o \in Ids : o # id => job'[o] = job[o]
           /\ UNCHANGED <<truth, generation, collection, sub, wire, listing, txn, app>>
<1>t. job \in [Ids -> Jobs]
  BY SessionTypes
<1>1. sub.on
  BY DEF JobReads, Controls, SessionControl, NoJob
<1>2. job' = [job EXCEPT ![id] = [job[id] EXCEPT !.at = "read", !.value = truth[id]]]
  BY DEF JobReads
<1>3. job[id] \in Jobs
  BY <1>t
<1>4. /\ job'[id] = [job[id] EXCEPT !.at = "read", !.value = truth[id]]
      /\ \A o \in Ids : o # id => job'[o] = job[o]
  BY <1>2, <1>t
<1>5. job'[id].at = "read" /\ job'[id].value = truth[id] /\ job'[id].again = job[id].again
  BY <1>3, <1>4 DEF Jobs
<1>6. job[id].at = "queued" /\ UNCHANGED <<truth, generation, collection, sub, wire, listing, txn, app>>
  BY DEF JobReads, daemonVars, rowVars
<1> QED
  BY <1>1, <1>4, <1>5, <1>6

LEMMA GoneIsFound ==
    ASSUME Shape, Controls, NEW id \in Ids, JobFindsGone(id)
    PROVE  /\ sub.on /\ job[id].at = "read" /\ job[id].value = None
           /\ \A o \in Ids : o # id => job'[o] = job[o]
           /\ UNCHANGED <<truth, generation, collection, wire, listing, txn, app>>
           /\ \/ /\ sub.last[id] \in {"none", "removed"} /\ sub' = sub /\ job'[id] = Finished(job[id])
              \/ /\ sub.last[id] \notin {"none", "removed"}
                 /\ job'[id].at = "removing" /\ job'[id].again = job[id].again
                 /\ sub'.pending = sub.pending /\ sub'.on = sub.on /\ sub'.boot = sub.boot
                 /\ sub'.last[id] = "none" /\ \A o \in Ids : o # id => sub'.last[o] = sub.last[o]
<1>t. job \in [Ids -> Jobs] /\ job[id] \in Jobs /\ sub \in Subs
  BY SessionTypes
<1>1. sub.on
  BY DEF JobFindsGone, Controls, SessionControl, NoJob
<1>2. /\ job[id].at = "read" /\ job[id].value = None
      /\ UNCHANGED <<truth, generation, collection, wire, listing, txn, app>>
  BY DEF JobFindsGone, daemonVars, rowVars
<1>3. CASE sub.last[id] \in {"none", "removed"}
  <2>1. job' = [job EXCEPT ![id] = Finished(job[id])] /\ sub' = sub
    BY <1>3 DEF JobFindsGone
  <2> QED
    BY <1>1, <1>2, <1>3, <2>1, <1>t
<1>4. CASE sub.last[id] \notin {"none", "removed"}
  <2>1. job' = [job EXCEPT ![id] = [job[id] EXCEPT !.at = "removing"]] /\ sub' = [sub EXCEPT !.last[id] = "none"]
    BY <1>4 DEF JobFindsGone
  <2>2. job'[id] = [job[id] EXCEPT !.at = "removing"] /\ \A o \in Ids : o # id => job'[o] = job[o]
    BY <2>1, <1>t
  <2>3. job'[id].at = "removing" /\ job'[id].again = job[id].again
    BY <2>2, <1>t DEF Jobs
  <2>4. /\ sub'.pending = sub.pending /\ sub'.on = sub.on /\ sub'.boot = sub.boot
        /\ sub'.last[id] = "none" /\ \A o \in Ids : o # id => sub'.last[o] = sub.last[o]
    BY <2>1, <1>t DEF Subs
  <2> QED
    BY <1>1, <1>2, <1>4, <2>2, <2>3, <2>4
<1> QED
  BY <1>3, <1>4

\* The registry changes: nothing recorded does, and a job will tell.
LEMMA MutationTells ==
    ASSUME NothingLapses, Shape, Controls, NEW id \in Ids, NEW value \in Contents \cup {None}, Mutate(id, value)
    PROVE  /\ truth'[id] = value /\ \A o \in Ids : o # id => truth'[o] = truth[o]
           /\ value = None => ~ sub.on \/ sub.last[id] # "none"
           /\ value # collection.entry[id].value /\ ~ Recorded(id)
           /\ UNCHANGED <<generation, collection, sub, wire, listing, txn, app>>
           /\ ~ sub.on => job' = job
           /\ sub.on => job'[id] = Queued(job[id]) /\ \A o \in Ids : o # id => job'[o] = job[o]
<1>t. job \in [Ids -> Jobs] /\ truth \in Rows
  BY SessionTypes
<1>1. truth' = [truth EXCEPT ![id] = value]
  BY DEF Mutate
<1>2. truth'[id] = value /\ \A o \in Ids : o # id => truth'[o] = truth[o]
  BY <1>1, <1>t DEF Rows
<1>3. job' = IF sub.on THEN [job EXCEPT ![id] = Queued(job[id])] ELSE job
  BY DEF Mutate
<1>4. /\ ~ sub.on => job' = job
      /\ sub.on => job'[id] = Queued(job[id]) /\ \A o \in Ids : o # id => job'[o] = job[o]
  BY <1>3, <1>t
<1> QED
  BY <1>2, <1>4 DEF Mutate, NothingLapses, rowVars

\* A listing that is numbered is what the collection has.
LEMMA ReplaceAllViews ==
    ASSUME NEW c \in Collection, WellNumbered(c), NEW snapshot \in Snapshots,
           NEW order \in Orders(c, snapshot), NEW id \in Ids
    PROVE  ReplaceAll(c, snapshot, order).entry[id].value = snapshot[id]
<1> DEFINE ups == Upserts(c, snapshot)
           removals == Removals(c, snapshot)
           d == [entry |-> [i \in Ids |->
                    IF i \in ups THEN Live(c.head + order[i], snapshot[i])
                    ELSE IF i \in removals THEN Removed(c.head + order[i])
                    ELSE c.entry[i]],
                 expired |-> c.expired, head |-> c.head + Cardinality(ups \cup removals)]
<1>1. ReplaceAll(c, snapshot, order) = TrimTombstones(d)
  BY DEF ReplaceAll
<1>2. d.entry[id] = IF id \in ups THEN Live(c.head + order[id], snapshot[id])
                    ELSE IF id \in removals THEN Removed(c.head + order[id])
                    ELSE c.entry[id]
  OBVIOUS
<1> HIDE DEF d
<1>3. c.entry[id] \in Entry /\ WellFormed(c.entry[id])
  BY DEF Collection, WellNumbered
<1>4. d.entry[id].value = snapshot[id]
  <2>1. CASE id \in ups
    BY <1>2, <2>1 DEF Live
  <2>2. CASE id \notin ups /\ id \in removals
    BY <1>2, <2>2 DEF Removed, Removals
  <2>3. CASE id \notin ups /\ id \notin removals
    BY <1>2, <1>3, <2>3 DEF Upserts, Removals, LiveIds, WellFormed, Entry
  <2> QED
    BY <2>1, <2>2, <2>3
<1>5. d.entry[id].kind = "removed" => d.entry[id].value = None
  BY <1>2, <1>3 DEF Live, Removed, WellFormed
<1>6. TrimTombstones(d).entry[id] = IF id \in Forgotten(d) THEN Unknown ELSE d.entry[id]
  BY DEF TrimTombstones
<1>7. id \in Forgotten(d) => d.entry[id].kind = "removed"
  BY DEF Forgotten, RemovedIds
<1> QED
  BY <1>1, <1>4, <1>5, <1>6, <1>7 DEF Unknown

\* What an answer names is live and as it says.
LEMMA ReadNames ==
    ASSUME NEW c, NEW gen, NEW cursor, NEW id \in DOMAIN Read(c, gen, cursor).values
    PROVE  /\ id \in Ids /\ c.entry[id].kind = "live"
           /\ Read(c, gen, cursor).values[id] = c.entry[id].value
<1>1. CASE Read(c, gen, cursor) = ReadSnapshot(c)
  BY <1>1 DEF ReadSnapshot, LiveIds
<1>2. CASE Read(c, gen, cursor) # ReadSnapshot(c)
  <2> DEFINE after == {i \in LiveIds(c) : c.entry[i].seq > cursor.seq}
  <2>1. Read(c, gen, cursor) =
          [mode |-> "changes", head |-> c.head,
           values |-> [i \in after |-> c.entry[i].value],
           removals |-> {i \in RemovedIds(c) : c.entry[i].seq > cursor.seq}]
    BY <1>2 DEF Read, ReadAfter
  <2>2. Read(c, gen, cursor).values = [i \in after |-> c.entry[i].value]
    BY <2>1
  <2> QED
    BY <2>2 DEF LiveIds
<1> QED
  BY <1>1, <1>2

\* The listing is numbered and answered.
LEMMA AnswerIsGiven ==
    ASSUME Shape, Shape', Controls, ListingAnswers
    PROVE  LET read == Read(collection', generation, listing.cursor)
           IN  /\ listing.at = "captured" /\ listing'.at = "answered" /\ wire = <<>>
               /\ wire' = <<[kind |-> "answer", read |-> read, generation |-> generation]>>
               /\ AnswerComes' /\ wire'[1].read = read /\ read \in Reads
               /\ \A id \in Ids : collection'.entry[id].value = listing.values[id]
               /\ \A id \in Ids : listing'.values[id] # None => id \in DOMAIN read.values
               /\ \A id \in DOMAIN read.values :
                    id \in Ids /\ read.values[id] = listing.values[id] /\ listing'.values[id] = listing.values[id]
               /\ sub'.on = sub.on /\ sub'.boot = sub.boot /\ sub'.pending = sub.pending
               /\ \A id \in Ids : sub'.last[id] \in {"none", "seeded"}
               /\ UNCHANGED <<truth, generation, job, txn, app>>
<1> DEFINE read == Read(collection', generation, listing.cursor)
           last == [id \in Ids |-> IF id \in DOMAIN read.values THEN "seeded" ELSE sub.last[id]]
           named == [id \in Ids |-> IF id \in DOMAIN read.values THEN read.values[id] ELSE None]
<1>t. /\ listing \in Listings /\ sub \in Subs /\ listing.values \in Snapshots /\ listing.cursor \in Cursors
      /\ collection \in Collection /\ WellNumbered(collection) /\ generation \in Nat
      /\ collection' \in Collection /\ WellNumbered(collection')
  <2>1. collection' \in Collection /\ WellNumbered(collection')
    BY DEF Shape, DaemonShape
  <2> QED
    BY <2>1, SessionTypes DEF Listings, Rows, Snapshots
<1>c. SessionControl
  BY DEF Controls
<1>1. /\ listing.at = "captured" /\ UNCHANGED <<truth, generation, job, txn, app>>
      /\ wire' = Append(wire, [kind |-> "answer", read |-> read, generation |-> generation])
      /\ sub' = [sub EXCEPT !.last = last]
      /\ listing' = [listing EXCEPT !.at = "answered", !.values = named]
  BY DEF ListingAnswers, rowVars
<1>2. PICK order \in Orders(collection, listing.values) :
          collection' = ReplaceAll(collection, listing.values, order)
  BY DEF ListingAnswers
<1>3. \A id \in Ids : collection'.entry[id].value = listing.values[id]
  BY <1>t, <1>2, ReplaceAllViews
<1>4. read \in Reads
  BY <1>t, ReadType DEF Cursors
<1>5. wire = <<>> /\ \A id \in Ids : sub.last[id] = "none"
  BY <1>1, <1>c DEF SessionControl
<1>6. \A id \in DOMAIN read.values : id \in Ids /\ read.values[id] = listing.values[id]
  BY <1>3, ReadNames
<1>7. /\ \A id \in Ids : named[id] # None => id \in DOMAIN read.values
      /\ \A id \in DOMAIN read.values : named[id] = read.values[id]
      /\ \A id \in Ids : last[id] \in {"none", "seeded"}
  BY <1>5, <1>6
<1> HIDE DEF read, last, named
<1>8. wire' = <<[kind |-> "answer", read |-> read, generation |-> generation]>>
  BY <1>1, <1>5
<1>9. wire' # <<>> /\ wire'[1].kind = "answer" /\ wire'[1].read = read
  BY <1>8
<1>10. /\ listing'.at = "answered" /\ listing'.values = named
       /\ sub'.last = last /\ sub'.on = sub.on /\ sub'.boot = sub.boot /\ sub'.pending = sub.pending
  BY <1>1, <1>t DEF Listings, Subs
<1>11. AnswerComes'
  BY <1>9 DEF AnswerComes
<1> QED
  BY <1>1, <1>3, <1>4, <1>5, <1>6, <1>7, <1>8, <1>9, <1>10, <1>11 DEF read

\* Once it is recorded, captured or read nothing else is the case unless a job
\* will tell.
LEMMA TruthfulStep ==
    ASSUME NothingLapses, Shape, Shape', DemandInv, Controls, Controls', Truthful, [Next]_vars
    PROVE  Truthful'
<1>t. /\ job \in [Ids -> Jobs] /\ truth \in Rows /\ txn \in Txns /\ txn.deltas \in Seq(Updates)
      /\ (sub.boot => sub.on) /\ sub.boot \in BOOLEAN /\ listing \in Listings /\ sub \in Subs
  BY SessionTypes, RowTypes
<1>c. SessionControl /\ TransactionControl /\ SessionControl'
  BY DEF Controls
<1>0. RecordedIsTrue /\ JobsTrue /\ Captured
  BY DEF Truthful
<1>f. \A id \in Ids : job[id] \in Jobs
  BY <1>t
<1>1. ASSUME UNCHANGED <<truth, job, sub, listing>>, txn'.deltas \in {txn.deltas, <<>>}
      PROVE  Truthful'
  <2>1. RecordedIsTrue'
    BY <1>0, <1>1 DEF RecordedIsTrue, Recorded
  <2>2. JobsTrue' /\ Captured'
    BY <1>0, <1>1 DEF JobsTrue, Captured, CapturedAt, IsPending, Pends
  <2> QED
    BY <2>1, <2>2 DEF Truthful
<1>2. CASE Stands \/ TakesOver \/ LosesProjects \/ DeviceRead \/ ReceiveAnswer \/ OtherNumbers
  <2>1. UNCHANGED <<truth, job, sub, listing>> /\ txn'.deltas \in {txn.deltas, <<>>}
    BY <1>2 DEF Stands, TakesOver, LosesProjects, Abandons, NoTxn, StayPut, DeviceRead, ReceiveAnswer,
                OtherNumbers, daemonVars, sessionVars, rowVars
  <2> QED
    BY <1>1, <2>1
<1>3. CASE Leaves \/ Restarts \/ IsKilled \/ AsksForListing
  <2>1. /\ \A id \in Ids : job'[id] = NoJob
        /\ listing'.at \in {"none", "sent"}
    <3>1. CASE AsksForListing
      BY <3>1 DEF AsksForListing, NoListing
    <3>2. CASE Unsubscribed
      BY <3>2 DEF Unsubscribed, NoListing
    <3> QED
      BY <1>3, <3>1, <3>2 DEF Leaves, Restarts, IsKilled
  <2>2. txn'.deltas \in {txn.deltas, <<>>}
    <3>1. CASE AsksForListing
      <4>1. txn' = [txn EXCEPT !.at = "listing", !.superseding = FALSE]
        BY <3>1 DEF AsksForListing
      <4> QED
        BY <4>1, <1>t DEF Txns
    <3>2. CASE txn' = txn \/ txn' = NoTxn
      BY <3>2 DEF NoTxn
    <3> QED
      BY <1>3, <3>1, <3>2 DEF Leaves, Restarts, IsKilled, Abandons
  <2>3. truth' = truth \/ txn'.deltas = <<>>
    BY <1>3, <1>c DEF Leaves, Restarts, IsKilled, AsksForListing, Abandons, NoTxn, TransactionControl, daemonVars
  <2>4. RecordedIsTrue'
    BY <1>0, <2>1, <2>2, <2>3 DEF RecordedIsTrue
  <2>5. JobsTrue' /\ Captured'
    BY <2>1 DEF JobsTrue, Captured, NoJob
  <2> QED
    BY <2>4, <2>5 DEF Truthful
<1>4. CASE ReceiveUpdate
  <2>1. /\ wire # <<>> /\ wire' = Tail(wire) /\ Head(wire).kind = "update"
        /\ UNCHANGED <<truth, job, sub, listing>>
    BY <1>4 DEF ReceiveUpdate, daemonVars
  <2>2. listing.at \notin {"received", "captured", "answered"} /\ Head(wire) \in Updates
    BY <2>1, <1>c, ReceivedControl
  <2>3. \/ txn' = txn
        \/ /\ txn'.deltas = Append(txn.deltas, Head(wire))
           /\ Head(wire).value = truth[Head(wire).id]
    BY <1>4, <1>t DEF ReceiveUpdate, NothingLapses, Txns
  <2>4. \A i \in DOMAIN txn'.deltas : txn'.deltas[i].value = truth[txn'.deltas[i].id]
    <3>1. CASE txn' = txn
      BY <3>1, <1>0 DEF RecordedIsTrue
    <3>2. CASE txn'.deltas = Append(txn.deltas, Head(wire)) /\ Head(wire).value = truth[Head(wire).id]
      <4> DEFINE u == Head(wire)
      <4>1. txn'.deltas = Append(txn.deltas, u) /\ u.value = truth[u.id] /\ u \in Updates
        BY <3>2, <2>2
      <4> HIDE DEF u
      <4>2. \A i \in DOMAIN txn'.deltas : txn'.deltas[i] = u
              \/ (i \in DOMAIN txn.deltas /\ txn'.deltas[i] = txn.deltas[i])
        BY <4>1, <1>t
      <4> QED
        BY <4>1, <4>2, <1>0 DEF RecordedIsTrue
    <3> QED
      BY <2>3, <3>1, <3>2
  <2>5. RecordedIsTrue'
    BY <2>1, <2>2, <2>4 DEF RecordedIsTrue
  <2>6. JobsTrue' /\ Captured'
    BY <1>0, <2>1, <2>2 DEF JobsTrue, Captured
  <2> QED
    BY <2>5, <2>6 DEF Truthful
<1>5. ASSUME UNCHANGED <<truth, listing, txn>>
      PROVE  RecordedIsTrue'
  BY <1>0, <1>5 DEF RecordedIsTrue, Recorded
<1>6. ASSUME NEW id \in Ids, JobReads(id)
      PROVE  Truthful'
  <2>1. /\ job[id].at = "queued"
        /\ job'[id].at = "read" /\ job'[id].value = truth[id] /\ job'[id].again = job[id].again
        /\ \A o \in Ids : o # id => job'[o] = job[o]
        /\ UNCHANGED <<truth, sub, listing, txn>>
    BY <1>6, ReadingReads
  <2>2. RecordedIsTrue'
    BY <1>5, <2>1
  <2>3. JobsTrue'
    BY <1>0, <2>1 DEF JobsTrue
  <2>4. ASSUME listing.at \in {"received", "captured"}, NEW o \in Ids
        PROVE  CapturedAt(o)'
    <3>1. CapturedAt(o)
      BY <2>4, <1>0 DEF Captured
    <3>2. CASE o # id
      BY <2>1, <3>1, <3>2 DEF CapturedAt, IsPending, Pends
    <3>3. CASE o = id
      <4>1. truth[id] # None
        BY <2>1, <3>1, <3>3 DEF CapturedAt, NoJob
      <4> QED
        BY <2>1, <4>1, <3>1, <3>3 DEF CapturedAt
    <3> QED
      BY <3>2, <3>3
  <2>5. Captured'
    BY <2>1, <2>4 DEF Captured
  <2> QED
    BY <2>2, <2>3, <2>5 DEF Truthful
<1>7. ASSUME NEW id \in Ids, JobUpserts(id)
      PROVE  Truthful'
  <2>1. /\ sub.on /\ job[id].at = "read" /\ job[id].value \in Contents
        /\ job'[id] = Finished(job[id]) /\ \A o \in Ids : o # id => job'[o] = job[o]
        /\ UNCHANGED <<truth, generation, listing, txn, app>>
        /\ \/ sub.last[id] = job[id].value /\ UNCHANGED <<sub, wire>>
           \/ \E m \in Updates : m.id = id /\ m.value = job[id].value /\ BufferOrEmit(sub, m)
    BY <1>7, UpsertSends
  <2>2. RecordedIsTrue'
    BY <1>5, <2>1
  <2>3. JobsTrue'
    BY <1>0, <2>1 DEF JobsTrue, Finished, NoJob
  <2>4. ASSUME listing.at \in {"received", "captured"}, NEW o \in Ids
        PROVE  CapturedAt(o)'
    <3>1. CapturedAt(o)
      BY <2>4, <1>0 DEF Captured
    <3>2. sub.boot /\ sub.last[id] = "none"
      BY <2>4, <1>c DEF SessionControl
    <3>3. sub.last[id] # job[id].value
      BY <2>1, <3>2, ReplicaAssumption
    <3>4. PICK m \in Updates : m.id = id /\ m.value = job[id].value /\ BufferOrEmit(sub, m)
      BY <2>1, <3>3
    <3>5. /\ IsPending(id)' /\ \A x : Pends(id, x)' <=> x = job[id].value
          /\ \A i : i # id => (IsPending(i)' <=> IsPending(i)) /\ \A x : Pends(i, x)' <=> Pends(i, x)
      BY <3>2, <3>4, BufferedPends
    <3>6. CASE o # id
      BY <2>1, <3>1, <3>5, <3>6 DEF CapturedAt
    <3>7. CASE o = id
      <4>1. truth[id] # None
        BY <2>1, <3>1, <3>7 DEF CapturedAt, NoJob
      <4>2. job'[id].at \in {"queued", "idle"} /\ (job'[id].at = "idle" => job[id].value = truth[id])
        BY <2>1, <1>0 DEF Finished, NoJob, JobsTrue
      <4> QED
        BY <2>1, <3>1, <3>5, <3>7, <4>1, <4>2 DEF CapturedAt
    <3> QED
      BY <3>6, <3>7
  <2>5. Captured'
    BY <2>1, <2>4 DEF Captured
  <2> QED
    BY <2>2, <2>3, <2>5 DEF Truthful
<1>8. ASSUME NEW id \in Ids, JobFindsGone(id)
      PROVE  Truthful'
  <2>1. /\ job[id].at = "read" /\ job[id].value = None
        /\ \A o \in Ids : o # id => job'[o] = job[o]
        /\ UNCHANGED <<truth, listing, txn>>
        /\ job'[id] = Finished(job[id]) \/ (job'[id].at = "removing" /\ job'[id].again = job[id].again)
    BY <1>8, GoneIsFound
  <2>2. RecordedIsTrue'
    BY <1>5, <2>1
  <2>3. JobsTrue'
    BY <1>0, <2>1 DEF JobsTrue, Finished, NoJob
  <2>4. listing.at \notin {"received", "captured"}
    BY <2>1, <1>0 DEF Captured, CapturedAt
  <2>5. Captured'
    BY <2>1, <2>4 DEF Captured
  <2> QED
    BY <2>2, <2>3, <2>5 DEF Truthful
<1>9. ASSUME NEW id \in Ids, JobRemoves(id)
      PROVE  Truthful'
  <2>1. /\ job[id].at = "removing"
        /\ job'[id] = Finished(job[id]) /\ \A o \in Ids : o # id => job'[o] = job[o]
        /\ UNCHANGED <<truth, listing, txn>>
    BY <1>9, RemovalSends
  <2>2. RecordedIsTrue'
    BY <1>5, <2>1
  <2>3. JobsTrue'
    BY <1>0, <2>1 DEF JobsTrue, Finished, NoJob
  <2>4. listing.at \notin {"received", "captured"}
    BY <2>1, <1>0 DEF Captured, CapturedAt
  <2>5. Captured'
    BY <2>1, <2>4 DEF Captured
  <2> QED
    BY <2>2, <2>3, <2>5 DEF Truthful
<1>10. CASE ListingArrives
  <2>1. /\ UNCHANGED <<truth, job, txn>> /\ listing.at = "sent" /\ listing'.at = "received" /\ sub'.pending = <<>>
    BY <1>10, <1>t DEF ListingArrives, daemonVars, rowVars, NoSub, Listings
  <2>2. \A id \in Ids : job[id] = NoJob
    BY <2>1, <1>c DEF SessionControl
  <2>3. RecordedIsTrue' /\ JobsTrue'
    BY <1>0, <2>1 DEF RecordedIsTrue, JobsTrue
  <2>4. ASSUME NEW id \in Ids
        PROVE  CapturedAt(id)'
    <3>1. job'[id] = NoJob /\ ~ IsPending(id)'
      BY <2>1, <2>2 DEF IsPending
    <3> QED
      BY <2>1, <3>1 DEF CapturedAt, NoJob
  <2>5. Captured'
    BY <2>4 DEF Captured
  <2> QED
    BY <2>3, <2>5 DEF Truthful
<1>11. CASE ListingCaptures
  <2>1. /\ UNCHANGED <<truth, job, txn, sub>> /\ listing.at = "received" /\ listing'.at = "captured"
        /\ listing'.values = truth
    BY <1>11, <1>t DEF ListingCaptures, daemonVars, rowVars, Listings
  <2>3. RecordedIsTrue' /\ JobsTrue'
    BY <1>0, <2>1 DEF RecordedIsTrue, JobsTrue
  <2>4. Captured'
    BY <1>0, <2>1 DEF Captured, CapturedAt, IsPending, Pends
  <2> QED
    BY <2>3, <2>4 DEF Truthful
<1>13. CASE ListingFlushes
  <2>1. UNCHANGED <<truth, job, txn>> /\ listing'.at = "none"
    BY <1>13 DEF ListingFlushes, daemonVars, rowVars, NoListing
  <2>3. RecordedIsTrue' /\ JobsTrue' /\ Captured'
    BY <1>0, <2>1 DEF RecordedIsTrue, JobsTrue, Captured
  <2> QED
    BY <2>3 DEF Truthful
<1>14. ASSUME NEW id \in Ids, NEW value \in Contents \cup {None}, Mutate(id, value)
      PROVE  Truthful'
  <2>1. /\ truth'[id] = value /\ \A o \in Ids : o # id => truth'[o] = truth[o]
        /\ value = None => ~ sub.on \/ sub.last[id] # "none"
        /\ ~ Recorded(id)
        /\ UNCHANGED <<sub, listing, txn>>
        /\ ~ sub.on => job' = job
        /\ sub.on => job'[id] = Queued(job[id]) /\ \A o \in Ids : o # id => job'[o] = job[o]
    BY <1>14, MutationTells
  <2>d. \A i \in DOMAIN txn.deltas : txn.deltas[i].id \in Ids
    <3>1. \A i \in DOMAIN txn.deltas : txn.deltas[i] \in Updates
      BY <1>t
    <3> QED
      BY <3>1 DEF Updates
  <2>2. RecordedIsTrue'
    <3>1. \A i \in DOMAIN txn.deltas : txn.deltas[i].id # id
      BY <2>1 DEF Recorded
    <3> QED
      BY <1>0, <2>1, <2>d, <3>1 DEF RecordedIsTrue, Recorded
  <2>3. JobsTrue'
    <3>1. CASE ~ sub.on
      <4>1. \A i \in Ids : job'[i] = NoJob
        BY <2>1, <3>1, <1>c DEF SessionControl
      <4> QED
        BY <4>1 DEF JobsTrue, NoJob
    <3>2. CASE sub.on
      <4>1. job'[id].again \/ job'[id].at = "queued"
        BY <2>1, <3>2, <1>f DEF Queued, NoJob, Jobs
      <4> QED
        BY <1>0, <2>1, <3>2, <4>1 DEF JobsTrue
    <3> QED
      BY <3>1, <3>2
  <2>4. ASSUME listing.at \in {"received", "captured"}, NEW o \in Ids
        PROVE  CapturedAt(o)'
    <3>1. CapturedAt(o)
      BY <2>4, <1>0 DEF Captured
    <3>2. sub.on /\ sub.last[id] = "none"
      BY <2>4, <1>c, <1>t DEF SessionControl
    <3>3. CASE o # id
      BY <2>1, <3>1, <3>2, <3>3 DEF CapturedAt, IsPending, Pends
    <3>4. CASE o = id
      <4>1. /\ truth'[id] # None
            /\ job'[id].at \in {"queued", job[id].at} /\ job'[id].at # "idle"
            /\ job'[id].at = "read" => job'[id].value = job[id].value
        BY <2>1, <3>2, <1>f DEF Queued, NoJob, Jobs
      <4> QED
        BY <2>1, <3>1, <3>4, <4>1 DEF CapturedAt
    <3> QED
      BY <3>3, <3>4
  <2>5. Captured'
    BY <2>1, <2>4 DEF Captured
  <2> QED
    BY <2>2, <2>3, <2>5 DEF Truthful
<1>12. CASE ListingAnswers
  <2> DEFINE read == Read(collection', generation, listing.cursor)
  <2>1. /\ listing.at = "captured" /\ listing'.at = "answered"
        /\ \A id \in Ids : listing'.values[id] # None => id \in DOMAIN read.values
        /\ \A id \in DOMAIN read.values : listing'.values[id] = listing.values[id]
        /\ UNCHANGED <<truth, job, txn>>
    BY <1>12, AnswerIsGiven
  <2> HIDE DEF read
  <2>2. ASSUME NEW id \in Ids, Recorded(id)
        PROVE  listing'.values[id] \in {None, truth[id]}
    <3>1. CASE id \in DOMAIN read.values
      BY <1>0, <2>1, <2>2, <3>1 DEF RecordedIsTrue
    <3>2. CASE id \notin DOMAIN read.values
      BY <2>1, <3>2
    <3> QED
      BY <3>1, <3>2
  <2>3. RecordedIsTrue'
    BY <1>0, <2>1, <2>2 DEF RecordedIsTrue, Recorded
  <2>4. JobsTrue' /\ Captured'
    BY <1>0, <2>1 DEF JobsTrue, Captured
  <2> QED
    BY <2>3, <2>4 DEF Truthful
<1>15. ASSUME NEW id \in Ids, JobReads(id) \/ JobUpserts(id) \/ JobFindsGone(id) \/ JobRemoves(id)
       PROVE  Truthful'
  BY <1>6, <1>7, <1>8, <1>9, <1>15
<1> QED
  BY <1>2, <1>3, <1>4, <1>10, <1>11, <1>12, <1>13, <1>14, <1>15, StepsOfAll

LEMMA TruthfulStarts == Init => Truthful
<1> SUFFICES ASSUME Init
             PROVE  Truthful
  OBVIOUS
<1>1. txn.deltas = <<>> /\ listing.at = "none" /\ \A id \in Ids : job[id] = NoJob
  BY DEF Init, NoTxn, NoListing
<1>2. RecordedIsTrue /\ JobsTrue /\ Captured
  BY <1>1 DEF RecordedIsTrue, Recorded, JobsTrue, Captured, NoJob
<1> QED
  BY <1>2 DEF Truthful

-----------------------------------------------------------------------------
(***************************************************************************)
(* What the app holds, what follows it and what a cursor hides.            *)
(***************************************************************************)
\* If the collection c has the value of a workspace and the cursor covers it, the
\* row is there.
Honours(held, gen, c, id, value) ==
  (/\ held.cursor # None /\ held.cursor.generation = gen
   /\ c.entry[id].value = value /\ Mark(c, id) <= held.cursor.seq)
     => held.rows[id] = value

HonestAt(held, id) == Honours(held, generation, collection, id, truth[id])

\* The app's cursor hides nothing as long as the app goes by what it holds, nor
\* anything that has been captured for an answer; the device's never does.
Honesty ==
  /\ Kept => \A id \in Ids : ~ Recorded(id) => HonestAt(app, id)
  /\ \A id \in Ids : HonestAt(durable, id)
  /\ listing.at = "captured" /\ txn.at = "listing" =>
        \A id \in Ids : ~ Recorded(id) => Honours(app, generation, collection, id, listing.values[id])

IsUpdate(m, id) == m.kind = "update" /\ m.id = id
Silent(s, id) == \A i \in DOMAIN s : ~ IsUpdate(s[i], id)
SaysLast(s, id, value) ==
  \E i \in DOMAIN s : /\ IsUpdate(s[i], id) /\ s[i].value = value
                      /\ \A j \in DOMAIN s : IsUpdate(s[j], id) => j <= i

\* The app waits for nothing else than what the subscription sends it.
Follows ==
  /\ sub.on /\ listing.at \in {"none", "answered"}
  /\ (AnswerComes => txn.at = "listing") /\ ~ txn.superseding

\* What the row is, or will be without another update.
Ground(id, value) ==
  IF Recorded(id) THEN value = truth[id]
  ELSE IF AnswerComes THEN value = Merge(txn.base, wire[1].read)[id]
  ELSE value = app.rows[id]

\* What the row will be when all that is on its way has come.
Becomes(id, value) ==
  \/ Pends(id, value)
  \/ ~ IsPending(id) /\ SaysLast(wire, id, value)
  \/ ~ IsPending(id) /\ Silent(wire, id) /\ Ground(id, value)

\* Where no job is under way the row becomes what is; otherwise it becomes what the
\* subscription remembers as sent.
FollowingAt(id) ==
  /\ job[id].at = "idle" => Becomes(id, truth[id])
  /\ sub.last[id] \in Contents => Becomes(id, sub.last[id])
  /\ sub.last[id] = "removed" => Becomes(id, None)
  /\ sub.last[id] = "none" /\ truth[id] = None =>
        /\ job[id].at = "removing" \/ Becomes(id, None)
        /\ job[id].at = "read" => job[id].value = None

\* What an answer has listed is on its way or held.
ListedIsHeld ==
  listing.at = "answered" =>
    /\ \A id \in Ids : listing.values[id] # None =>
         IF AnswerComes THEN id \in DOMAIN wire[1].read.values /\ wire[1].read.values[id] = listing.values[id]
         ELSE app.rows[id] = listing.values[id]
    /\ ~ AnswerComes => txn.deltas = <<>>

Following == Follows => ListedIsHeld /\ \A id \in Ids : FollowingAt(id)

\* A cursor that hides nothing hides nothing when the collection moves on.
LEMMA StaysHonest ==
    ASSUME NEW c \in Collection, WellNumbered(c), NEW d \in Collection, WellNumbered(d),
           Evolves(c, d), NEW held \in Helds, NEW gen \in Nat, Past(held.cursor, gen, c.head),
           NEW id \in Ids, NEW value, Honours(held, gen, c, id, value)
    PROVE  Honours(held, gen, d, id, value)
<1>1. /\ Mark(c, id) \in Nat /\ Mark(d, id) \in Nat /\ c.head \in Nat
      /\ Mark(c, id) <= Mark(d, id)
      /\ d.entry[id].value = c.entry[id].value \/ Mark(d, id) > c.head
  BY MarkLemma DEF Collection
<1>2. held.cursor # None => held.cursor.seq \in Nat
  BY DEF Helds, Cursors
<1> QED
  BY <1>1, <1>2 DEF Honours, Past

\* What is not overtaken is numbered above the cursor.
LEMMA NotOvertaken ==
    ASSUME NEW ms \in Seq(Updates \cup Answers), ~ Overtaken(ms), Shape
    PROVE  /\ CursorSeq(app.cursor) \in Nat
           /\ \A i \in DOMAIN ms : ms[i].kind = "update" => NumberOf(ms[i]) > CursorSeq(app.cursor)
           /\ \A id \in Ids : (job[id].at # "idle" /\ collection.entry[id].value = truth[id]) =>
                collection.entry[id].seq > CursorSeq(app.cursor)
<1> DEFINE below(i, n) == \E m \in {CursorSeq(app.cursor)} \cup {NumberOf(ms[j]) : j \in 1 .. i - 1} : m >= n
<1>1. /\ \A i \in DOMAIN ms : ~ (ms[i].kind = "update" /\ below(i, NumberOf(ms[i])))
      /\ \A id \in Ids : ~ (/\ job[id].at # "idle" /\ collection.entry[id].value = truth[id]
                            /\ below(Len(ms) + 1, collection.entry[id].seq))
  BY DEF Overtaken
<1>2. \A i, n : CursorSeq(app.cursor) >= n => below(i, n)
  OBVIOUS
<1> HIDE DEF below
<1>3. CursorSeq(app.cursor) \in Nat
  BY RowTypes DEF CursorSeq, Cursors
<1>4. ASSUME NEW i \in DOMAIN ms, ms[i].kind = "update"
      PROVE  NumberOf(ms[i]) > CursorSeq(app.cursor)
  <2>1. ms[i] \in Updates \cup Answers
    OBVIOUS
  <2>2. NumberOf(ms[i]) \in Nat
    BY <2>1, <1>4 DEF NumberOf, Updates, Answers
  <2> QED
    BY <1>1, <1>2, <1>3, <1>4, <2>2
<1>5. \A id \in Ids : collection.entry[id].seq \in Nat
  BY CollectionTypes DEF Collection, Entry
<1> QED
  BY <1>1, <1>2, <1>3, <1>4, <1>5

\* An update that is not overtaken, of a workspace that the cursor does not cover.
LEMMA UpdateUncovered ==
    ASSUME Shape, Numbers, NEW m \in Said, NumberOf(m) > CursorSeq(app.cursor)
    PROVE  Honours(app, generation, collection, m.id, truth[m.id])
<1>1. m \in Updates /\ Numbered(m) /\ m.kind = "update" /\ m.id \in Ids
  BY DEF Said, Numbers, Updates
<1>2. app.cursor \in Cursors
  BY RowTypes
<1>3. CASE m.seq = None
  BY <1>1, <1>2, <1>3 DEF NumberOf, CursorSeq, Cursors
<1>4. CASE m.seq # None
  <2>1. m.seq \in Nat /\ m.seq <= Mark(collection, m.id)
    BY <1>1, <1>4 DEF Updates, Numbered
  <2>2. Mark(collection, m.id) \in Nat
    BY <1>1, CollectionTypes DEF Mark, Collection, Entry
  <2>3. m.seq > CursorSeq(app.cursor)
    BY <1>1, <1>4 DEF NumberOf
  <2> QED
    BY <1>2, <2>1, <2>2, <2>3 DEF Honours, CursorSeq, Cursors
<1> QED
  BY <1>3, <1>4

\* What is recorded and true is what remains of the rows.
LEMMA RecordedRows ==
    ASSUME Shape, RecordedIsTrue, NEW rows, NEW id \in Ids
    PROVE  WithDeltas(rows, txn.deltas)[id] = IF Recorded(id) THEN truth[id] ELSE rows[id]
<1> DEFINE of == {i \in DOMAIN txn.deltas : txn.deltas[i].id = id}
<1>1. txn.deltas \in Seq(Updates)
  BY RowTypes
<1>2. WithDeltas(rows, txn.deltas)[id] = IF of = {} THEN rows[id] ELSE txn.deltas[Max(of)].value
  BY DEF WithDeltas
<1>3. CASE of = {}
  <2>1. ~ Recorded(id)
    BY <1>3 DEF Recorded
  <2> QED
    BY <1>2, <1>3, <2>1
<1>4. CASE of # {}
  <2>1. Max(of) \in of
    BY <1>1, <1>4, LastDelta
  <2>2. Recorded(id)
    BY <1>4 DEF Recorded
  <2>3. txn.deltas[Max(of)].value = truth[id]
    <3> DEFINE k == Max(of)
    <3>1. k \in DOMAIN txn.deltas /\ txn.deltas[k].id = id
      BY <2>1
    <3> HIDE DEF k
    <3>2. txn.deltas[k].value = truth[id]
      BY <3>1 DEF RecordedIsTrue
    <3> QED
      BY <3>2 DEF k
  <2> QED
    BY <1>2, <1>4, <2>2, <2>3
<1> QED
  BY <1>3, <1>4

\* What of what is pending the listing has not said is sent; what it has said is
\* what it lists.
LEMMA PendingSent ==
    ASSUME NothingLapses, Shape, NEW i \in DOMAIN sub.pending
    PROVE  LET sent == ToFlush(sub.pending, listing.values)
           IN  \/ \E k \in DOMAIN sent : sent[k] = sub.pending[i]
               \/ /\ ~ SaysMore(sub.pending[i], listing.values)
                  /\ sub.pending[i].value # None
                  /\ sub.pending[i].value = listing.values[sub.pending[i].id]
<1>1. sub.pending \in Seq(Updates)
  BY SessionTypes
<1>2. SaysMore(sub.pending[i], listing.values) =>
        \E k \in DOMAIN ToFlush(sub.pending, listing.values) :
           ToFlush(sub.pending, listing.values)[k] = sub.pending[i]
  BY <1>1, ToFlushKeeps
<1>3. Quiet = {}
  BY DEF NothingLapses
<1> QED
  BY <1>2, <1>3 DEF SaysMore

\* All that was said is an update, and none of it is overtaken if the stream is not.
LEMMA StreamSaid ==
    ASSUME Shape, SessionControl,
           NEW before \in {<<>>, txn.deltas}, ~ Overtaken(before \o Stream)
    PROVE  /\ CursorSeq(app.cursor) \in Nat
           /\ \A i \in DOMAIN wire : wire[i].kind = "update" =>
                wire[i] \in Said /\ NumberOf(wire[i]) > CursorSeq(app.cursor)
           /\ listing.at = "answered" =>
                \A k \in DOMAIN ToFlush(sub.pending, listing.values) :
                   LET m == ToFlush(sub.pending, listing.values)[k]
                   IN  m \in Said /\ NumberOf(m) > CursorSeq(app.cursor)
           /\ \A i \in DOMAIN before : before[i] \in Said /\ NumberOf(before[i]) > CursorSeq(app.cursor)
           /\ \A id \in Ids : (job[id].at # "idle" /\ collection.entry[id].value = truth[id]) =>
                collection.entry[id].seq > CursorSeq(app.cursor)
<1> DEFINE sent == ToFlush(sub.pending, listing.values)
           flushed == IF listing.at = "answered" THEN sent ELSE <<>>
           ms == before \o (wire \o flushed)
<1>t. /\ wire \in Seq(Updates \cup Answers) /\ sub.pending \in Seq(Updates) /\ txn.deltas \in Seq(Updates)
  BY SessionTypes, RowTypes
<1>1. sent \in Seq(Updates) /\ \A k \in DOMAIN sent : \E i \in DOMAIN sub.pending : sent[k] = sub.pending[i]
  BY <1>t, ToFlushType
<1>2. ms = before \o Stream
  BY DEF Stream
<1>3. before \in Seq(Updates) /\ before \in Seq(Updates \cup Answers)
  <2>1. <<>> \in Seq(Updates)
    OBVIOUS
  <2>2. before = <<>> \/ before = txn.deltas
    OBVIOUS
  <2>3. before \in Seq(Updates)
    BY <1>t, <2>1, <2>2
  <2> QED
    BY <2>3
<1>4. flushed \in Seq(Updates) /\ flushed \in Seq(Updates \cup Answers)
  BY <1>1
<1> HIDE DEF sent
<1>5. /\ ms \in Seq(Updates \cup Answers)
      /\ \A i \in DOMAIN before : i \in DOMAIN ms /\ ms[i] = before[i]
      /\ \A i \in DOMAIN wire : i + Len(before) \in DOMAIN ms /\ ms[i + Len(before)] = wire[i]
      /\ \A i \in DOMAIN flushed : i + Len(before) + Len(wire) \in DOMAIN ms
                                /\ ms[i + Len(before) + Len(wire)] = flushed[i]
  <2> HIDE DEF flushed
  <2> DEFINE rest == wire \o flushed
  <2>1. /\ rest \in Seq(Updates \cup Answers)
        /\ \A i \in DOMAIN wire : i \in DOMAIN rest /\ rest[i] = wire[i]
        /\ \A i \in DOMAIN flushed : i + Len(wire) \in DOMAIN rest /\ rest[i + Len(wire)] = flushed[i]
    BY <1>t, <1>4
  <2>2. Len(before) \in Nat /\ Len(wire) \in Nat /\ \A i \in DOMAIN flushed : i \in Nat
    BY <1>t, <1>3, <1>4
  <2> HIDE DEF rest
  <2>3. /\ before \o rest \in Seq(Updates \cup Answers)
        /\ \A i \in DOMAIN before : i \in DOMAIN (before \o rest) /\ (before \o rest)[i] = before[i]
        /\ \A i \in DOMAIN rest : i + Len(before) \in DOMAIN (before \o rest)
                                  /\ (before \o rest)[i + Len(before)] = rest[i]
    BY <2>1, <1>3
  <2>4. \A i \in DOMAIN flushed : i + Len(before) + Len(wire) = (i + Len(wire)) + Len(before)
    BY <2>2
  <2> QED
    BY <2>1, <2>3, <2>4 DEF rest
<1>6. ~ Overtaken(ms)
  BY <1>2
<1> HIDE DEF ms
<1>7. /\ CursorSeq(app.cursor) \in Nat
      /\ \A i \in DOMAIN ms : ms[i].kind = "update" => NumberOf(ms[i]) > CursorSeq(app.cursor)
      /\ \A id \in Ids : (job[id].at # "idle" /\ collection.entry[id].value = truth[id]) =>
           collection.entry[id].seq > CursorSeq(app.cursor)
  BY <1>5, <1>6, NotOvertaken
<1>8. ASSUME NEW i \in DOMAIN wire, wire[i].kind = "update"
      PROVE  wire[i] \in Said /\ NumberOf(wire[i]) > CursorSeq(app.cursor)
  <2>1. wire[i] \in Updates
    BY <1>t, <1>8 DEF Updates, Answers
  <2> QED
    BY <1>5, <1>7, <1>8, <2>1 DEF Said
<1>9. ASSUME listing.at = "answered", NEW k \in DOMAIN sent
      PROVE  sent[k] \in Said /\ NumberOf(sent[k]) > CursorSeq(app.cursor)
  <2>1. sent[k] \in Updates
    BY <1>1
  <2>2. sent[k].kind = "update"
    BY <2>1 DEF Updates
  <2>3. k \in DOMAIN flushed /\ flushed[k] = sent[k]
    BY <1>9
  <2> HIDE DEF flushed
  <2>4. NumberOf(sent[k]) > CursorSeq(app.cursor)
    BY <1>5, <1>7, <2>2, <2>3
  <2> QED
    BY <1>1, <2>1, <2>4 DEF Said
<1>10. ASSUME NEW i \in DOMAIN before
       PROVE  before[i] \in Said /\ NumberOf(before[i]) > CursorSeq(app.cursor)
  <2>1. before[i] \in Updates
    BY <1>3
  <2>2. before[i].kind = "update"
    BY <2>1 DEF Updates
  <2>3. before = txn.deltas
    BY <1>10
  <2> QED
    BY <1>5, <1>7, <2>1, <2>2, <2>3 DEF Said
<1> QED
  BY <1>7, <1>8, <1>9, <1>10 DEF sent

\* Where nothing on its way is overtaken the cursor hides nothing, although the app
\* waits for it.
LEMMA LiveHonest ==
    ASSUME NothingLapses, Shape, SessionControl, Numbers, Following, ~ Kept,
           NEW before \in {<<>>, txn.deltas}, ~ Overtaken(before \o Stream),
           NEW id \in Ids, ~ Recorded(id)
    PROVE  HonestAt(app, id)
<1>1. Follows /\ ~ AnswerComes
  BY SessionTypes DEF Kept, Follows, SessionControl, Listings
<1>2. /\ CursorSeq(app.cursor) \in Nat
      /\ \A i \in DOMAIN wire : wire[i].kind = "update" =>
           wire[i] \in Said /\ NumberOf(wire[i]) > CursorSeq(app.cursor)
      /\ listing.at = "answered" =>
           \A k \in DOMAIN ToFlush(sub.pending, listing.values) :
              LET m == ToFlush(sub.pending, listing.values)[k]
              IN  m \in Said /\ NumberOf(m) > CursorSeq(app.cursor)
      /\ \A o \in Ids : (job[o].at # "idle" /\ collection.entry[o].value = truth[o]) =>
           collection.entry[o].seq > CursorSeq(app.cursor)
  BY StreamSaid
<1>3. \A m \in Said : (NumberOf(m) > CursorSeq(app.cursor) /\ m.id = id) => HonestAt(app, id)
  BY UpdateUncovered DEF HonestAt
<1>4. FollowingAt(id) /\ ListedIsHeld
  BY <1>1 DEF Following
<1>5. CASE job[id].at # "idle"
  <2>1. SUFFICES ASSUME app.cursor # None, app.cursor.generation = generation,
                        collection.entry[id].value = truth[id],
                        Mark(collection, id) <= app.cursor.seq
                 PROVE  FALSE
    BY DEF HonestAt, Honours
  <2>2. collection.entry[id].seq > app.cursor.seq
    BY <1>2, <1>5, <2>1 DEF CursorSeq
  <2>3. /\ collection.entry[id].seq \in Nat /\ app.cursor.seq \in Nat
        /\ collection.entry[id].kind = "unknown" => collection.entry[id].seq = 0
    BY <2>1, CollectionTypes, RowTypes DEF Collection, Entry, WellNumbered, WellFormed, Cursors
  <2> QED
    BY <2>1, <2>2, <2>3 DEF Mark
<1>6. CASE job[id].at = "idle"
  <2>0. Becomes(id, truth[id])
    BY <1>4, <1>6 DEF FollowingAt
  <2>1. CASE Pends(id, truth[id])
    <3>1. PICK i \in DOMAIN sub.pending : sub.pending[i].id = id /\ sub.pending[i].value = truth[id]
      BY <2>1 DEF Pends
    <3>2. listing.at = "answered"
      BY <1>1, <3>1 DEF SessionControl, Follows
    <3>3. CASE \E k \in DOMAIN ToFlush(sub.pending, listing.values) :
                 ToFlush(sub.pending, listing.values)[k] = sub.pending[i]
      BY <1>2, <1>3, <3>1, <3>2, <3>3
    <3>4. CASE sub.pending[i].value # None /\ sub.pending[i].value = listing.values[sub.pending[i].id]
      <4>1. app.rows[id] = truth[id]
        BY <1>1, <1>4, <3>1, <3>2, <3>4 DEF ListedIsHeld
      <4> QED
        BY <4>1 DEF HonestAt, Honours
    <3> QED
      BY <3>3, <3>4, PendingSent
  <2>2. CASE SaysLast(wire, id, truth[id])
    BY <1>2, <1>3, <2>2 DEF SaysLast, IsUpdate
  <2>3. CASE Ground(id, truth[id])
    BY <1>1, <2>3 DEF Ground, HonestAt, Honours
  <2> QED
    BY <2>0, <2>1, <2>2, <2>3 DEF Becomes
<1> QED
  BY <1>5, <1>6

LEMMA StreamHonest ==
    ASSUME NothingLapses, Shape, SessionControl, Numbers, Following, ~ Kept, ~ Overtaken(Stream),
           NEW id \in Ids, ~ Recorded(id)
    PROVE  HonestAt(app, id)
<1>1. ToFlush(sub.pending, listing.values) \in Seq(Updates) /\ wire \in Seq(Updates \cup Answers)
  BY SessionTypes, ToFlushType
<1>2. Stream \in Seq(Updates \cup Answers)
  BY <1>1 DEF Stream
<1>3. <<>> \o Stream = Stream
  BY <1>2
<1> QED
  BY <1>3, LiveHonest

\* No step makes a cursor hide something of rows it leaves.
LEMMA HonestStays ==
    ASSUME NothingLapses, Shape, Shape', DemandInv, Controls, [Next]_vars,
           NEW held \in Helds, CursorPast(held.cursor), NEW id \in Ids, HonestAt(held, id)
    PROVE  Honours(held, generation', collection', id, truth'[id])
<1>t. /\ collection \in Collection /\ WellNumbered(collection) /\ generation \in Nat
      /\ collection' \in Collection /\ WellNumbered(collection')
      /\ job \in [Ids -> Jobs] /\ truth \in Rows /\ sub \in Subs
  <2>1. collection' \in Collection /\ WellNumbered(collection')
    BY DEF Shape, DaemonShape
  <2> QED
    BY <2>1, SessionTypes
<1>0. Honours(held, generation, collection, id, truth[id])
  BY DEF HonestAt
<1>1. CASE Restarts
  BY <1>1, <1>t DEF Restarts, CursorPast, Past, Honours, Helds, Cursors
<1>2. CASE ~ Restarts /\ truth'[id] = truth[id]
  <2>1. generation' = generation /\ Evolves(collection, collection')
    BY <1>2, CollectionMoves
  <2> QED
    BY <1>0, <1>2, <1>t, <2>1, StaysHonest DEF CursorPast
<1>3. ASSUME NEW o \in Ids, NEW value \in Contents \cup {None}, Mutate(o, value)
      PROVE  \/ truth'[id] = truth[id]
             \/ Honours(held, generation', collection', id, truth'[id])
  BY <1>3, MutationTells DEF Honours
<1>4. \/ truth' = truth \/ Restarts
      \/ \E o \in Ids, value \in Contents \cup {None} : Mutate(o, value)
  <2>1. ASSUME NEW o \in Ids, JobReads(o) \/ JobUpserts(o) \/ JobFindsGone(o) \/ JobRemoves(o)
        PROVE  truth' = truth
    BY <2>1 DEF JobReads, JobUpserts, JobFindsGone, JobRemoves, daemonVars
  <2>2. CASE ListingArrives \/ ListingCaptures \/ ListingAnswers \/ ListingFlushes
    BY <2>2 DEF ListingArrives, ListingCaptures, ListingAnswers, ListingFlushes, daemonVars
  <2>3. CASE \/ Stands \/ TakesOver \/ LosesProjects \/ Leaves \/ IsKilled
             \/ DeviceRead \/ AsksForListing \/ ReceiveAnswer \/ ReceiveUpdate \/ OtherNumbers
    BY <2>3 DEF Stands, TakesOver, LosesProjects, StayPut, Leaves, IsKilled, DeviceRead, AsksForListing,
                ReceiveAnswer, ReceiveUpdate, OtherNumbers, daemonVars
  <2> QED
    BY <2>1, <2>2, <2>3, StepsOfAll
<1> QED
  BY <1>1, <1>2, <1>3, <1>4

\* What is written to the device hides nothing.
LEMMA DurableHonest ==
    ASSUME NothingLapses, Shape, Shape', DemandInv, Controls, Numbers, Truthful, Following, Honesty,
           [Next]_vars, NEW id \in Ids
    PROVE  Honours(durable', generation', collection', id, truth'[id])
<1>t. durable \in Helds /\ app \in Helds
  BY RowTypes
<1>c. SessionControl
  BY DEF Controls
<1>1. CASE durable' = durable
  BY <1>t, <1>1, HonestStays DEF Honesty, Numbers
<1>2. CASE Flush
  <2>1. Stands /\ durable' = app /\ ~ Overtaken(txn.deltas \o Stream)
    BY <1>2, FlushWrites
  <2>2. HonestAt(app, id)
    <3>1. CASE Recorded(id)
      <4>1. PICK i \in DOMAIN txn.deltas : txn.deltas[i].id = id
        BY <3>1 DEF Recorded
      <4>2. txn.deltas[i] \in Said /\ NumberOf(txn.deltas[i]) > CursorSeq(app.cursor)
        BY <1>c, <2>1, <4>1, StreamSaid
      <4> QED
        BY <4>1, <4>2, UpdateUncovered DEF HonestAt
    <3>2. CASE ~ Recorded(id) /\ Kept
      BY <3>2 DEF Honesty
    <3>3. CASE ~ Recorded(id) /\ ~ Kept
      BY <1>c, <2>1, <3>3, LiveHonest
    <3> QED
      BY <3>1, <3>2, <3>3
  <2>3. Honours(app, generation', collection', id, truth'[id])
    BY <1>t, <2>2, HonestStays DEF Numbers
  <2> QED
    BY <2>1, <2>3
<1>3. CASE DeviceRead
  BY <1>1, <1>3, DeviceReadRestores
<1> QED
  BY <1>1, <1>2, <1>3, StepsOfAll

\* What is captured is answered with the app's cursor, which hides none of it.
LEMMA CapturedHonest ==
    ASSUME NothingLapses, Shape, Shape', DemandInv, Controls, Numbers, Honesty, [Next]_vars,
           listing'.at = "captured", txn'.at = "listing", NEW id \in Ids, ~ Recorded(id)'
    PROVE  Honours(app', generation', collection', id, listing'.values[id])
<1>t. /\ app \in Helds /\ CursorPast(app.cursor) /\ listing \in Listings
      /\ collection \in Collection /\ WellNumbered(collection) /\ generation \in Nat
      /\ collection' \in Collection /\ WellNumbered(collection') /\ sub \in Subs
  <2>1. collection' \in Collection /\ WellNumbered(collection')
    BY DEF Shape, DaemonShape
  <2> QED
    BY <2>1, SessionTypes, RowTypes DEF Numbers
<1>c. SessionControl /\ TransactionControl
  BY DEF Controls
<1>1. ASSUME UNCHANGED <<listing, txn, app>>, ~ Restarts
      PROVE  Honours(app', generation', collection', id, listing'.values[id])
  <2>1. Honours(app, generation, collection, id, listing.values[id])
    BY <1>1 DEF Honesty, Recorded
  <2>2. generation' = generation /\ Evolves(collection, collection')
    BY <1>1, CollectionMoves
  <2> QED
    BY <1>1, <1>t, <2>1, <2>2, StaysHonest DEF CursorPast
<1>2. CASE Stands \/ OtherNumbers
  <2>1. UNCHANGED <<listing, txn, app, generation>>
    BY <1>2 DEF Stands, StayPut, OtherNumbers, sessionVars, rowVars
  <2> QED
    BY <1>1, <1>t, <2>1 DEF Restarts
<1>3. ASSUME NEW o \in Ids, JobReads(o) \/ JobUpserts(o) \/ JobFindsGone(o) \/ JobRemoves(o)
      PROVE  Honours(app', generation', collection', id, listing'.values[id])
  <2>1. UNCHANGED <<listing, txn, app, generation>>
    BY <1>3 DEF JobReads, JobUpserts, JobFindsGone, JobRemoves, daemonVars, rowVars
  <2> QED
    BY <1>1, <1>t, <2>1 DEF Restarts
<1>4. ASSUME NEW o \in Ids, NEW value \in Contents \cup {None}, Mutate(o, value)
      PROVE  Honours(app', generation', collection', id, listing'.values[id])
  <2>1. UNCHANGED <<listing, txn, app, generation>>
    BY <1>4 DEF Mutate, rowVars
  <2> QED
    BY <1>1, <1>t, <2>1 DEF Restarts
<1>5. CASE ListingCaptures
  <2>1. /\ listing.at = "received" /\ listing'.values = truth
        /\ UNCHANGED <<truth, generation, collection, txn, app>>
    BY <1>5, <1>t DEF ListingCaptures, daemonVars, rowVars, Listings
  <2>2. HonestAt(app, id)
    BY <2>1 DEF Honesty, Kept, Recorded
  <2> QED
    BY <2>1, <2>2 DEF HonestAt
<1>6. CASE ListingArrives \/ ListingAnswers \/ ListingFlushes
  <2>1. CASE ListingArrives
    BY <2>1, <1>t DEF ListingArrives, Listings
  <2>2. CASE ListingAnswers
    BY <2>2, <1>c, AnswerIsGiven DEF Controls
  <2>3. CASE ListingFlushes
    BY <2>3 DEF ListingFlushes, NoListing
  <2> QED
    BY <1>6, <2>1, <2>2, <2>3
<1>7. CASE TakesOver \/ LosesProjects
  BY <1>7 DEF TakesOver, LosesProjects, Abandons, NoTxn
<1>8. CASE Leaves \/ Restarts \/ IsKilled
  BY <1>8 DEF Leaves, Restarts, IsKilled, Unsubscribed, NoListing
<1>9. CASE AsksForListing
  BY <1>9 DEF AsksForListing, NoListing
<1>10. CASE DeviceRead
  BY <1>10, DeviceReadRestores DEF StayPut, UnderWay
<1>11. CASE ReceiveAnswer \/ ReceiveUpdate
  <2>1. wire # <<>> /\ wire' = Tail(wire) /\ listing' = listing
    BY <1>11 DEF ReceiveAnswer, ReceiveUpdate
  <2> QED
    BY <2>1, <1>c, ReceivedControl
<1> QED
  BY <1>2, <1>3, <1>4, <1>5, <1>6, <1>7, <1>8, <1>9, <1>10, <1>11, StepsOfAll

\* Whenever the app goes by what it holds its cursor hides nothing of it.
LEMMA KeptHonest ==
    ASSUME NothingLapses, Shape, Shape', DemandInv, Controls, Controls', Numbers, Truthful, Following,
           Honesty, [Next]_vars, Kept', NEW id \in Ids, ~ Recorded(id)'
    PROVE  HonestAt(app, id)'
<1>t. /\ app \in Helds /\ CursorPast(app.cursor) /\ listing \in Listings
      /\ durable \in Helds /\ CursorPast(durable.cursor)
      /\ generation \in Nat /\ sub \in Subs /\ txn \in Txns /\ txn.superseding \in BOOLEAN
      /\ app' \in Helds /\ wire \in Seq(Updates \cup Answers)
      /\ txn.deltas \in Seq(Updates)
  <2>1. app' \in Helds
    BY DEF Shape, RowShape
  <2> QED
    BY <2>1, SessionTypes, RowTypes DEF Numbers
<1>c. SessionControl /\ TransactionControl /\ RecordedIsTrue
  BY DEF Controls, Truthful
<1>p. HonestAt(app, id)' <=> Honours(app', generation', collection', id, truth'[id])
  BY DEF HonestAt
<1>s. ASSUME app'.cursor = app.cursor, app'.rows[id] = app.rows[id], HonestAt(app, id)
      PROVE  HonestAt(app, id)'
  <2>1. Honours(app, generation', collection', id, truth'[id])
    BY <1>s, <1>t, HonestStays
  <2> QED
    BY <1>p, <1>s, <2>1 DEF Honours
<1>1. ASSUME UNCHANGED app, Kept, ~ Recorded(id)
      PROVE  HonestAt(app, id)'
  BY <1>1, <1>s DEF Honesty
<1>2. CASE Stands \/ OtherNumbers
  <2>1. UNCHANGED <<sub, listing, wire, txn, app>>
    BY <1>2 DEF Stands, StayPut, OtherNumbers, sessionVars, rowVars
  <2>2. Kept /\ ~ Recorded(id)
    BY <2>1 DEF Kept, AnswerComes, Recorded
  <2> QED
    BY <1>1, <2>1, <2>2
<1>3. CASE TakesOver
  <2>1. /\ UNCHANGED <<sub, listing, wire, app>> /\ txn'.deltas = txn.deltas
        /\ txn'.superseding = (txn.superseding \/ txn.at = "listing")
    BY <1>3 DEF TakesOver, StayPut
  <2>2. ~ Recorded(id)
    BY <2>1 DEF Recorded
  <2>3. CASE txn.at = "listing"
    <3>1. listing.at \in {"sent", "received", "captured"} \/ AnswerComes
      BY <2>3, <1>c DEF TransactionControl, UnderWay
    <3>2. Kept
      BY <3>1, <1>c DEF Kept, SessionControl
    <3> QED
      BY <1>1, <2>1, <2>2, <3>2
  <2>4. CASE txn.at # "listing"
    <3>1. Kept
      BY <2>1, <2>4 DEF Kept, AnswerComes
    <3> QED
      BY <1>1, <2>1, <2>2, <3>1
  <2> QED
    BY <2>3, <2>4
<1>4. ASSUME Abandons, truth' = truth, Kept \/ ~ Overtaken(Stream)
      PROVE  HonestAt(app, id)'
  <2>1. app'.cursor = app.cursor /\ app'.rows[id] = IF Recorded(id) THEN truth[id] ELSE app.rows[id]
    BY <1>4, <1>c, RecordedRows DEF Abandons
  <2>2. CASE Recorded(id)
    BY <1>4, <1>p, <2>1, <2>2 DEF Honours
  <2>3. CASE ~ Recorded(id)
    <3>1. HonestAt(app, id)
      <4>1. CASE Kept
        BY <2>3, <4>1 DEF Honesty
      <4>2. CASE ~ Kept
        BY <1>c, <1>4, <2>3, <4>2, StreamHonest
      <4> QED
        BY <4>1, <4>2
    <3> QED
      BY <1>s, <2>1, <2>3, <3>1
  <2> QED
    BY <2>2, <2>3
<1>5. CASE LosesProjects
  <2>1. UNCHANGED <<truth, sub, listing, wire>> /\ txn' = NoTxn /\ Abandons
    BY <1>5 DEF LosesProjects, StayPut, Abandons
  <2>2. Kept
    BY <2>1 DEF Kept, AnswerComes, NoTxn
  <2> QED
    BY <1>4, <2>1, <2>2
<1>l. ASSUME UNCHANGED app, txn'.deltas = txn.deltas, Kept \/ ~ Overtaken(Stream)
      PROVE  HonestAt(app, id)'
  <2>1. ~ Recorded(id)
    BY <1>l DEF Recorded
  <2>2. CASE Kept
    BY <1>1, <1>l, <2>1, <2>2
  <2>3. CASE ~ Kept
    <3>1. HonestAt(app, id)
      BY <1>c, <1>l, <2>1, <2>3, StreamHonest
    <3> QED
      BY <1>l, <1>s, <3>1
  <2> QED
    BY <2>2, <2>3
<1>6. CASE Leaves
  <2>1. truth' = truth /\ (Kept \/ ~ Overtaken(Stream)) /\ (Abandons \/ UNCHANGED <<txn, app>>)
    BY <1>6 DEF Leaves
  <2> QED
    BY <1>4, <1>l, <2>1
<1>7. CASE AsksForListing
  <2>1. UNCHANGED app /\ ~ Overtaken(Stream) /\ txn' = [txn EXCEPT !.at = "listing", !.superseding = FALSE]
    BY <1>7 DEF AsksForListing, MayCut, NothingLapses
  <2>2. txn'.deltas = txn.deltas
    BY <2>1, <1>t DEF Txns
  <2> QED
    BY <1>l, <2>1, <2>2
<1>8. CASE Restarts
  <2>1. generation' = generation + 1 /\ app'.cursor = app.cursor
    BY <1>8 DEF Restarts, Abandons
  <2> QED
    BY <1>p, <1>t, <2>1 DEF Honours, CursorPast, Past, Helds, Cursors
<1>9. CASE IsKilled
  BY <1>9, <1>p DEF IsKilled, Held, Honours
<1>10. CASE DeviceRead
  <2>1. app' = durable
    BY <1>10, DeviceReadRestores
  <2> QED
    BY <1>p, <1>t, <2>1, HonestStays DEF Honesty
<1>11. CASE ReceiveAnswer
  <2>1. wire # <<>> /\ wire' = Tail(wire) /\ UNCHANGED <<sub, listing>>
    BY <1>11 DEF ReceiveAnswer
  <2>2. ~ AnswerComes' /\ sub.on /\ listing.at \notin {"sent", "received", "captured"}
    BY <2>1, <1>c, ReceivedControl
  <2>3. txn'.superseding
    BY <2>1, <2>2 DEF Kept
  <2>4. txn.at # "listing"
    BY <1>11, <2>3 DEF ReceiveAnswer, NoTxn
  <2>5. UNCHANGED <<txn, app>>
    BY <1>11, <2>4 DEF ReceiveAnswer
  <2>6. Kept /\ ~ Recorded(id)
    BY <2>3, <2>5 DEF Kept, Recorded
  <2> QED
    BY <1>1, <2>5, <2>6
<1>12. CASE ReceiveUpdate
  <2>1. wire # <<>> /\ wire' = Tail(wire) /\ UNCHANGED <<sub, listing>>
    BY <1>12 DEF ReceiveUpdate
  <2>2. ~ AnswerComes' /\ sub.on /\ listing.at \notin {"sent", "received", "captured"}
    BY <2>1, <1>c, ReceivedControl
  <2>3. txn'.superseding
    BY <2>1, <2>2 DEF Kept
  <2>4. CASE InTransaction
    <3>1. app' = app /\ txn' = [txn EXCEPT !.deltas = Append(txn.deltas, Head(wire))]
      BY <1>12, <2>4 DEF ReceiveUpdate
    <3>2. txn.superseding /\ txn'.deltas = Append(txn.deltas, Head(wire))
      BY <2>3, <3>1, <1>t DEF Txns
    <3>3. \A i \in DOMAIN txn.deltas : i \in DOMAIN txn'.deltas /\ txn'.deltas[i] = txn.deltas[i]
      BY <3>2, <1>t
    <3>4. ~ Recorded(id)
      BY <3>3 DEF Recorded
    <3> QED
      BY <1>1, <3>1, <3>2, <3>4 DEF Kept
  <2>5. CASE ~ InTransaction
    <3>1. txn' = txn
      BY <1>12, <2>5 DEF ReceiveUpdate
    <3> QED
      BY <2>3, <2>5, <3>1, <1>c DEF TransactionControl
  <2> QED
    BY <2>4, <2>5
<1>13. ASSUME NEW o \in Ids, JobReads(o) \/ JobUpserts(o) \/ JobFindsGone(o) \/ JobRemoves(o)
       PROVE  HonestAt(app, id)'
  <2>1. UNCHANGED <<listing, txn, app>>
    BY <1>13 DEF JobReads, JobUpserts, JobFindsGone, JobRemoves, rowVars
  <2>2. AnswerComes' <=> AnswerComes
    BY <1>13, <1>c, AnswerKept
  <2>3. sub.on
    BY <1>13, <1>c DEF SessionControl, NoJob, JobReads, JobUpserts, JobFindsGone, JobRemoves
  <2>4. sub'.on
    <3>1. ASSUME NEW update, BufferOrEmit(sub, update)
          PROVE  sub'.on = sub.on
      BY <3>1, <1>t DEF BufferOrEmit, Subs
    <3>2. CASE JobReads(o)
      BY <2>3, <3>2 DEF JobReads
    <3>3. CASE JobUpserts(o)
      BY <2>3, <3>1, <3>3 DEF JobUpserts
    <3>4. CASE JobFindsGone(o)
      BY <2>3, <3>4, <1>t DEF JobFindsGone, Subs
    <3>5. CASE JobRemoves(o)
      BY <2>3, <3>1, <3>5 DEF JobRemoves
    <3> QED
      BY <1>13, <3>2, <3>3, <3>4, <3>5
  <2>5. Kept /\ ~ Recorded(id)
    BY <2>1, <2>2, <2>3, <2>4 DEF Kept, Recorded
  <2> QED
    BY <1>1, <2>1, <2>5
<1>14. CASE ListingArrives \/ ListingCaptures \/ ListingAnswers
  <2>1. listing.at \in {"sent", "received", "captured"} /\ UNCHANGED <<txn, app>>
    BY <1>14 DEF ListingArrives, ListingCaptures, ListingAnswers, rowVars
  <2>2. Kept /\ ~ Recorded(id)
    BY <2>1, <1>c DEF Kept, Recorded, SessionControl
  <2> QED
    BY <1>1, <2>1, <2>2
<1>15. CASE ListingFlushes
  <2>1. UNCHANGED <<txn, app>> /\ listing'.at = "none"
    BY <1>15 DEF ListingFlushes, rowVars, NoListing
  <2>2. sub'.on = sub.on
    BY <1>15, <1>t DEF ListingFlushes, Subs
  <2>3. AnswerComes' <=> AnswerComes
    BY <1>15, <1>c, AnswerKept
  <2>4. Kept /\ ~ Recorded(id)
    BY <2>1, <2>2, <2>3 DEF Kept, Recorded
  <2> QED
    BY <1>1, <2>1, <2>4
<1>16. ASSUME NEW o \in Ids, NEW value \in Contents \cup {None}, Mutate(o, value)
       PROVE  HonestAt(app, id)'
  <2>1. UNCHANGED <<sub, listing, wire, txn, app>>
    BY <1>16 DEF Mutate, rowVars
  <2>2. Kept /\ ~ Recorded(id)
    BY <2>1 DEF Kept, AnswerComes, Recorded
  <2> QED
    BY <1>1, <2>1, <2>2
<1> QED
  BY <1>2, <1>3, <1>5, <1>6, <1>7, <1>8, <1>9, <1>10, <1>11, <1>12, <1>13, <1>14, <1>15, <1>16, StepsOfAll

LEMMA HonestyStep ==
    ASSUME NothingLapses, Shape, Shape', DemandInv, Controls, Controls', Numbers, Truthful, Following,
           Honesty, [Next]_vars
    PROVE  Honesty'
<1>1. Kept' => \A id \in Ids : ~ Recorded(id)' => HonestAt(app, id)'
  BY KeptHonest
<1>2. \A id \in Ids : HonestAt(durable, id)'
  BY DurableHonest DEF HonestAt
<1>3. (listing.at = "captured" /\ txn.at = "listing")' =>
        \A id \in Ids : ~ Recorded(id)' =>
           Honours(app', generation', collection', id, listing'.values[id])
  BY CapturedHonest
<1> QED
  BY <1>1, <1>2, <1>3 DEF Honesty

LEMMA HonestyStarts == Init => Honesty
BY DEF Init, NoListing, Held, Honesty, HonestAt, Honours

\* What is sent is said last; nothing else changes what was said last.
LEMMA SaysAppended ==
    ASSUME NEW S, NEW s \in Seq(S), NEW m \in S, m.kind = "update"
    PROVE  /\ SaysLast(Append(s, m), m.id, m.value)
           /\ \A id, v : id # m.id =>
                /\ SaysLast(s, id, v) => SaysLast(Append(s, m), id, v)
                /\ Silent(s, id) => Silent(Append(s, m), id)
<1> DEFINE t == Append(s, m)
           n == Len(s) + 1
<1>1. /\ DOMAIN s = 1 .. Len(s) /\ Len(s) \in Nat /\ DOMAIN t = 1 .. n
      /\ t[n] = m /\ \A i \in DOMAIN s : t[i] = s[i]
  OBVIOUS
<1> HIDE DEF t
<1>2. n \in DOMAIN t /\ (\A j \in DOMAIN t : j <= n) /\ \A i \in DOMAIN t : i \in DOMAIN s \/ i = n
  BY <1>1
<1>3. DOMAIN s \subseteq DOMAIN t
  BY <1>1
<1> HIDE DEF n
<1>4. SaysLast(t, m.id, m.value)
  BY <1>1, <1>2 DEF SaysLast, IsUpdate
<1>5. ASSUME NEW id, NEW v, id # m.id
      PROVE  /\ SaysLast(s, id, v) => SaysLast(t, id, v)
             /\ Silent(s, id) => Silent(t, id)
  BY <1>1, <1>2, <1>3, <1>5 DEF SaysLast, Silent, IsUpdate
<1> QED
  BY <1>4, <1>5 DEF t

\* What is received was said last, or something else still is.
LEMMA SaysTail ==
    ASSUME NEW S, NEW s \in Seq(S), s # <<>>
    PROVE  \A id, v :
             /\ SaysLast(s, id, v) =>
                  \/ SaysLast(Tail(s), id, v)
                  \/ IsUpdate(Head(s), id) /\ Head(s).value = v /\ Silent(Tail(s), id)
             /\ Silent(s, id) => Silent(Tail(s), id) /\ ~ IsUpdate(Head(s), id)
<1> DEFINE t == Tail(s)
<1>1. /\ \A i \in DOMAIN t : i \in Nat /\ i >= 1 /\ i + 1 \in DOMAIN s /\ t[i] = s[i + 1]
      /\ \A i \in DOMAIN s : i \in Nat /\ (i = 1 \/ (i > 1 /\ i - 1 \in DOMAIN t /\ t[i - 1] = s[i]))
      /\ 1 \in DOMAIN s /\ Head(s) = s[1]
  OBVIOUS
<1> HIDE DEF t
<1>2. ASSUME NEW id, NEW v, SaysLast(s, id, v)
      PROVE  \/ SaysLast(t, id, v)
             \/ IsUpdate(Head(s), id) /\ Head(s).value = v /\ Silent(t, id)
  <2>1. PICK i \in DOMAIN s : /\ IsUpdate(s[i], id) /\ s[i].value = v
                              /\ \A j \in DOMAIN s : IsUpdate(s[j], id) => j <= i
    BY <1>2 DEF SaysLast
  <2>2. CASE i = 1
    <3>1. \A j \in DOMAIN t : ~ IsUpdate(t[j], id)
      <4>1. SUFFICES ASSUME NEW j \in DOMAIN t, IsUpdate(t[j], id) PROVE FALSE
        OBVIOUS
      <4>2. j \in Nat /\ j >= 1 /\ j + 1 <= i
        BY <1>1, <2>1, <4>1
      <4> QED
        BY <2>2, <4>2
    <3> QED
      BY <1>1, <2>1, <2>2, <3>1 DEF Silent
  <2>3. CASE i # 1
    <3> DEFINE k == i - 1
    <3>1. i \in Nat /\ i > 1 /\ k \in DOMAIN t /\ t[k] = s[i]
      BY <1>1, <2>3
    <3>2. \A j \in DOMAIN t : IsUpdate(t[j], id) => j <= k
      <4>1. SUFFICES ASSUME NEW j \in DOMAIN t, IsUpdate(t[j], id) PROVE j <= k
        OBVIOUS
      <4>2. j \in Nat /\ j + 1 <= i
        BY <1>1, <2>1, <4>1
      <4> QED
        BY <3>1, <4>2
    <3> HIDE DEF k
    <3> QED
      BY <2>1, <3>1, <3>2 DEF SaysLast
  <2> QED
    BY <2>2, <2>3
<1>3. ASSUME NEW id, Silent(s, id)
      PROVE  Silent(t, id) /\ ~ IsUpdate(Head(s), id)
  BY <1>1, <1>3 DEF Silent
<1> QED
  BY <1>2, <1>3 DEF t

\* Updates, one of each workspace, are said after a stream without any.
LEMMA SaysSent ==
    ASSUME NEW s \in Seq(Updates \cup Answers), \A i \in DOMAIN s : s[i].kind = "answer",
           NEW sent \in Seq(Updates), \A k, l \in DOMAIN sent : sent[k].id = sent[l].id => k = l
    PROVE  /\ \A k \in DOMAIN sent : SaysLast(s \o sent, sent[k].id, sent[k].value)
           /\ \A id : (\A k \in DOMAIN sent : sent[k].id # id) => Silent(s \o sent, id)
<1> DEFINE t == s \o sent
           n == Len(s)
<1>1. /\ \A i \in DOMAIN t : \/ i \in DOMAIN s /\ t[i] = s[i]
                             \/ i - n \in DOMAIN sent /\ t[i] = sent[i - n] /\ i = (i - n) + n
      /\ \A k \in DOMAIN sent : k + n \in DOMAIN t /\ t[k + n] = sent[k] /\ k + n \in Int
  <2>1. /\ DOMAIN s = 1 .. n /\ n \in Nat /\ DOMAIN sent = 1 .. Len(sent) /\ Len(sent) \in Nat
        /\ sent \in Seq(Updates \cup Answers)
    OBVIOUS
  <2>2. /\ DOMAIN t = 1 .. n + Len(sent) /\ \A i \in 1 .. n : t[i] = s[i]
        /\ \A k \in 1 .. Len(sent) : t[k + n] = sent[k]
        /\ \A i \in n + 1 .. n + Len(sent) : t[i] = sent[i - n]
    BY <2>1
  <2> HIDE DEF t, n
  <2> QED
    BY <2>1, <2>2
<1> HIDE DEF t, n
<1>2. \A k \in DOMAIN sent : sent[k].kind = "update"
  <2>1. \A k \in DOMAIN sent : sent[k] \in Updates
    OBVIOUS
  <2> QED
    BY <2>1 DEF Updates
<1>3. ASSUME NEW k \in DOMAIN sent
      PROVE  SaysLast(t, sent[k].id, sent[k].value)
  <2>1. ASSUME NEW j \in DOMAIN t, IsUpdate(t[j], sent[k].id)
        PROVE  j = k + n
    <3>1. j - n \in DOMAIN sent /\ t[j] = sent[j - n] /\ j = (j - n) + n
      BY <1>1, <2>1 DEF IsUpdate
    <3>2. j - n = k
      BY <2>1, <3>1 DEF IsUpdate
    <3> QED
      BY <3>1, <3>2
  <2>2. k + n \in DOMAIN t /\ t[k + n] = sent[k] /\ k + n <= k + n
    BY <1>1
  <2> QED
    BY <1>2, <2>1, <2>2 DEF SaysLast, IsUpdate
<1>4. ASSUME NEW id, \A k \in DOMAIN sent : sent[k].id # id
      PROVE  Silent(t, id)
  BY <1>1, <1>4 DEF Silent, IsUpdate
<1> QED
  BY <1>3, <1>4 DEF t

\* An answer to the app's own cursor, which hides nothing, brings what was listed.
LEMMA AnswerBrings ==
    ASSUME NEW c \in Collection, WellNumbered(c), NEW gen \in Nat, NEW held \in Helds,
           NEW id \in Ids, NEW value, c.entry[id].value = value, Past(held.cursor, gen, c.head),
           Honours(held, gen, c, id, value)
    PROVE  Merge(held.rows, Read(c, gen, held.cursor))[id] = value
<1> DEFINE read == Read(c, gen, held.cursor)
<1>t. /\ c.entry[id].kind \in {"unknown", "live", "removed"} /\ c.entry[id].seq \in Nat
      /\ WellFormed(c.entry[id]) /\ c.expired \in Nat /\ c.head \in Nat
  BY DEF Collection, Entry, WellNumbered
<1>1. Merge(held.rows, read)[id] =
        IF id \in DOMAIN read.values THEN read.values[id]
        ELSE IF read.mode = "snapshot" \/ id \in read.removals THEN None
        ELSE held.rows[id]
  BY DEF Merge
<1>v. c.entry[id].kind # "live" => c.entry[id].value = None
  BY <1>t DEF WellFormed
<1>2. ASSUME read = ReadSnapshot(c)
      PROVE  Merge(held.rows, read)[id] = value
  <2>1. read.values = [i \in LiveIds(c) |-> c.entry[i].value] /\ read.mode = "snapshot"
    BY <1>2 DEF ReadSnapshot
  <2> HIDE DEF read
  <2>2. id \in DOMAIN read.values => read.values[id] = c.entry[id].value
    BY <2>1
  <2>3. id \in DOMAIN read.values <=> c.entry[id].kind = "live"
    BY <2>1 DEF LiveIds
  <2> QED
    BY <1>1, <1>v, <2>1, <2>2, <2>3
<1>3. ASSUME read # ReadSnapshot(c)
      PROVE  Merge(held.rows, read)[id] = value
  <2> DEFINE seq == held.cursor.seq
             after == {i \in LiveIds(c) : c.entry[i].seq > seq}
  <2>1. held.cursor # None /\ held.cursor.generation = gen /\ ~ (seq < c.expired) /\ ~ (seq > c.head)
    BY <1>3 DEF Read, ReadAfter
  <2>2. read = [mode |-> "changes", head |-> c.head,
                values |-> [i \in after |-> c.entry[i].value],
                removals |-> {i \in RemovedIds(c) : c.entry[i].seq > seq}]
    BY <2>1 DEF Read, ReadAfter
  <2>3. /\ read.values = [i \in after |-> c.entry[i].value] /\ read.mode = "changes"
        /\ read.removals = {i \in RemovedIds(c) : c.entry[i].seq > seq}
    BY <2>2
  <2>4. seq \in Nat
    BY <2>1 DEF Helds, Cursors
  <2> HIDE DEF read
  <2>5. id \in DOMAIN read.values => read.values[id] = c.entry[id].value
    BY <2>3
  <2>6. id \in DOMAIN read.values <=> c.entry[id].kind = "live" /\ c.entry[id].seq > seq
    BY <2>3 DEF LiveIds
  <2>7. id \in read.removals => c.entry[id].kind = "removed"
    BY <2>3 DEF RemovedIds
  <2>8. c.entry[id].kind = "removed" /\ c.entry[id].seq > seq => id \in read.removals
    BY <2>3 DEF RemovedIds
  <2>9. CASE id \in DOMAIN read.values \/ id \in read.removals
    BY <1>1, <1>v, <2>5, <2>7, <2>9
  <2>10. CASE id \notin DOMAIN read.values /\ id \notin read.removals
    <3>1. Mark(c, id) <= seq
      BY <1>t, <2>1, <2>4, <2>6, <2>8, <2>10 DEF Mark
    <3>2. held.rows[id] = value
      BY <2>1, <3>1 DEF Honours
    <3> QED
      BY <1>1, <2>3, <2>10, <3>2
  <2> QED
    BY <2>9, <2>10
<1> QED
  BY <1>2, <1>3

\* A row becomes what it would have become if what it follows stays.
LEMMA GroundStays ==
    ASSUME NEW id \in Ids, NEW value, Ground(id, value), truth'[id] = truth[id],
           Recorded(id)' <=> Recorded(id), AnswerComes' <=> AnswerComes,
           AnswerComes => wire'[1] = wire[1] /\ txn'.base = txn.base,
           ~ AnswerComes => app'.rows[id] = app.rows[id]
    PROVE  Ground(id, value)'
BY DEF Ground

LEMMA FollowingStays ==
    ASSUME NEW id \in Ids, FollowingAt(id), truth'[id] = truth[id], job'[id] = job[id],
           sub'.last[id] = sub.last[id], \A v : Becomes(id, v) => Becomes(id, v)'
    PROVE  FollowingAt(id)'
BY DEF FollowingAt

\* What is emitted or buffered the row becomes.
LEMMA SaysSoon ==
    ASSUME Shape, Controls, sub.on, NEW m \in Updates, BufferOrEmit(sub, m),
           UNCHANGED <<truth, txn, app>>
    PROVE  /\ sub'.on /\ (AnswerComes' <=> AnswerComes) /\ (AnswerComes => wire'[1] = wire[1])
           /\ Becomes(m.id, m.value)'
           /\ \/ sub'.last[m.id] = LastOf(m)
              \/ sub'.last[m.id] = sub.last[m.id] /\ sub.last[m.id] \in {"none", "seeded"}
           /\ \A id \in Ids : id # m.id =>
                /\ sub'.last[id] = sub.last[id]
                /\ \A v : Becomes(id, v) => Becomes(id, v)'
<1>t. sub \in Subs /\ wire \in Seq(Updates \cup Answers)
  BY SessionTypes
<1>c. SessionControl /\ m.id \in Ids /\ m.kind = "update"
  BY DEF Controls, Updates
<1>g. ASSUME AnswerComes' <=> AnswerComes, AnswerComes => wire'[1] = wire[1], NEW id \in Ids, NEW v, Ground(id, v)
      PROVE  Ground(id, v)'
  <2>1. Recorded(id)' <=> Recorded(id)
    BY DEF Recorded
  <2> QED
    BY <1>g, <2>1, GroundStays
<1>1. CASE sub.boot
  <2>1. /\ wire' = wire /\ sub'.last = sub.last /\ sub'.on = sub.on
        /\ IsPending(m.id)' /\ \A x : Pends(m.id, x)' <=> x = m.value
        /\ \A id : id # m.id => (IsPending(id)' <=> IsPending(id)) /\ \A x : Pends(id, x)' <=> Pends(id, x)
    BY <1>1, BufferedPends
  <2>2. (AnswerComes' <=> AnswerComes) /\ (AnswerComes => wire'[1] = wire[1])
    BY <2>1 DEF AnswerComes
  <2>3. Becomes(m.id, m.value)'
    BY <2>1 DEF Becomes
  <2>4. ASSUME NEW id \in Ids, id # m.id, NEW v, Becomes(id, v)
        PROVE  Becomes(id, v)'
    <3>1. Ground(id, v) => Ground(id, v)'
      BY <1>g, <2>2
    <3>2. (SaysLast(wire, id, v) <=> SaysLast(wire, id, v)') /\ (Silent(wire, id) <=> Silent(wire, id)')
      BY <2>1 DEF SaysLast, Silent
    <3> QED
      BY <2>1, <2>4, <3>1, <3>2 DEF Becomes
  <2>5. sub.last[m.id] \in {"none", "seeded"}
    BY <1>1, <1>c DEF SessionControl
  <2> QED
    BY <2>1, <2>2, <2>3, <2>4, <2>5
<1>2. CASE ~ sub.boot
  <2>1. sub' = [sub EXCEPT !.last[m.id] = LastOf(m)] /\ wire' = Append(wire, m)
    BY <1>2 DEF BufferOrEmit
  <2>2. sub.pending = <<>>
    BY <1>2, <1>c DEF SessionControl
  <2>3. /\ sub'.on /\ sub'.pending = <<>> /\ sub'.last[m.id] = LastOf(m)
        /\ \A id \in Ids : id # m.id => sub'.last[id] = sub.last[id]
    BY <1>c, <1>t, <2>1, <2>2 DEF Subs
  <2>4. (AnswerComes' <=> AnswerComes) /\ (AnswerComes => wire'[1] = wire[1])
    BY <1>t, <2>1, AppendedMessage
  <2>5. \A id, x : ~ IsPending(id) /\ ~ IsPending(id)' /\ ~ Pends(id, x)
    BY <2>2, <2>3 DEF IsPending, Pends
  <2>6. /\ SaysLast(wire', m.id, m.value)
        /\ \A id, v : id # m.id =>
             /\ SaysLast(wire, id, v) => SaysLast(wire', id, v)
             /\ Silent(wire, id) => Silent(wire', id)
    <3>1. m \in Updates \cup Answers
      OBVIOUS
    <3> QED
      BY <1>c, <1>t, <2>1, <3>1, SaysAppended
  <2>7. Becomes(m.id, m.value)'
    BY <2>5, <2>6 DEF Becomes
  <2>8. ASSUME NEW id \in Ids, id # m.id, NEW v, Becomes(id, v)
        PROVE  Becomes(id, v)'
    <3>1. Ground(id, v) => Ground(id, v)'
      BY <1>g, <2>4
    <3> QED
      BY <2>5, <2>6, <2>8, <3>1 DEF Becomes
  <2> QED
    BY <2>3, <2>4, <2>7, <2>8
<1> QED
  BY <1>1, <1>2

\* The jobs' steps leave the listing and what has been listed.
LEMMA JobsFollow ==
    ASSUME Following, sub.on, UNCHANGED <<truth, listing, txn, app>>,
           AnswerComes' <=> AnswerComes, AnswerComes => wire'[1] = wire[1],
           Follows', \A id \in Ids : FollowingAt(id) => FollowingAt(id)'
    PROVE  Following'
<1>1. Follows
  BY DEF Follows
<1>2. ListedIsHeld'
  BY <1>1 DEF Following, ListedIsHeld
<1> QED
  BY <1>1, <1>2 DEF Following

LEMMA FollowingUpsert ==
    ASSUME Shape, Shape', Controls, Truthful, Following, NEW id \in Ids, JobUpserts(id), Follows'
    PROVE  Following'
<1>1. /\ sub.on /\ job[id].at = "read" /\ job[id].value \in Contents
      /\ job'[id] = Finished(job[id]) /\ \A o \in Ids : o # id => job'[o] = job[o]
      /\ UNCHANGED <<truth, generation, listing, txn, app>>
      /\ \/ sub.last[id] = job[id].value /\ UNCHANGED <<sub, wire>>
         \/ \E m \in Updates : m.id = id /\ m.value = job[id].value /\ BufferOrEmit(sub, m)
  BY UpsertSends
<1>a. job[id].value # None /\ job[id].value \notin {"none", "seeded", "removed"}
  BY <1>1, ReplicaAssumption, CollectionsAssumption
<1>2. job'[id].at = "idle" => job[id].value = truth[id]
  BY <1>1 DEF Truthful, JobsTrue, Finished, NoJob
<1>3. CASE sub.last[id] = job[id].value /\ UNCHANGED <<sub, wire>>
  <2>1. \A o \in Ids : \A v : Becomes(o, v)' <=> Becomes(o, v)
    BY <1>1, <1>3 DEF Becomes, Pends, IsPending, Ground, Recorded, AnswerComes, SaysLast, Silent
  <2>2. \A o \in Ids : o # id => (FollowingAt(o) => FollowingAt(o)')
    BY <1>1, <1>3, <2>1, FollowingStays
  <2>3. FollowingAt(id) => FollowingAt(id)'
    BY <1>1, <1>2, <1>3, <1>a, <2>1 DEF FollowingAt
  <2>4. (AnswerComes' <=> AnswerComes) /\ (AnswerComes => wire'[1] = wire[1])
    BY <1>3 DEF AnswerComes
  <2> QED
    BY <1>1, <2>2, <2>3, <2>4, JobsFollow
<1>4. ASSUME NEW m \in Updates, m.id = id, m.value = job[id].value, BufferOrEmit(sub, m)
      PROVE  Following'
  <2>1. /\ (AnswerComes' <=> AnswerComes) /\ (AnswerComes => wire'[1] = wire[1])
        /\ Becomes(m.id, m.value)'
        /\ \/ sub'.last[m.id] = LastOf(m)
           \/ sub'.last[m.id] = sub.last[m.id] /\ sub.last[m.id] \in {"none", "seeded"}
        /\ \A o \in Ids : o # m.id =>
             /\ sub'.last[o] = sub.last[o]
             /\ \A v : Becomes(o, v) => Becomes(o, v)'
    BY <1>1, <1>4, SaysSoon
  <2>2. \A o \in Ids : o # id => (FollowingAt(o) => FollowingAt(o)')
    BY <1>1, <1>4, <2>1, FollowingStays
  <2>3. ASSUME FollowingAt(id) PROVE FollowingAt(id)'
    <3>1. Becomes(id, m.value)' /\ m.value # None /\ m.value \notin {"none", "seeded", "removed"}
      BY <1>4, <1>a, <2>1
    <3>2. sub'.last[id] = m.value \/ (sub'.last[id] = sub.last[id] /\ sub.last[id] \in {"none", "seeded"})
      BY <1>4, <1>a, <2>1 DEF LastOf
    <3>3. "none" \notin Contents /\ "seeded" \notin Contents
      BY ReplicaAssumption
    <3>4. ~ (sub.last[id] = "none" /\ truth[id] = None)
      BY <1>1, <1>a, <2>3 DEF FollowingAt
    <3>5. truth'[id] = truth[id] /\ (job'[id].at = "idle" => truth[id] = m.value)
      BY <1>1, <1>2, <1>4
    <3> QED
      BY <3>1, <3>2, <3>3, <3>4, <3>5 DEF FollowingAt
  <2> QED
    BY <1>1, <2>1, <2>2, <2>3, JobsFollow
<1> QED
  BY <1>1, <1>3, <1>4

LEMMA FollowingRemoval ==
    ASSUME Shape, Shape', Controls, Truthful, Following, NEW id \in Ids, JobRemoves(id), Follows'
    PROVE  Following'
<1>1. /\ sub.on /\ job[id].at = "removing"
      /\ job'[id] = Finished(job[id]) /\ \A o \in Ids : o # id => job'[o] = job[o]
      /\ UNCHANGED <<truth, generation, listing, txn, app>>
  BY RemovalSends
<1>m. PICK m \in Updates : m.id = id /\ m.value = None /\ BufferOrEmit(sub, m)
  BY RemovalSends
<1>2. job'[id].at \in {"idle", "queued"} /\ (job'[id].at = "idle" => truth[id] = None)
  BY <1>1 DEF Truthful, JobsTrue, Finished, NoJob
<1>3. /\ (AnswerComes' <=> AnswerComes) /\ (AnswerComes => wire'[1] = wire[1])
      /\ Becomes(m.id, m.value)'
      /\ \/ sub'.last[m.id] = LastOf(m)
         \/ sub'.last[m.id] = sub.last[m.id] /\ sub.last[m.id] \in {"none", "seeded"}
      /\ \A o \in Ids : o # m.id =>
           /\ sub'.last[o] = sub.last[o]
           /\ \A v : Becomes(o, v) => Becomes(o, v)'
  BY <1>1, <1>m, SaysSoon
<1>4. \A o \in Ids : o # id => (FollowingAt(o) => FollowingAt(o)')
  BY <1>1, <1>m, <1>3, FollowingStays
<1>5. Becomes(id, None)' /\ sub'.last[id] \in {"removed", "none", "seeded"}
  BY <1>m, <1>3 DEF LastOf
<1>6. sub'.last[id] \notin Contents
  BY <1>5, ReplicaAssumption
<1>7. FollowingAt(id)'
  BY <1>1, <1>2, <1>5, <1>6 DEF FollowingAt
<1> QED
  BY <1>1, <1>3, <1>4, <1>7, JobsFollow

LEMMA FollowingJob ==
    ASSUME Shape, Shape', Controls, Truthful, Following, NEW id \in Ids,
           JobReads(id) \/ JobFindsGone(id), Follows'
    PROVE  Following'
<1>t. \A o \in Ids : job[o] \in Jobs
  BY SessionTypes
<1>1. CASE JobReads(id)
  <2>1. /\ sub.on /\ job[id].at = "queued"
        /\ job'[id].at = "read" /\ job'[id].value = truth[id] /\ job'[id].again = job[id].again
        /\ \A o \in Ids : o # id => job'[o] = job[o]
        /\ UNCHANGED <<truth, generation, collection, sub, wire, listing, txn, app>>
    BY <1>1, ReadingReads
  <2>2. \A o \in Ids : \A v : Becomes(o, v)' <=> Becomes(o, v)
    BY <2>1 DEF Becomes, Pends, IsPending, Ground, Recorded, AnswerComes, SaysLast, Silent
  <2>3. \A o \in Ids : FollowingAt(o) => FollowingAt(o)'
    BY <2>1, <2>2 DEF FollowingAt
  <2>4. (AnswerComes' <=> AnswerComes) /\ (AnswerComes => wire'[1] = wire[1])
    BY <2>1 DEF AnswerComes
  <2> QED
    BY <2>1, <2>3, <2>4, JobsFollow
<1>2. CASE JobFindsGone(id)
  <2>1. /\ sub.on /\ job[id].at = "read" /\ job[id].value = None
        /\ \A o \in Ids : o # id => job'[o] = job[o]
        /\ UNCHANGED <<truth, generation, collection, wire, listing, txn, app>>
        /\ \/ /\ sub.last[id] \in {"none", "removed"} /\ sub' = sub /\ job'[id] = Finished(job[id])
           \/ /\ sub.last[id] \notin {"none", "removed"}
              /\ job'[id].at = "removing" /\ job'[id].again = job[id].again
              /\ sub'.pending = sub.pending /\ sub'.on = sub.on /\ sub'.boot = sub.boot
              /\ sub'.last[id] = "none" /\ \A o \in Ids : o # id => sub'.last[o] = sub.last[o]
    BY <1>2, GoneIsFound
  <2>2. sub'.pending = sub.pending /\ \A o \in Ids : o # id => sub'.last[o] = sub.last[o]
    BY <2>1
  <2>3. \A o \in Ids : \A v : Becomes(o, v)' <=> Becomes(o, v)
    BY <2>1, <2>2 DEF Becomes, Pends, IsPending, Ground, Recorded, AnswerComes, SaysLast, Silent
  <2>4. \A o \in Ids : o # id => (FollowingAt(o) => FollowingAt(o)')
    BY <2>1, <2>2, <2>3, FollowingStays
  <2>5. ASSUME FollowingAt(id) PROVE FollowingAt(id)'
    <3>1. CASE sub' = sub /\ job'[id] = Finished(job[id]) /\ sub.last[id] \in {"none", "removed"}
      <4>1. job'[id].at \in {"idle", "queued"} /\ (job'[id].at = "idle" => truth[id] = None)
        BY <2>1, <3>1 DEF Truthful, JobsTrue, Finished, NoJob
      <4>2. sub.last[id] \notin Contents
        BY <3>1, ReplicaAssumption
      <4> QED
        BY <2>1, <2>3, <2>5, <3>1, <4>1, <4>2 DEF FollowingAt
    <3>2. CASE job'[id].at = "removing" /\ sub'.last[id] = "none"
      <4>1. "none" \notin Contents
        BY ReplicaAssumption
      <4> QED
        BY <2>1, <3>2, <4>1 DEF FollowingAt
    <3> QED
      BY <2>1, <3>1, <3>2
  <2>6. (AnswerComes' <=> AnswerComes) /\ (AnswerComes => wire'[1] = wire[1])
    BY <2>1 DEF AnswerComes
  <2> QED
    BY <2>1, <2>4, <2>5, <2>6, JobsFollow
<1> QED
  BY <1>1, <1>2

LEMMA FollowingAnswer ==
    ASSUME NothingLapses, Shape, Shape', Controls, Numbers, Truthful, Honesty, DemandInv, [Next]_vars,
           ListingAnswers, Follows'
    PROVE  Following'
<1> DEFINE read == Read(collection', generation, listing.cursor)
<1>1. /\ listing.at = "captured" /\ listing'.at = "answered" /\ wire = <<>>
      /\ wire' = <<[kind |-> "answer", read |-> read, generation |-> generation]>>
      /\ AnswerComes' /\ wire'[1].read = read /\ read \in Reads
      /\ \A id \in Ids : collection'.entry[id].value = listing.values[id]
      /\ \A id \in Ids : listing'.values[id] # None => id \in DOMAIN read.values
      /\ \A id \in DOMAIN read.values :
           id \in Ids /\ read.values[id] = listing.values[id] /\ listing'.values[id] = listing.values[id]
      /\ sub'.on = sub.on /\ sub'.boot = sub.boot /\ sub'.pending = sub.pending
      /\ \A id \in Ids : sub'.last[id] \in {"none", "seeded"}
      /\ UNCHANGED <<truth, generation, job, txn, app>>
  BY AnswerIsGiven
<1>2. txn.at = "listing"
  BY <1>1 DEF Follows
<1>3. txn.base = app.rows /\ listing.cursor = app.cursor
  BY <1>1, <1>2 DEF Controls, TransactionControl, InTransaction
<1>t. /\ app \in Helds /\ app.cursor \in Cursors /\ generation \in Nat
      /\ collection \in Collection /\ WellNumbered(collection)
      /\ collection' \in Collection /\ WellNumbered(collection')
  <2>1. collection' \in Collection /\ WellNumbered(collection')
    BY DEF Shape, DaemonShape
  <2> QED
    BY <2>1, SessionTypes, RowTypes
<1>e. generation' = generation /\ Evolves(collection, collection')
  <2>1. ~ Restarts
    BY <1>1, <1>t DEF Restarts
  <2> QED
    BY <2>1, CollectionMoves
<1>h. Past(app.cursor, generation, collection'.head)
  BY <1>e, <1>t, CursorStaysPast DEF Numbers
<1>4. ASSUME NEW id \in Ids, ~ Recorded(id)
      PROVE  Merge(txn.base, read)[id] = listing.values[id]
  <2>1. Honours(app, generation, collection, id, listing.values[id])
    BY <1>1, <1>2, <1>4 DEF Honesty
  <2>2. Honours(app, generation, collection', id, listing.values[id])
    BY <1>e, <1>t, <2>1, StaysHonest DEF Numbers, CursorPast
  <2>3. Merge(app.rows, Read(collection', generation, app.cursor))[id] = listing.values[id]
    BY <1>1, <1>h, <1>t, <2>2, AnswerBrings
  <2> QED
    BY <1>3, <2>3
<1> HIDE DEF read
<1>5. \A id \in Ids : Silent(wire, id)'
  <2>1. DOMAIN wire' = {1} /\ wire'[1].kind = "answer"
    BY <1>1
  <2> QED
    BY <2>1 DEF Silent, IsUpdate
<1>6. ASSUME NEW id \in Ids
      PROVE  /\ CapturedAt(id) /\ (IsPending(id)' <=> IsPending(id))
             /\ \A v : Pends(id, v)' <=> Pends(id, v)
             /\ Recorded(id)' <=> Recorded(id)
  BY <1>1 DEF Truthful, Captured, IsPending, Pends, Recorded
<1>7. ASSUME NEW id \in Ids, job[id].at = "idle"
      PROVE  Becomes(id, truth[id])'
  <2>1. CASE IsPending(id)
    <3>1. Pends(id, truth[id])
      BY <1>6, <1>7, <2>1 DEF CapturedAt
    <3> QED
      BY <1>1, <1>6, <3>1 DEF Becomes
  <2>2. CASE ~ IsPending(id)
    <3>1. listing.values[id] = truth[id]
      BY <1>1, <1>6, <1>7, <2>2 DEF CapturedAt
    <3>2. ~ Recorded(id) => Merge(txn'.base, wire'[1].read)[id] = truth'[id]
      BY <1>1, <1>4, <3>1
    <3>3. Ground(id, truth[id])'
      BY <1>1, <1>6, <3>2 DEF Ground
    <3> QED
      BY <1>5, <1>6, <2>2, <3>3 DEF Becomes
  <2> QED
    BY <2>1, <2>2
<1>8. ASSUME NEW id \in Ids
      PROVE  FollowingAt(id)'
  <2>1. sub'.last[id] \in {"none", "seeded"} /\ sub'.last[id] \notin Contents
    BY <1>1, ReplicaAssumption
  <2>2. truth[id] = None => job[id].at = "idle"
    BY <1>6 DEF CapturedAt, NoJob
  <2> QED
    BY <1>1, <1>7, <2>1, <2>2 DEF FollowingAt
<1>9. ListedIsHeld'
  BY <1>1 DEF ListedIsHeld
<1> QED
  BY <1>8, <1>9 DEF Following

LEMMA FollowingFlush ==
    ASSUME NothingLapses, Shape, Shape', Controls, Truthful, Following, ListingFlushes, Follows'
    PROVE  Following'
<1> DEFINE sent == ToFlush(sub.pending, listing.values)
<1>t. /\ wire \in Seq(Updates \cup Answers) /\ sub \in Subs /\ sub.pending \in Seq(Updates)
      /\ listing \in Listings
  BY SessionTypes
<1>c. SessionControl /\ RecordedIsTrue
  BY DEF Controls, Truthful
<1>1. /\ listing.at = "answered" /\ listing'.at = "none" /\ wire' = wire \o sent
      /\ UNCHANGED <<truth, job, txn, app>>
  BY DEF ListingFlushes, daemonVars, rowVars, NoListing
<1>2. /\ sub'.on = sub.on /\ sub'.pending = <<>>
      /\ \A id \in Ids : sub'.last[id] = IF \E i \in DOMAIN sent : sent[i].id = id
            THEN LastOf(sent[CHOOSE i \in DOMAIN sent : sent[i].id = id]) ELSE sub.last[id]
  BY <1>t DEF ListingFlushes, Subs
<1>3. /\ sent \in Seq(Updates)
      /\ \A k \in DOMAIN sent : \E i \in DOMAIN sub.pending :
           SaysMore(sub.pending[i], listing.values) /\ sent[k] = sub.pending[i]
      /\ \A i \in DOMAIN sub.pending :
           SaysMore(sub.pending[i], listing.values) => \E k \in DOMAIN sent : sent[k] = sub.pending[i]
      /\ \A k, l \in DOMAIN sent : sent[k].id = sent[l].id => k = l
  <2>1. \A i, j \in DOMAIN sub.pending : sub.pending[i].id = sub.pending[j].id => i = j
    BY <1>c DEF SessionControl
  <2>2. /\ sent \in Seq(Updates)
        /\ \A k \in DOMAIN sent : \E i \in DOMAIN sub.pending :
             SaysMore(sub.pending[i], listing.values) /\ sent[k] = sub.pending[i]
        /\ \A i \in DOMAIN sub.pending :
             SaysMore(sub.pending[i], listing.values) => \E k \in DOMAIN sent : sent[k] = sub.pending[i]
        /\ (\A i, j \in DOMAIN sub.pending : sub.pending[i].id = sub.pending[j].id => i = j) =>
             \A k, l \in DOMAIN sent : sent[k].id = sent[l].id => k = l
    BY <1>t, ToFlushKeeps
  <2> HIDE DEF sent
  <2> QED
    BY <2>1, <2>2
<1> HIDE DEF sent
<1>4. /\ \A k \in DOMAIN sent : SaysLast(wire', sent[k].id, sent[k].value)
      /\ \A id : (\A k \in DOMAIN sent : sent[k].id # id) => Silent(wire', id)
  <2>1. \A i \in DOMAIN wire : wire[i].kind = "answer"
    BY <1>1, <1>c DEF SessionControl
  <2> QED
    BY <1>1, <1>3, <1>t, <2>1, SaysSent
<1>5. (AnswerComes' <=> AnswerComes) /\ (AnswerComes => wire'[1] = wire[1])
  BY <1>c, AnswerKept
<1>6. Follows /\ ListedIsHeld /\ \A id \in Ids : FollowingAt(id)
  <2>1. Follows
    BY <1>1, <1>2, <1>5 DEF Follows
  <2> QED
    BY <2>1 DEF Following
<1>g. ASSUME NEW id \in Ids, NEW v, Ground(id, v)
      PROVE  Ground(id, v)'
  <2>1. Recorded(id)' <=> Recorded(id)
    BY <1>1 DEF Recorded
  <2> QED
    BY <1>1, <1>5, <1>g, <2>1, GroundStays
<1>p. \A id : ~ IsPending(id)'
  BY <1>2 DEF IsPending
\* What is pending is sent, or was listed.
<1>7. ASSUME NEW id \in Ids, NEW v, Pends(id, v)
      PROVE  Becomes(id, v)'
  <2>1. PICK i \in DOMAIN sub.pending : sub.pending[i].id = id /\ sub.pending[i].value = v
    BY <1>7 DEF Pends
  <2>2. CASE \E k \in DOMAIN sent : sent[k] = sub.pending[i]
    <3>1. SaysLast(wire, id, v)'
      BY <1>4, <2>1, <2>2
    <3> QED
      BY <1>p, <3>1 DEF Becomes
  <2>3. CASE /\ ~ SaysMore(sub.pending[i], listing.values)
             /\ v # None /\ v = listing.values[id]
    <3>1. \A k \in DOMAIN sent : sent[k].id # id
      <4>1. SUFFICES ASSUME NEW k \in DOMAIN sent, sent[k].id = id PROVE FALSE
        OBVIOUS
      <4>2. PICK j \in DOMAIN sub.pending :
                SaysMore(sub.pending[j], listing.values) /\ sent[k] = sub.pending[j]
        BY <1>3
      <4>3. j = i
        BY <1>c, <2>1, <4>1, <4>2 DEF SessionControl
      <4> QED
        BY <2>3, <4>2, <4>3
    <3>2. Silent(wire, id)'
      BY <1>4, <3>1
    <3>3. Ground(id, v)
      <4>1. CASE Recorded(id)
        <5>1. v = truth[id]
          BY <1>1, <1>c, <2>3, <4>1 DEF RecordedIsTrue
        <5> QED
          BY <4>1, <5>1 DEF Ground
      <4>2. CASE ~ Recorded(id) /\ AnswerComes
        <5>1. id \in DOMAIN wire[1].read.values /\ wire[1].read.values[id] = v
          BY <1>1, <1>6, <2>3, <4>2 DEF ListedIsHeld
        <5>2. Merge(txn.base, wire[1].read)[id] = v
          BY <5>1 DEF Merge
        <5> QED
          BY <4>2, <5>2 DEF Ground
      <4>3. CASE ~ Recorded(id) /\ ~ AnswerComes
        <5>1. app.rows[id] = v
          BY <1>1, <1>6, <2>3, <4>3 DEF ListedIsHeld
        <5> QED
          BY <4>3, <5>1 DEF Ground
      <4> QED
        BY <4>1, <4>2, <4>3
    <3> QED
      BY <1>g, <1>p, <3>2, <3>3 DEF Becomes
  <2> QED
    BY <1>3, <2>1, <2>2, <2>3, PendingSent DEF sent
<1>8. ASSUME NEW id \in Ids, NEW v, Becomes(id, v)
      PROVE  Becomes(id, v)'
  <2>1. CASE Pends(id, v)
    BY <1>7, <2>1
  <2>2. CASE ~ Pends(id, v)
    <3>1. ~ SaysLast(wire, id, v)
      BY <1>1, <1>c DEF SessionControl, SaysLast, IsUpdate
    <3>2. ~ IsPending(id) /\ Ground(id, v)
      BY <1>8, <2>2, <3>1 DEF Becomes
    <3>3. \A k \in DOMAIN sent : sent[k].id # id
      BY <1>3, <3>2 DEF IsPending
    <3>4. Silent(wire, id)'
      BY <1>4, <3>3
    <3> QED
      BY <1>g, <1>p, <3>2, <3>4 DEF Becomes
  <2> QED
    BY <2>1, <2>2
<1>9. ASSUME NEW id \in Ids
      PROVE  FollowingAt(id)'
  <2>1. CASE \E i \in DOMAIN sent : sent[i].id = id
    <3> DEFINE k == CHOOSE i \in DOMAIN sent : sent[i].id = id
    <3>1. k \in DOMAIN sent /\ sent[k].id = id
      BY <2>1
    <3>2. sub'.last[id] = LastOf(sent[k])
      BY <1>2, <2>1
    <3> HIDE DEF k
    <3>3. sent[k] \in Updates
      BY <1>3, <3>1
    <3>4. PICK x : x = sent[k].value
      OBVIOUS
    <3>5. Becomes(id, x)'
      <4>1. SaysLast(wire, id, x)'
        BY <1>4, <3>1, <3>4
      <4> QED
        BY <1>p, <4>1 DEF Becomes
    <3>6. x \in Contents \cup {None} /\ sub'.last[id] = IF x = None THEN "removed" ELSE x
      BY <3>2, <3>3, <3>4 DEF LastOf, Updates
    <3>7. job[id].at = "idle" => Becomes(id, truth[id])'
      <4>1. job[id].at = "idle" => Becomes(id, truth[id])
        BY <1>6 DEF FollowingAt
      <4>2. PICK y : y = truth[id]
        OBVIOUS
      <4>3. Becomes(id, y) => Becomes(id, y)'
        BY <1>8
      <4> QED
        BY <1>1, <4>1, <4>2, <4>3
    <3>8. "none" \notin Contents /\ "removed" \notin Contents
      BY ReplicaAssumption
    <3> QED
      BY <1>1, <3>5, <3>6, <3>7, <3>8 DEF FollowingAt
  <2>2. CASE ~ \E i \in DOMAIN sent : sent[i].id = id
    <3>1. sub'.last[id] = sub.last[id]
      BY <1>2, <2>2
    <3> QED
      BY <1>1, <1>6, <1>8, <3>1, FollowingStays
  <2> QED
    BY <2>1, <2>2
<1>10. ListedIsHeld'
  BY <1>1 DEF ListedIsHeld
<1> QED
  BY <1>9, <1>10 DEF Following

LEMMA FollowingAnswered ==
    ASSUME Shape, Shape', Controls, Truthful, Following, ReceiveAnswer, Follows'
    PROVE  Following'
<1>t. wire \in Seq(Updates \cup Answers) /\ listing \in Listings /\ txn \in Txns
  BY SessionTypes, RowTypes
<1>c. SessionControl /\ TransactionControl /\ RecordedIsTrue
  BY DEF Controls, Truthful
<1>1. wire # <<>> /\ Head(wire).kind = "answer" /\ wire' = Tail(wire) /\ UNCHANGED <<truth, job, sub, listing>>
  BY DEF ReceiveAnswer, daemonVars
<1>2. /\ ~ AnswerComes' /\ sub.on /\ listing.at \notin {"sent", "received", "captured"}
      /\ AnswerComes /\ Head(wire) = wire[1]
  BY <1>1, <1>c, ReceivedControl
<1>3. txn.at = "listing"
  <2>1. SUFFICES ASSUME txn.at # "listing" PROVE FALSE
    OBVIOUS
  <2>2. txn' = txn
    BY <2>1 DEF ReceiveAnswer
  <2>3. txn.superseding
    BY <1>2, <1>c, <2>1 DEF TransactionControl, UnderWay
  <2> QED
    BY <2>2, <2>3 DEF Follows
<1>4. Follows /\ ListedIsHeld /\ \A id \in Ids : FollowingAt(id)
  <2>1. ~ txn.superseding
    BY <1>3, <1>c DEF TransactionControl
  <2>2. Follows
    BY <1>1, <1>2, <1>3, <1>t, <2>1 DEF Follows, Listings
  <2> QED
    BY <2>2 DEF Following
<1>5. txn' = NoTxn /\ app'.rows = WithDeltas(Merge(txn.base, wire[1].read), txn.deltas)
  BY <1>2, <1>3 DEF ReceiveAnswer, Completed, Held
<1>6. ASSUME NEW id \in Ids
      PROVE  app'.rows[id] = IF Recorded(id) THEN truth[id] ELSE Merge(txn.base, wire[1].read)[id]
  BY <1>5, <1>c, RecordedRows
<1>7. \A id : ~ Recorded(id)'
  BY <1>5 DEF Recorded, NoTxn
<1>8. ASSUME NEW id \in Ids, NEW v, Becomes(id, v)
      PROVE  Becomes(id, v)'
  <2>1. (IsPending(id)' <=> IsPending(id)) /\ (Pends(id, v)' <=> Pends(id, v))
    BY <1>1 DEF IsPending, Pends
  <2>2. Ground(id, v) => Ground(id, v)'
    BY <1>2, <1>6, <1>7 DEF Ground
  <2>3. /\ SaysLast(wire, id, v) => SaysLast(wire, id, v)'
        /\ Silent(wire, id) => Silent(wire, id)'
    <3>1. ~ IsUpdate(Head(wire), id)
      BY <1>1 DEF IsUpdate
    <3> QED
      BY <1>1, <1>t, <3>1, SaysTail
  <2> QED
    BY <1>8, <2>1, <2>2, <2>3 DEF Becomes
<1>9. ASSUME NEW id \in Ids
      PROVE  FollowingAt(id)'
  BY <1>1, <1>4, <1>8, FollowingStays
<1>10. ListedIsHeld'
  <2>1. ASSUME listing.at = "answered", NEW id \in Ids, listing.values[id] # None
        PROVE  app'.rows[id] = listing.values[id]
    <3>1. id \in DOMAIN wire[1].read.values /\ wire[1].read.values[id] = listing.values[id]
      BY <1>2, <1>4, <2>1 DEF ListedIsHeld
    <3>2. Merge(txn.base, wire[1].read)[id] = listing.values[id]
      BY <3>1 DEF Merge
    <3>3. Recorded(id) => listing.values[id] = truth[id]
      BY <1>c, <2>1 DEF RecordedIsTrue
    <3> QED
      BY <1>6, <3>2, <3>3
  <2>2. txn'.deltas = <<>>
    BY <1>5 DEF NoTxn
  <2> QED
    BY <1>1, <1>2, <2>1, <2>2 DEF ListedIsHeld
<1> QED
  BY <1>9, <1>10 DEF Following

LEMMA FollowingUpdate ==
    ASSUME NothingLapses, Shape, Shape', Controls, Truthful, Following, ReceiveUpdate, Follows'
    PROVE  Following'
<1>t. /\ wire \in Seq(Updates \cup Answers) /\ listing \in Listings /\ txn \in Txns
      /\ txn.deltas \in Seq(Updates) /\ app.rows \in Rows
  BY SessionTypes, RowTypes
<1>c. SessionControl /\ TransactionControl
  BY DEF Controls
<1>1. wire # <<>> /\ Head(wire).kind = "update" /\ wire' = Tail(wire) /\ UNCHANGED <<truth, job, sub, listing>>
  BY DEF ReceiveUpdate, daemonVars
<1>2. /\ ~ AnswerComes' /\ sub.on /\ listing.at \notin {"sent", "received", "captured", "answered"}
      /\ ~ AnswerComes /\ Head(wire) \in Updates
  BY <1>1, <1>c, ReceivedControl
<1>m. PICK m : m = Head(wire)
  OBVIOUS
<1>3. m \in Updates /\ m.id \in Ids /\ m.kind = "update"
  BY <1>2, <1>m DEF Updates
<1>4. \/ /\ m.value = truth[m.id] /\ txn' = [txn EXCEPT !.deltas = Append(txn.deltas, m)]
         /\ app' = app
      \/ ~ InTransaction /\ txn' = txn /\ app'.rows = [app.rows EXCEPT ![m.id] = m.value]
  BY <1>m DEF ReceiveUpdate, NothingLapses, Held
<1>5. ASSUME NEW id \in Ids, NEW v
      PROVE  /\ id = m.id /\ v = m.value => Ground(id, v)'
             /\ id # m.id /\ Ground(id, v) => Ground(id, v)'
  <2>1. CASE /\ m.value = truth[m.id] /\ txn' = [txn EXCEPT !.deltas = Append(txn.deltas, m)]
             /\ app' = app
    <3>1. txn'.deltas = Append(txn.deltas, m)
      BY <1>t, <2>1 DEF Txns
    <3>2. \A i \in DOMAIN txn'.deltas : txn'.deltas[i] = m \/ (i \in DOMAIN txn.deltas /\ txn'.deltas[i] = txn.deltas[i])
      BY <1>t, <1>3, <3>1
    <3>3. \A i \in DOMAIN txn.deltas : i \in DOMAIN txn'.deltas /\ txn'.deltas[i] = txn.deltas[i]
      BY <1>t, <1>3, <3>1
    <3>4. \E i \in DOMAIN txn'.deltas : txn'.deltas[i] = m
      BY <1>t, <1>3, <3>1
    <3>5. Recorded(m.id)' /\ \A o : o # m.id => (Recorded(o)' <=> Recorded(o))
      BY <3>2, <3>3, <3>4 DEF Recorded
    <3> QED
      BY <1>1, <1>2, <2>1, <3>5 DEF Ground
  <2>2. CASE ~ InTransaction /\ txn' = txn /\ app'.rows = [app.rows EXCEPT ![m.id] = m.value]
    <3>1. \A o : ~ Recorded(o) /\ ~ Recorded(o)'
      BY <1>c, <2>2 DEF TransactionControl, Recorded
    <3>2. app'.rows[m.id] = m.value /\ \A o \in Ids : o # m.id => app'.rows[o] = app.rows[o]
      BY <1>3, <1>t, <2>2 DEF Rows
    <3> QED
      BY <1>2, <3>1, <3>2 DEF Ground
  <2> QED
    BY <1>4, <2>1, <2>2
<1>6. ASSUME NEW id \in Ids, NEW v, Becomes(id, v)
      PROVE  Becomes(id, v)'
  <2>1. ~ IsPending(id)' /\ ~ IsPending(id) /\ ~ Pends(id, v)
    <3>1. sub.pending = <<>>
      BY <1>2, <1>c DEF SessionControl
    <3> QED
      BY <1>1, <3>1 DEF IsPending, Pends
  <2>2. /\ SaysLast(wire, id, v) =>
             \/ SaysLast(wire, id, v)'
             \/ IsUpdate(m, id) /\ m.value = v /\ Silent(wire, id)'
        /\ Silent(wire, id) => Silent(wire, id)' /\ ~ IsUpdate(m, id)
    BY <1>1, <1>m, <1>t, SaysTail
  <2> QED
    BY <1>3, <1>5, <1>6, <2>1, <2>2 DEF Becomes, IsUpdate
<1>7. Follows /\ \A id \in Ids : FollowingAt(id)
  <2>1. ~ txn.superseding
    BY <1>4, <1>t DEF Follows, Txns
  <2>2. Follows
    BY <1>1, <1>2, <1>t, <2>1 DEF Follows, Listings
  <2> QED
    BY <2>2 DEF Following
<1>8. \A id \in Ids : FollowingAt(id)'
  BY <1>1, <1>6, <1>7, FollowingStays
<1>9. ListedIsHeld'
  BY <1>1, <1>2 DEF ListedIsHeld
<1> QED
  BY <1>8, <1>9 DEF Following

LEMMA FollowingStep ==
    ASSUME NothingLapses, Shape, Shape', DemandInv, Controls, Controls', Numbers, Truthful, Following,
           Honesty, [Next]_vars
    PROVE  Following'
<1> SUFFICES ASSUME Follows'
             PROVE  Following'
  BY DEF Following
<1>t. listing \in Listings /\ sub \in Subs /\ txn \in Txns
  BY SessionTypes, RowTypes
<1>c. SessionControl /\ TransactionControl /\ RecordedIsTrue
  BY DEF Controls, Truthful
<1>1. CASE Stands \/ OtherNumbers
  <2>1. UNCHANGED <<truth, job, sub, listing, wire, txn, app>>
    BY <1>1 DEF Stands, StayPut, OtherNumbers, sessionVars, rowVars
  <2>2. \A id \in Ids : \A v : Becomes(id, v)' <=> Becomes(id, v)
    BY <2>1 DEF Becomes, Pends, IsPending, Ground, Recorded, AnswerComes, SaysLast, Silent
  <2>3. \A id \in Ids : FollowingAt(id) => FollowingAt(id)'
    BY <2>1, <2>2, FollowingStays
  <2>4. Follows /\ ListedIsHeld' = ListedIsHeld
    BY <2>1 DEF Follows, AnswerComes, ListedIsHeld
  <2> QED
    BY <2>3, <2>4 DEF Following
<1>2. CASE TakesOver
  <2>1. /\ UNCHANGED <<truth, job, sub, listing, wire, app>> /\ txn'.deltas = txn.deltas
        /\ txn'.at # "listing" /\ txn'.superseding = (txn.superseding \/ txn.at = "listing")
    BY <1>2 DEF TakesOver, StayPut
  <2>2. ~ AnswerComes /\ ~ AnswerComes'
    BY <2>1 DEF Follows, AnswerComes
  <2>3. \A id \in Ids : \A v : Becomes(id, v)' <=> Becomes(id, v)
    BY <2>1, <2>2 DEF Becomes, Pends, IsPending, Ground, Recorded, SaysLast, Silent
  <2>4. \A id \in Ids : FollowingAt(id) => FollowingAt(id)'
    BY <2>1, <2>3, FollowingStays
  <2>5. Follows
    BY <2>1, <2>2 DEF Follows
  <2>6. ListedIsHeld => ListedIsHeld'
    BY <2>1, <2>2 DEF ListedIsHeld
  <2> QED
    BY <2>4, <2>5, <2>6 DEF Following
<1>3. CASE LosesProjects
  <2>1. /\ UNCHANGED <<truth, job, sub, listing, wire>> /\ txn' = NoTxn /\ ~ txn.superseding
        /\ app'.rows = WithDeltas(app.rows, txn.deltas)
    BY <1>3 DEF LosesProjects, StayPut, Abandons
  <2>2. ~ AnswerComes /\ ~ AnswerComes'
    BY <2>1 DEF Follows, AnswerComes, NoTxn
  <2>3. \A id : ~ Recorded(id)'
    BY <2>1 DEF Recorded, NoTxn
  <2>4. \A id \in Ids : app'.rows[id] = IF Recorded(id) THEN truth[id] ELSE app.rows[id]
    BY <2>1, <1>c, RecordedRows
  <2>5. \A id \in Ids : \A v : Ground(id, v) => Ground(id, v)'
    BY <2>2, <2>3, <2>4 DEF Ground
  <2>6. \A id \in Ids : \A v : Becomes(id, v) => Becomes(id, v)'
    BY <2>1, <2>5 DEF Becomes, Pends, IsPending, SaysLast, Silent
  <2>7. \A id \in Ids : FollowingAt(id) => FollowingAt(id)'
    BY <2>1, <2>6, FollowingStays
  <2>8. Follows
    BY <2>1, <2>2 DEF Follows
  <2>9. ListedIsHeld => ListedIsHeld'
    <3>1. ASSUME txn.deltas = <<>>
          PROVE  \A id \in Ids : app'.rows[id] = app.rows[id]
      BY <2>4, <3>1 DEF Recorded
    <3>2. txn'.deltas = <<>>
      BY <2>1 DEF NoTxn
    <3> QED
      BY <2>1, <2>2, <3>1, <3>2 DEF ListedIsHeld
  <2> QED
    BY <2>7, <2>8, <2>9 DEF Following
<1>4. CASE Leaves \/ Restarts \/ IsKilled \/ AsksForListing
  <2>1. sub' = NoSub
    BY <1>4 DEF Leaves, Restarts, IsKilled, AsksForListing, Unsubscribed
  <2> QED
    BY <2>1 DEF Follows, NoSub
<1>5. CASE DeviceRead
  BY <1>5, DeviceReadRestores DEF StayPut, Follows
<1>6. CASE ReceiveAnswer
  BY <1>6, FollowingAnswered
<1>7. CASE ReceiveUpdate
  BY <1>7, FollowingUpdate
<1>8. ASSUME NEW id \in Ids, JobReads(id) \/ JobUpserts(id) \/ JobFindsGone(id) \/ JobRemoves(id)
      PROVE  Following'
  BY <1>8, FollowingJob, FollowingUpsert, FollowingRemoval
<1>9. CASE ListingArrives \/ ListingCaptures
  BY <1>9, <1>t DEF ListingArrives, ListingCaptures, Follows, Listings
<1>10. CASE ListingAnswers
  BY <1>10, FollowingAnswer
<1>11. CASE ListingFlushes
  BY <1>11, FollowingFlush
<1>12. ASSUME NEW id \in Ids, NEW value \in Contents \cup {None}, Mutate(id, value)
       PROVE  Following'
  <2>1. /\ truth'[id] = value /\ \A o \in Ids : o # id => truth'[o] = truth[o]
        /\ value = None => ~ sub.on \/ sub.last[id] # "none"
        /\ ~ Recorded(id)
        /\ UNCHANGED <<sub, listing, wire, txn, app>>
        /\ sub.on => job'[id] = Queued(job[id]) /\ \A o \in Ids : o # id => job'[o] = job[o]
    BY <1>12, MutationTells
  <2>2. Follows /\ sub.on
    BY <2>1 DEF Follows, AnswerComes
  <2>3. \A o \in Ids : \A v : Becomes(o, v)' <=> Becomes(o, v)
    BY <2>1 DEF Becomes, Pends, IsPending, Ground, Recorded, AnswerComes, SaysLast, Silent
  <2>4. \A o \in Ids : o # id => (FollowingAt(o) => FollowingAt(o)')
    BY <2>1, <2>2, <2>3, FollowingStays
  <2>5. FollowingAt(id) => FollowingAt(id)'
    <3>1. job'[id].at # "idle"
      BY <2>1, <2>2, SessionTypes DEF Queued, NoJob, Jobs
    <3>2. ~ (sub'.last[id] = "none" /\ truth'[id] = None)
      BY <2>1, <2>2
    <3> QED
      BY <2>1, <2>3, <3>1, <3>2 DEF FollowingAt
  <2>6. ListedIsHeld => ListedIsHeld'
    BY <2>1 DEF ListedIsHeld, AnswerComes
  <2> QED
    BY <2>2, <2>4, <2>5, <2>6 DEF Following
<1> QED
  BY <1>1, <1>2, <1>3, <1>4, <1>5, <1>6, <1>7, <1>8, <1>9, <1>10, <1>11, <1>12, StepsOfAll

LEMMA FollowingStarts == Init => Following
BY DEF Init, NoSub, Following, Follows

\* Who is satisfied has a subscription or is about to.
Subscribed == satisfied => Served

LEMMA SubscribedStep ==
    ASSUME NothingLapses, Shape, DemandInv, Subscribed, [Next]_vars
    PROVE  Subscribed'
<1>t. sub \in Subs /\ listing \in Listings /\ refresh.moved \in BOOLEAN
  BY ControlTypes
<1>l. Lapses = {}
  BY DEF NothingLapses
<1>1. ASSUME UNCHANGED satisfied, Served => Served'
      PROVE  Subscribed'
  BY <1>1 DEF Subscribed
<1>2. ASSUME UNCHANGED <<satisfied, sub, listing>>
      PROVE  Subscribed'
  BY <1>2 DEF Subscribed, Served
<1>3. ASSUME satisfied' = FALSE
      PROVE  Subscribed'
  BY <1>3 DEF Subscribed
<1>4. CASE Session
  <2>1. ASSUME NEW update, BufferOrEmit(sub, update)
        PROVE  sub'.on = sub.on
    BY <2>1, <1>t DEF BufferOrEmit, Subs
  <2>2. ASSUME NEW id \in Ids, JobReads(id) \/ JobUpserts(id) \/ JobFindsGone(id) \/ JobRemoves(id)
        PROVE  Subscribed'
    <3>1. UNCHANGED <<satisfied, listing>>
      BY <2>2 DEF JobReads, JobUpserts, JobFindsGone, JobRemoves, demandVars
    <3>2. sub'.on = sub.on
      <4>1. CASE JobReads(id)
        BY <4>1 DEF JobReads
      <4>2. CASE JobUpserts(id)
        BY <2>1, <4>2 DEF JobUpserts
      <4>3. CASE JobFindsGone(id)
        BY <4>3, <1>t DEF JobFindsGone, Subs
      <4>4. CASE JobRemoves(id)
        BY <2>1, <4>4 DEF JobRemoves
      <4> QED
        BY <2>2, <4>1, <4>2, <4>3, <4>4
    <3> QED
      BY <1>1, <3>1, <3>2 DEF Served
  <2>3. CASE ListingArrives
    BY <1>1, <2>3 DEF ListingArrives, NoSub, Served, demandVars
  <2>4. CASE ListingCaptures \/ ListingAnswers \/ ListingFlushes
    <3>1. UNCHANGED satisfied /\ listing.at # "sent"
      BY <2>4 DEF ListingCaptures, ListingAnswers, ListingFlushes, demandVars
    <3>2. sub'.on = sub.on
      BY <2>4, <1>t DEF ListingCaptures, ListingAnswers, ListingFlushes, Subs
    <3> QED
      BY <1>1, <3>1, <3>2 DEF Served
  <2> QED
    BY <1>4, <2>2, <2>3, <2>4 DEF Session
<1>5. CASE App
  <2>1. ASSUME NEW who, Demand(who)
        PROVE  Subscribed'
    BY <1>2, <2>1 DEF Demand, sessionVars
  <2>2. ASSUME NEW who, Drop(who)
        PROVE  Subscribed'
    BY <1>2, <1>3, <2>2 DEF Drop, sessionVars
  <2>3. CASE \/ Connect \/ ForceRefresh \/ ReadDevice \/ DeviceRead \/ BeginsAfterCache
             \/ ReceiveAnswer \/ ReceiveUpdate \/ RefreshFails \/ Flush
    BY <1>2, <2>3 DEF Connect, ForceRefresh, ReadDevice, DeviceRead, BeginsAfterCache, ReceiveAnswer,
                      ReceiveUpdate, RefreshFails, Flush, sessionVars, demandVars
  <2>4. CASE AsksForListing
    BY <1>1, <2>4 DEF AsksForListing, NoListing, Served, demandVars
  <2>5. CASE TransactionFails
    <3>1. UNCHANGED satisfied /\ (UNCHANGED sessionVars \/ ~ satisfied)
      BY <2>5, <1>l DEF TransactionFails
    <3> QED
      BY <1>2, <3>1 DEF sessionVars, Subscribed
  <2>6. CASE RefreshEnds
    <3>1. /\ refresh.on /\ ~ refresh.doomed /\ txn.at = "none" /\ UNCHANGED <<sub, listing>>
          /\ satisfied' = (satisfied \/ ~ refresh.moved)
      BY <2>6 DEF RefreshEnds, sessionVars
    <3>2. ~ refresh.moved => Served
      BY <3>1 DEF DemandInv, RefreshServes
    <3> QED
      BY <3>1, <3>2 DEF Subscribed, Served
  <2> QED
    BY <1>5, <2>1, <2>2, <2>3, <2>4, <2>5, <2>6 DEF App
<1>6. CASE Environment
  <2>1. ASSUME NEW id, NEW value, Mutate(id, value)
        PROVE  Subscribed'
    BY <1>2, <2>1 DEF Mutate, demandVars
  <2>2. ASSUME NEW ids, OtherReads(ids)
        PROVE  Subscribed'
    BY <1>2, <2>2 DEF OtherReads, sessionVars, demandVars
  <2>3. CASE OtherNumbers
    BY <1>2, <2>3 DEF OtherNumbers, sessionVars, demandVars
  <2>4. CASE Cut \/ Crash \/ Kill
    BY <1>3, <2>4 DEF Cut, Crash, Kill, Disconnected
  <2> QED
    BY <1>6, <2>1, <2>2, <2>3, <2>4 DEF Environment
<1>7. CASE UNCHANGED vars
  BY <1>2, <1>7 DEF vars, sessionVars, demandVars
<1> QED
  BY <1>4, <1>5, <1>6, <1>7 DEF Next

\* All of it.
ReplicaInv == Controls /\ Numbers /\ Truthful /\ Following /\ Honesty /\ Subscribed

LEMMA ReplicaHolds ==
    ASSUME NothingLapses
    PROVE  Spec => []ReplicaInv
<1>1. Init => ReplicaInv
  BY ControlStarts, NumbersStart, TruthfulStarts, FollowingStarts, HonestyStarts
     DEF ReplicaInv, Subscribed, Init
<1>2. ASSUME Shape, Shape', DemandInv, ReplicaInv, [Next]_vars
      PROVE  ReplicaInv'
  <2>1. Controls'
    BY <1>2, ControlStep DEF ReplicaInv
  <2> QED
    BY <1>2, <2>1, NumbersStep, TruthfulStep, FollowingStep, HonestyStep, SubscribedStep DEF ReplicaInv
<1>3. Spec => []DemandInv
  BY DemandHolds DEF NothingLapses
<1> QED
  BY <1>1, <1>2, <1>3, ShapeHolds, PTL DEF Spec

\* Nothing of a workspace is on its way: its row is what is.
LEMMA QuietRow ==
    ASSUME Shape, Following, Follows, ~ AnswerComes, NEW id \in Ids, job[id].at = "idle",
           ~ IsPending(id), Silent(wire, id), ~ Recorded(id)
    PROVE  app.rows[id] = truth[id]
<1>1. Becomes(id, truth[id])
  BY DEF Following, FollowingAt
<1>2. ~ Pends(id, truth[id]) /\ ~ SaysLast(wire, id, truth[id])
  BY DEF Pends, IsPending, SaysLast, Silent
<1> QED
  BY <1>1, <1>2 DEF Becomes, Ground

\* Unless the app is cost a change in one of the ways that Lapses lists, or a
\* listing keeps back a quiet change, neither its cursor nor the one on the device
\* covers a change that the rows beside it do not have (noteLiveCursor,
\* completeWorkspaceRefresh, writeCursor): the changes of any number of workspaces,
\* refreshes, lost connections and restarts notwithstanding.
THEOREM CursorsHideNothing ==
    ASSUME Lapses = {}, Quiet = {}
    PROVE  Spec => []CursorHidesNothing
<1>0. NothingLapses
  BY DEF NothingLapses
<1>1. ASSUME Shape, ReplicaInv
      PROVE  CursorHidesNothing
  <2>1. ASSUME NEW held \in Helds, NEW ids, \A id \in ids : HonestAt(held, id)
        PROVE  Honest(held, ids)
    BY <2>1 DEF Honest, HonestAt, Honours, Mark
  <2>2. ASSUME NEW id \in Ids, ~ Outstanding(id)
        PROVE  HonestAt(app, id)
    <3>1. job[id].at = "idle" /\ ~ IsPending(id) /\ Silent(wire, id) /\ ~ Recorded(id)
      BY <2>2 DEF Outstanding, IsPending, Silent, IsUpdate
    <3>2. CASE Kept
      BY <1>1, <3>1, <3>2 DEF ReplicaInv, Honesty
    <3>3. CASE ~ Kept
      <4>1. Follows /\ ~ AnswerComes
        BY <1>1, <3>3, SessionTypes DEF ReplicaInv, Controls, SessionControl, Kept, Follows, Listings
      <4>2. app.rows[id] = truth[id]
        BY <1>1, <3>1, <4>1, QuietRow DEF ReplicaInv
      <4> QED
        BY <4>2 DEF HonestAt, Honours
    <3> QED
      BY <3>2, <3>3
  <2>3. Honest(app, {id \in Ids : ~ Outstanding(id)})
    BY <1>1, <2>1, <2>2, RowTypes
  <2>4. Honest(durable, Ids)
    BY <1>1, <2>1, RowTypes DEF ReplicaInv, Honesty
  <2> QED
    BY <2>3, <2>4 DEF CursorHidesNothing
<1> QED
  BY <1>0, <1>1, ShapeHolds, ReplicaHolds, PTL

\* Under the same conditions an app that takes its directory for satisfied, with
\* nothing on its way, shows the workspaces the daemon has (requestDemandRefresh,
\* completeWorkspaceRefresh, the bootstrap of a subscription), whatever the order
\* of changes, listings, refreshes, failures and restarts has been.
THEOREM SettledShowsAll ==
    ASSUME Lapses = {}, Quiet = {}
    PROVE  Spec => []SettledHoldsAll
<1>0. NothingLapses
  BY DEF NothingLapses
<1>1. ASSUME Shape, ReplicaInv, Settled
      PROVE  app.rows = truth
  <2>1. /\ satisfied /\ txn.at = "none" /\ listing.at = "none" /\ wire = <<>>
        /\ \A id \in Ids : job[id].at = "idle"
    BY <1>1 DEF Settled
  <2>2. SessionControl /\ TransactionControl /\ Following
    BY <1>1 DEF ReplicaInv, Controls
  <2>3. sub.on /\ ~ AnswerComes
    BY <1>1, <2>1 DEF ReplicaInv, Subscribed, Served, AnswerComes
  <2>4. txn.deltas = <<>> /\ ~ txn.superseding /\ sub.pending = <<>>
    BY <2>1, <2>2 DEF TransactionControl, InTransaction, SessionControl
  <2>5. Follows
    BY <2>1, <2>3, <2>4 DEF Follows
  <2>6. \A id : ~ IsPending(id) /\ Silent(wire, id) /\ ~ Recorded(id)
    BY <2>1, <2>4 DEF IsPending, Silent, Recorded
  <2>7. \A id \in Ids : app.rows[id] = truth[id]
    BY <1>1, <2>1, <2>2, <2>3, <2>5, <2>6, QuietRow
  <2>8. app.rows \in Rows /\ truth \in Rows
    BY <1>1, SessionTypes, RowTypes
  <2> QED
    BY <2>7, <2>8 DEF Rows
<1>2. Shape /\ ReplicaInv => SettledHoldsAll
  BY <1>1 DEF SettledHoldsAll
<1> QED
  BY <1>0, <1>2, ShapeHolds, ReplicaHolds, PTL

===============================================================================
