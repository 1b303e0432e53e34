--------------------------- MODULE DirectoryReplica ---------------------------
(***************************************************************************)
(* The workspaces of one host, from the daemon's registry to the rows an   *)
(* app shows: the session that describes, numbers and sends the changes,   *)
(* the listing a subscription starts with (session.ts), the app's demand,  *)
(* refreshes and cursor (app/src/runtime/directory-sync), and the copy on  *)
(* the device.  Another session numbers changes of its own; connections    *)
(* are lost, both processes are restarted, and refreshes fail.             *)
(*                                                                         *)
(* Collections has the daemon's numbering.  A connection delivers in       *)
(* order.  The daemon knows of a release, and has the jobs of a replaced   *)
(* subscription dropped, at once.                                          *)
(***************************************************************************)
EXTENDS Collections, Sequences

CONSTANTS
  Quiet,          \* values that differ in neither status nor activity
  MaxChanges,     \* bound: changes of the registry
  MaxFaults,      \* bound: disturbances, of all kinds together
  MaxEvents,      \* bound: changes and disturbances together
  Disturbances,   \* the kinds of them: a subset of Kinds
  Lapses          \* what of AllLapses happens

Kinds == {"cut", "crash", "kill", "other", "fail", "force", "drop"}

\* Situations that cost the app a change:
\*   unseeded   a workspace goes that the subscription has not sent or listed
\*   overtaken  updates are cut off that a later number has overtaken
\*   replayed   a refresh puts a recorded update over a newer listing
\*   refused    a forced refresh fails: its predecessor's subscription is gone
\*   dropped    all demand is dropped while a refresh runs
\*   returned   a workspace returns to a value that is still the numbered one
\*   latecache  the device is read after, or during, a refresh without it
\*   ignored    a refresh that supersedes another one's listing then fails
AllLapses ==
  {"unseeded", "overtaken", "replayed", "refused", "dropped", "returned", "latecache", "ignored"}

ASSUME ReplicaAssumption ==
  /\ Quiet \subseteq Contents
  /\ MaxChanges \in Nat /\ MaxFaults \in Nat /\ MaxEvents \in Nat
  /\ Disturbances \subseteq Kinds /\ Lapses \subseteq AllLapses
  /\ Contents \cap {"none", "seeded", "removed"} = {}

VARIABLES
  truth,        \* the registry's workspaces as the session would describe them
  generation,   \* daemon process
  collection,   \* daemon: the numbered workspaces
  other,        \* daemon: what another session has read and will number
  job,          \* session: the queued update of each workspace
  sub,          \* session: the app's subscription
  listing,      \* session: the listing it starts with
  wire,         \* what the session has sent
  online,       \* app: it is connected
  demand,       \* app: who needs the directory
  load,         \* app: whether the device has been read
  touched,      \* app: something came from the network since that began
  txn,          \* app: the workspaces' part of a refresh
  refresh,      \* app: demandRefresh
  satisfied,    \* app: this connection's demand is satisfied
  failed,       \* app: the last refresh failed
  app,          \* app: the rows and the cursor they are good for
  device,       \* app: rows and cursor given to the device
  durable,      \* device: rows and cursor it has written
  changes, faults \* left (bounds)

daemonVars  == <<truth, generation, collection, other>>
sessionVars == <<job, sub, listing, wire>>
demandVars  == <<online, demand, refresh, satisfied, failed>>
rowVars     == <<load, touched, txn, app, device, durable>>
vars        == <<daemonVars, sessionVars, demandVars, rowVars, changes, faults>>

NoRows == [id \in Ids |-> None]
Held(rows, cursor) == [rows |-> rows, cursor |-> cursor]
NoJob == [at |-> "idle", value |-> None, again |-> FALSE]
NoSub == [on |-> FALSE, boot |-> FALSE, pending |-> <<>>, last |-> [id \in Ids |-> "none"]]
NoListing == [at |-> "none", cursor |-> None, values |-> NoRows]
NoTxn == [at |-> "none", base |-> NoRows, cursor |-> None, deltas |-> <<>>,
          superseding |-> FALSE]
NoRefresh == [on |-> FALSE, moved |-> FALSE, doomed |-> FALSE, cached |-> FALSE]

Init ==
  /\ truth \in [Ids -> Contents \cup {None}]
  /\ generation = 0 /\ collection = EmptyCollection /\ other = <<>>
  /\ job = [id \in Ids |-> NoJob] /\ sub = NoSub /\ listing = NoListing /\ wire = <<>>
  /\ online = FALSE /\ demand = {} /\ load = "none" /\ touched = FALSE
  /\ txn = NoTxn /\ refresh = NoRefresh /\ satisfied = FALSE /\ failed = FALSE
  /\ app = Held(NoRows, None) /\ device = app /\ durable = app
  /\ changes = MaxChanges /\ faults = MaxFaults

MoreMayHappen == (MaxChanges - changes) + (MaxFaults - faults) < MaxEvents

Disturbed(kind) ==
  /\ kind \in Disturbances
  /\ faults > 0 /\ MoreMayHappen
  /\ faults' = faults - 1

-----------------------------------------------------------------------------
(***************************************************************************)
(* The session.  The updates of a workspace are made one after another:    *)
(* each reads the workspace, numbers what it has read and sends it.        *)
(***************************************************************************)
Update(id, value, seq) == [kind |-> "update", id |-> id, value |-> value, seq |-> seq]

\* A later update of a workspace takes the place of the pending one.
Buffered(pending, update) ==
  LET at == {i \in DOMAIN pending : pending[i].id = update.id}
  IN  IF at = {} THEN Append(pending, update)
      ELSE [i \in DOMAIN pending |-> IF i \in at THEN update ELSE pending[i]]

\* Mutant: what was removed is remembered by its absence.
LastOfValue(update) == update.value

LastOf(update) == IF update.value = None THEN "removed" ELSE update.value

\* bufferOrEmitWorkspaceUpdate, to the subscription s.
BufferOrEmit(s, update) ==
  IF ~ s.on THEN sub' = s /\ UNCHANGED wire
  ELSE IF s.boot
  THEN sub' = [s EXCEPT !.pending = Buffered(@, update)] /\ UNCHANGED wire
  ELSE /\ sub' = [s EXCEPT !.last[update.id] = LastOf(update)]
       /\ wire' = Append(wire, update)

Queued(j) == IF j.at = "idle" THEN [NoJob EXCEPT !.at = "queued"] ELSE [j EXCEPT !.again = TRUE]
Finished(j) == IF j.again THEN [NoJob EXCEPT !.at = "queued"] ELSE NoJob

Recorded(id) == \E i \in DOMAIN txn.deltas : txn.deltas[i].id = id

\* The registry changes; whoever is subscribed gets an update in time.
Mutate(id, value) ==
  /\ changes > 0 /\ MoreMayHappen /\ value # truth[id]
  /\ value # None \/ ~ sub.on \/ sub.last[id] # "none" \/ "unseeded" \in Lapses
  /\ value # collection.entry[id].value \/ "returned" \in Lapses
  /\ ~ Recorded(id) \/ "replayed" \in Lapses
  /\ changes' = changes - 1
  /\ truth' = [truth EXCEPT ![id] = value]
  /\ job' = IF sub.on THEN [job EXCEPT ![id] = Queued(@)] ELSE job
  /\ UNCHANGED <<generation, collection, other, sub, listing, wire, demandVars, rowVars, faults>>

JobReads(id) ==
  /\ job[id].at = "queued"
  /\ job' = [job EXCEPT ![id].at = "read", ![id].value = truth[id]]
  /\ UNCHANGED <<daemonVars, sub, listing, wire, demandVars, rowVars, changes, faults>>

\* What was last sent is not sent again.  A listed workspace carries its
\* number, so it never equals what is read now.
JobUpserts(id) ==
  /\ job[id].at = "read" /\ job[id].value # None
  /\ collection' = Replace(collection, id, job[id].value)
  /\ LET update == Update(id, job[id].value, SequenceFor(collection', id))
     IN  IF sub.last[id] = update.value THEN UNCHANGED <<sub, wire>> ELSE BufferOrEmit(sub, update)
  /\ job' = [job EXCEPT ![id] = Finished(@)]
  /\ UNCHANGED <<truth, generation, other, listing, demandVars, rowVars, changes, faults>>

\* A workspace that is gone is removed if it was ever sent or listed.
JobFindsGone(id) ==
  /\ job[id].at = "read" /\ job[id].value = None
  /\ IF sub.last[id] \in {"none", "removed"}
     THEN job' = [job EXCEPT ![id] = Finished(@)] /\ UNCHANGED sub
     ELSE /\ job' = [job EXCEPT ![id].at = "removing"]
          /\ sub' = [sub EXCEPT !.last[id] = "none"]
  /\ UNCHANGED <<daemonVars, listing, wire, demandVars, rowVars, changes, faults>>

\* It is numbered and sent after its project has been looked up.
JobRemoves(id) ==
  /\ job[id].at = "removing"
  /\ collection' = Remove(collection, id)
  /\ BufferOrEmit(sub, Update(id, None, SequenceFor(collection', id)))
  /\ job' = [job EXCEPT ![id] = Finished(@)]
  /\ UNCHANGED <<truth, generation, other, listing, demandVars, rowVars, changes, faults>>

-----------------------------------------------------------------------------
(***************************************************************************)
(* The listing a subscription starts with.                                 *)
(***************************************************************************)
ListingArrives ==
  /\ listing.at = "sent"
  /\ listing' = [listing EXCEPT !.at = "received"]
  /\ sub' = [NoSub EXCEPT !.on = TRUE, !.boot = TRUE]
  /\ UNCHANGED <<daemonVars, job, wire, demandVars, rowVars, changes, faults>>

ListingCaptures ==
  /\ listing.at = "received"
  /\ listing' = [listing EXCEPT !.at = "captured", !.values = truth]
  /\ UNCHANGED <<daemonVars, job, sub, wire, demandVars, rowVars, changes, faults>>

\* synchronizeWorkspaces, the seeding and the answer.
ListingAnswers ==
  /\ listing.at = "captured"
  /\ \E order \in Orders(collection, listing.values) :
        collection' = ReplaceAll(collection, listing.values, order)
  /\ LET read == Read(collection', generation, listing.cursor)
     IN  /\ wire' = Append(wire, [kind |-> "answer", read |-> read, generation |-> generation])
         /\ sub' = [sub EXCEPT !.last =
                [id \in Ids |-> IF id \in DOMAIN read.values THEN "seeded" ELSE @[id]]]
         /\ listing' = [listing EXCEPT !.at = "answered", !.values =
                [id \in Ids |-> IF id \in DOMAIN read.values THEN read.values[id] ELSE None]]
  /\ UNCHANGED <<truth, generation, other, job, demandVars, rowVars, changes, faults>>

\* Mutant: what was pending is thrown away.
NothingToFlush(pending, listed) == <<>>

\* What of an update the listing has not said already (shouldEmitPendingBootstrapUpdate).
SaysMore(update, listed) ==
  \/ update.value = None
  \/ listed[update.id] = None
  \/ update.value # listed[update.id] /\ ~ {update.value, listed[update.id]} \subseteq Quiet

\* The pending updates that still say something new, in their order.
ToFlush(pending, listed) ==
  LET kept == {i \in DOMAIN pending : SaysMore(pending[i], listed)}
      rank(i) == Cardinality({j \in kept : j <= i})
  IN  [k \in 1 .. Cardinality(kept) |-> pending[CHOOSE i \in kept : rank(i) = k]]

\* flushBootstrappedWorkspaceUpdates, after the git observers are reconciled.
ListingFlushes ==
  /\ listing.at = "answered"
  /\ LET sent == ToFlush(sub.pending, listing.values)
     IN  /\ wire' = wire \o sent
         /\ sub' = [sub EXCEPT !.boot = FALSE, !.pending = <<>>, !.last = [id \in Ids |->
                IF \E i \in DOMAIN sent : sent[i].id = id
                THEN LastOf(sent[CHOOSE i \in DOMAIN sent : sent[i].id = id]) ELSE @[id]]]
  /\ listing' = NoListing
  /\ UNCHANGED <<daemonVars, job, demandVars, rowVars, changes, faults>>

-----------------------------------------------------------------------------
(***************************************************************************)
(* Numbers overtaken: an update is still to be delivered although a higher *)
(* number was, or will be, delivered before it.                            *)
(***************************************************************************)
NumberOf(m) == IF m.kind = "answer" THEN m.read.head ELSE IF m.seq = None THEN 0 ELSE m.seq

Stream == wire \o (IF listing.at = "answered" THEN ToFlush(sub.pending, listing.values) ELSE <<>>)

CursorSeq(cursor) ==
  IF cursor = None THEN 0 ELSE IF cursor.generation = generation THEN cursor.seq ELSE 0

Overtaken(ms) ==
  LET below(i, n) == \E m \in {CursorSeq(app.cursor)} \cup {NumberOf(ms[j]) : j \in 1 .. i - 1} : m >= n
  IN  \/ \E i \in DOMAIN ms : ms[i].kind = "update" /\ below(i, NumberOf(ms[i]))
      \/ \E id \in Ids :
            /\ job[id].at # "idle" /\ collection.entry[id].value = truth[id]
            /\ below(Len(ms) + 1, collection.entry[id].seq)

MayCut == ~ Overtaken(Stream) \/ "overtaken" \in Lapses

\* The subscription and what it has sent come to nothing.
Unsubscribed ==
  /\ job' = [id \in Ids |-> NoJob] /\ sub' = NoSub /\ listing' = NoListing /\ wire' = <<>>

\* Another session has a workspace described, or lists them all, and numbers
\* what it found some time later.
OtherReads(ids) ==
  /\ Disturbed("other") /\ DOMAIN other = {}
  /\ other' = [id \in ids |-> truth[id]]
  /\ UNCHANGED <<truth, generation, collection, sessionVars, demandVars, rowVars, changes>>

OtherSnapshot ==
  [id \in Ids |-> IF id \in DOMAIN other THEN other[id] ELSE collection.entry[id].value]

OtherNumbers ==
  /\ DOMAIN other # {}
  /\ \E order \in Orders(collection, OtherSnapshot) :
        collection' = ReplaceAll(collection, OtherSnapshot, order)
  /\ other' = <<>>
  /\ UNCHANGED <<truth, generation, sessionVars, demandVars, rowVars, changes, faults>>

-----------------------------------------------------------------------------
(***************************************************************************)
(* The app's rows.                                                         *)
(***************************************************************************)
\* writeCursor: forward within a generation, over to another one.
WriteCursor(cursor, new) ==
  IF cursor # None /\ cursor.generation = new.generation /\ cursor.seq >= new.seq
  THEN cursor ELSE new

\* noteLiveCursor: an update without a number moves nothing.
Noted(cursor, update) ==
  IF update.seq = None THEN cursor ELSE WriteCursor(cursor, Cursor(generation, update.seq))

\* The last recorded update of each workspace is what remains of them.
WithDeltas(rows, deltas) ==
  [id \in Ids |->
     LET of == {i \in DOMAIN deltas : deltas[i].id = id}
     IN  IF of = {} THEN rows[id] ELSE deltas[Max(of)].value]

NotedAll(cursor, deltas) ==
  LET numbered == {i \in DOMAIN deltas : deltas[i].seq # None}
  IN  IF numbered = {} THEN cursor
      ELSE Noted(cursor, deltas[CHOOSE i \in numbered :
                \A j \in numbered : deltas[i].seq >= deltas[j].seq])

\* Rows and cursor are written through to the device: of the rows, those
\* of ids.
Persisted(ids, held) ==
  Held([id \in Ids |-> IF id \in ids THEN held.rows[id] ELSE device.rows[id]], held.cursor)

InTransaction == txn.at \in {"projects", "listing"}

\* Mutant: the cursor follows what a transaction recorded before it was given up.
GivenUpForward ==
  LET rows == WithDeltas(app.rows, txn.deltas)
  IN  /\ app' = Held(rows, NotedAll(app.cursor, txn.deltas))
      /\ device' = [device EXCEPT !.rows = WithDeltas(@, txn.deltas)]
      /\ txn' = NoTxn

\* The transaction is given up: what it recorded is applied, and the cursor
\* does not move.
GivenUp ==
  LET rows == WithDeltas(app.rows, txn.deltas)
  IN  /\ app' = Held(rows, app.cursor)
      /\ device' = [device EXCEPT !.rows = WithDeltas(@, txn.deltas)]
      /\ txn' = NoTxn

-----------------------------------------------------------------------------
(***************************************************************************)
(* Demand and refreshes.  requestDemandRefresh: there is one at a time;    *)
(* with full demand it reads the device first.                             *)
(***************************************************************************)
\* A transaction that follows another one inherits what that has recorded.
\* The answer to the listing it asked for will be ignored.
Begun == [at |-> "projects", base |-> app.rows, cursor |-> app.cursor, deltas |-> txn.deltas,
          superseding |-> txn.superseding \/ txn.at = "listing"]

Starts(who) ==
  /\ refresh' = [NoRefresh EXCEPT !.on = TRUE, !.cached = "full" \in who]
  /\ txn' = IF "full" \in who /\ load # "done" THEN [txn EXCEPT !.at = "cache"] ELSE Begun
  /\ failed' = FALSE

StartsNot == UNCHANGED <<refresh, txn, failed>>

Connect ==
  /\ ~ online
  /\ online' = TRUE
  /\ IF demand # {} /\ ~ refresh.on THEN Starts(demand) ELSE StartsNot
  /\ UNCHANGED <<daemonVars, sessionVars, demand, satisfied, load, touched, app, device, durable,
                 changes, faults>>

\* A surface that shows the whole directory, or an open agent.  The first full
\* demand has the device read.
Demand(who) ==
  /\ who \notin demand
  /\ who = "full" \/ load = "done" \/ "latecache" \in Lapses
  /\ load = "done" \/ demand = {} \/ "latecache" \in Lapses
  /\ demand' = demand \cup {who}
  /\ IF online /\ ~ refresh.on /\ ~ satisfied THEN Starts(demand') ELSE StartsNot
  /\ load' = IF who = "full" /\ load = "none" THEN "reading" ELSE load
  /\ touched' = IF load' # load THEN FALSE ELSE touched
  /\ UNCHANGED <<daemonVars, sessionVars, online, satisfied, app, device, durable, changes, faults>>

\* Without any demand the subscriptions are released; a listing that is
\* awaited rejects, and its transaction with it.
Drop(who) ==
  /\ who \in demand
  /\ demand' = demand \ {who}
  /\ Disturbed("drop")
  /\ IF demand' # {}
     THEN UNCHANGED <<sessionVars, refresh, satisfied, txn, app, device>>
     ELSE /\ ~ refresh.on \/ "dropped" \in Lapses
          /\ MayCut
          /\ Unsubscribed
          /\ satisfied' = FALSE
          /\ IF txn.at = "listing"
             THEN GivenUp /\ refresh' = [refresh EXCEPT !.doomed = refresh.on]
             ELSE UNCHANGED <<refresh, txn, app, device>>
  /\ UNCHANGED <<daemonVars, online, failed, load, touched, durable, changes>>

\* The user pulls to refresh.
ForceRefresh ==
  /\ online /\ demand # {} /\ ~ refresh.on
  /\ Disturbed("force")
  /\ Starts(demand)
  /\ UNCHANGED <<daemonVars, sessionVars, online, demand, satisfied, load, touched, app, device,
                 durable, changes>>

\* The device is read at startup or for the first full demand, and what it
\* has goes beneath the rows that are there.
ReadDevice ==
  /\ load = "none"
  /\ load' = "reading" /\ touched' = FALSE
  /\ UNCHANGED <<daemonVars, sessionVars, demandVars, txn, app, device, durable, changes, faults>>

DeviceRead ==
  /\ load = "reading"
  /\ load' = "done"
  /\ app' = Held([id \in Ids |-> IF app.rows[id] # None THEN app.rows[id] ELSE device.rows[id]],
                 IF touched THEN app.cursor ELSE device.cursor)
  /\ durable' = device /\ touched' = FALSE
  /\ UNCHANGED <<daemonVars, sessionVars, demandVars, txn, device, changes, faults>>

\* The refresh goes on when the device is read, with whatever connection there
\* is by then; without one it has nothing more to do.
BeginsAfterCache ==
  /\ txn.at = "cache" /\ load = "done"
  /\ txn' = IF online THEN Begun ELSE NoTxn
  /\ UNCHANGED <<daemonVars, sessionVars, demandVars, load, touched, app, device, durable,
                 changes, faults>>

\* The projects are there: the earlier subscription is released and the
\* workspaces are listed with a new one.
AsksForListing ==
  /\ txn.at = "projects" /\ online
  /\ MayCut
  /\ txn' = [txn EXCEPT !.at = "listing", !.superseding = FALSE]
  /\ job' = [id \in Ids |-> NoJob] /\ sub' = NoSub /\ wire' = <<>>
  /\ listing' = [NoListing EXCEPT !.at = "sent", !.cursor = txn.cursor]
  /\ UNCHANGED <<daemonVars, demandVars, load, touched, app, device, durable, changes, faults>>

Completed(read) == WithDeltas(Merge(txn.base, read), txn.deltas)

\* completeWorkspaceRefresh, or the answer to a subscription that another
\* refresh has superseded, which is ignored.
ReceiveAnswer ==
  /\ wire # <<>> /\ Head(wire).kind = "answer"
  /\ wire' = Tail(wire)
  /\ IF txn.at # "listing" THEN UNCHANGED <<txn, app, device, touched>>
     ELSE LET read == Head(wire).read
              rows == Completed(read)
              cursor == WriteCursor(app.cursor, Cursor(Head(wire).generation, read.head))
              named == {id \in Ids : app.rows[id] # None \/ rows[id] # None}
              changed == DOMAIN read.values \cup read.removals \cup {id \in Ids : Recorded(id)}
          IN  /\ app' = Held(rows, NotedAll(cursor, txn.deltas))
              /\ device' = Persisted(IF read.mode = "changes" THEN changed ELSE named, app')
              /\ txn' = NoTxn
              /\ touched' = (load = "reading")
  /\ UNCHANGED <<daemonVars, job, sub, listing, demandVars, load, durable, changes, faults>>

\* receiveWorkspaceDelta
ReceiveUpdate ==
  /\ wire # <<>> /\ Head(wire).kind = "update"
  /\ wire' = Tail(wire)
  /\ touched' = (load = "reading")
  /\ LET update == Head(wire)
     IN  IF InTransaction
         THEN /\ update.value = truth[update.id] \/ "replayed" \in Lapses
              /\ txn' = [txn EXCEPT !.deltas = Append(@, update)]
              /\ UNCHANGED <<app, device>>
         ELSE /\ app' = Held([app.rows EXCEPT ![update.id] = update.value],
                             Noted(app.cursor, update))
              /\ device' = Persisted({update.id}, app')
              /\ UNCHANGED txn
  /\ UNCHANGED <<daemonVars, job, sub, listing, demandVars, load, durable, changes, faults>>

\* The projects or the listing cannot be had.  The daemon drops the
\* subscription of a listing that fails.
TransactionFails ==
  /\ InTransaction
  /\ Disturbed("fail")
  /\ ~ txn.superseding \/ "ignored" \in Lapses
  /\ IF txn.at = "projects" THEN UNCHANGED sessionVars
     ELSE /\ ~ satisfied \/ "refused" \in Lapses
          /\ Unsubscribed
  /\ GivenUp
  /\ refresh' = [refresh EXCEPT !.doomed = refresh.on]
  /\ UNCHANGED <<daemonVars, online, demand, satisfied, failed, load, touched, durable, changes>>

\* Mutant: whether the connection was lost meanwhile is not asked.
RefreshEndsUnmoved ==
  /\ refresh.on /\ ~ refresh.doomed /\ txn.at = "none"
  /\ device' = IF refresh.cached THEN app ELSE device
  /\ satisfied' = TRUE
  /\ refresh' = NoRefresh
  /\ UNCHANGED <<daemonVars, sessionVars, online, demand, failed, load, touched, txn, app, durable,
                 changes, faults>>

\* Agents and workspaces are refreshed, and a full refresh writes the device anew.
RefreshEnds ==
  /\ refresh.on /\ ~ refresh.doomed /\ txn.at = "none"
  /\ device' = IF refresh.cached THEN app ELSE device
  /\ satisfied' = (satisfied \/ ~ refresh.moved)
  /\ IF refresh.moved /\ demand # {} /\ online THEN Starts(demand)
     ELSE refresh' = NoRefresh /\ UNCHANGED <<txn, failed>>
  /\ UNCHANGED <<daemonVars, sessionVars, online, demand, load, touched, app, durable, changes, faults>>

\* It fails with its workspaces, or the agents' part does, while or after the
\* workspaces are refreshed.  Only a refresh of another connection is repeated.
RefreshFails ==
  /\ refresh.on /\ txn.at # "cache"
  /\ IF refresh.doomed \/ refresh.moved THEN UNCHANGED faults
     ELSE Disturbed("fail") /\ load = "done"
  /\ IF refresh.moved /\ demand # {} /\ online THEN Starts(demand)
     ELSE refresh' = NoRefresh /\ failed' = TRUE /\ UNCHANGED txn
  /\ UNCHANGED <<daemonVars, sessionVars, online, demand, satisfied, load, touched, app, device,
                 durable, changes>>

-----------------------------------------------------------------------------
(***************************************************************************)
(* Lost connections and restarts.                                          *)
(***************************************************************************)
\* connectionChanged: what a transaction recorded is applied, subscriptions
\* are released, and a running refresh is of another connection now.
Disconnected ==
  /\ online' = FALSE /\ satisfied' = FALSE
  /\ Unsubscribed
  /\ IF InTransaction THEN GivenUp ELSE UNCHANGED <<txn, app, device>>
  /\ refresh' = IF online /\ refresh.on
        THEN [refresh EXCEPT !.moved = TRUE, !.doomed = @ \/ InTransaction] ELSE refresh

Cut ==
  /\ online
  /\ Disturbed("cut")
  /\ MayCut
  /\ Disconnected
  /\ UNCHANGED <<daemonVars, demand, failed, load, touched, durable, changes>>

\* The daemon restarts: it counts from one again.
Crash ==
  /\ Disturbed("crash")
  /\ generation' = generation + 1 /\ collection' = EmptyCollection /\ other' = <<>>
  /\ Disconnected
  /\ UNCHANGED <<truth, demand, failed, load, touched, durable, changes>>

\* What the app has given to the device is written a second later.  (It is
\* of interest only as long as the app may be killed.)
Flush ==
  /\ durable # device /\ "kill" \in Disturbances /\ faults > 0 /\ MoreMayHappen
  /\ ~ Overtaken(txn.deltas \o Stream) \/ "overtaken" \in Lapses
  /\ durable' = device
  /\ UNCHANGED <<daemonVars, sessionVars, demandVars, load, touched, txn, app, device, changes, faults>>

\* The app is killed and started again; what was not written is lost.
Kill ==
  /\ Disturbed("kill")
  /\ Unsubscribed
  /\ online' = FALSE /\ demand' = {} /\ satisfied' = FALSE /\ failed' = FALSE
  /\ refresh' = NoRefresh /\ txn' = NoTxn /\ load' = "none" /\ touched' = FALSE
  /\ app' = Held(NoRows, None) /\ device' = durable
  /\ UNCHANGED <<daemonVars, durable, changes>>

Session ==
  \/ \E id \in Ids : JobReads(id) \/ JobUpserts(id) \/ JobFindsGone(id) \/ JobRemoves(id)
  \/ ListingArrives \/ ListingCaptures \/ ListingAnswers \/ ListingFlushes

App ==
  \/ \E who \in {"full", "route"} : Demand(who) \/ Drop(who)
  \/ Connect \/ ForceRefresh \/ ReadDevice \/ DeviceRead \/ BeginsAfterCache \/ AsksForListing
  \/ ReceiveAnswer \/ ReceiveUpdate \/ TransactionFails \/ RefreshEnds \/ RefreshFails
  \/ Flush

Environment ==
  \/ \E id \in Ids, value \in Contents \cup {None} : Mutate(id, value)
  \/ \E ids \in {{id} : id \in Ids} \cup {Ids} : OtherReads(ids)
  \/ OtherNumbers \/ Cut \/ Crash \/ Kill

Next == Session \/ App \/ Environment

Spec == Init /\ [][Next]_vars

-----------------------------------------------------------------------------
Rows == [Ids -> Contents \cup {None}]
Cursors == {None} \cup [generation : Nat, seq : Nat]
Updates == [kind : {"update"}, id : Ids, value : Contents \cup {None}, seq : Nat \cup {None}]

\* The state has its type.
TypeOK ==
  /\ truth \in Rows /\ generation \in Nat /\ collection.head \in Nat
  /\ DOMAIN other \subseteq Ids
  /\ job \in [Ids -> [at : {"idle", "queued", "read", "removing"}, value : Contents \cup {None},
                      again : BOOLEAN]]
  /\ sub.on \in BOOLEAN /\ sub.boot \in BOOLEAN /\ (sub.boot => sub.on)
  /\ sub.last \in [Ids -> Contents \cup {"none", "seeded", "removed"}]
  /\ \A i \in DOMAIN sub.pending : sub.pending[i] \in Updates
  /\ listing.at \in {"none", "sent", "received", "captured", "answered"}
  /\ listing.cursor \in Cursors /\ listing.values \in Rows
  /\ online \in BOOLEAN /\ demand \subseteq {"full", "route"}
  /\ load \in {"none", "reading", "done"} /\ touched \in BOOLEAN
  /\ txn.at \in {"none", "cache", "projects", "listing"}
  /\ \A i \in DOMAIN txn.deltas : txn.deltas[i] \in Updates
  /\ refresh \in [on : BOOLEAN, moved : BOOLEAN, doomed : BOOLEAN, cached : BOOLEAN]
  /\ satisfied \in BOOLEAN /\ failed \in BOOLEAN
  /\ \A held \in {app, device, durable} : held.rows \in Rows /\ held.cursor \in Cursors
  /\ changes \in 0 .. MaxChanges /\ faults \in 0 .. MaxFaults

\* Something about the workspace is still on its way to the app.
Outstanding(id) ==
  \/ job[id].at # "idle"
  \/ \E i \in DOMAIN sub.pending : sub.pending[i].id = id
  \/ \E i \in DOMAIN wire : wire[i].kind = "update" /\ wire[i].id = id
  \/ Recorded(id)

\* Every workspace the collection has as it is, under a number the cursor
\* covers, is held as it is.
Honest(held, ids) ==
  (held.cursor # None /\ held.cursor.generation = generation) =>
    \A id \in ids :
      LET entry == collection.entry[id]
      IN  (/\ entry.value = truth[id]
           /\ IF entry.kind = "unknown" THEN collection.expired <= held.cursor.seq
              ELSE entry.seq <= held.cursor.seq)
             => held.rows[id] = truth[id]

(***************************************************************************)
(* A cursor hides nothing: neither the app's nor the one on the device     *)
(* covers the number of a change that the rows beside it do not have, so   *)
(* that asking with it after a lost connection or a restart brings back    *)
(* whatever was missed.  (An update that was sent is still to come.)       *)
(***************************************************************************)
CursorHidesNothing ==
  /\ Honest(app, {id \in Ids : ~ Outstanding(id)})
  /\ Honest(durable, Ids)

\* The app is connected, content and nothing is on its way.
Settled ==
  /\ online /\ demand # {} /\ satisfied
  /\ ~ refresh.on /\ txn.at = "none" /\ listing.at = "none" /\ wire = <<>>
  /\ \A id \in Ids : job[id].at = "idle"

(***************************************************************************)
(* An app that takes its directory for satisfied, with nothing on its way, *)
(* shows the workspaces the daemon has: no order of changes, listings,     *)
(* refreshes, lost connections and restarts leaves a row behind, missing   *)
(* or old (requestDemandRefresh, completeWorkspaceRefresh, the bootstrap   *)
(* of a subscription).                                                     *)
(***************************************************************************)
SettledHoldsAll == Settled => app.rows = truth

(***************************************************************************)
(* Demand is served: a connected app whose directory is needed refreshes   *)
(* it, has a subscription, or was told of a failure.                       *)
(***************************************************************************)
DemandIsServed ==
  (online /\ demand # {} /\ ~ refresh.on) => (failed \/ (satisfied /\ (sub.on \/ listing.at = "sent")))
==============================================================================
