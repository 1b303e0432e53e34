---------------------------- MODULE CreationClient ----------------------------
(***************************************************************************)
(* One creation as a client sees it (src/packages/client/src/creation)     *)
(* above the daemon's journal.                                             *)
(*                                                                         *)
(* The client submits a request and waits for its answer.  When its        *)
(* connection is lost the answer will never come: after the next one it    *)
(* subscribes to its key instead, submits again only if the journal does   *)
(* not know the key, and from then on takes a terminal record for the      *)
(* answer.  The daemon works on without the client.  A request sent over   *)
(* a connection that was given up may still arrive, later than what is     *)
(* sent over the next one.  What the daemon sends is received in order or  *)
(* lost with its connection, and the client never waits to read it: it is  *)
(* received in the step that sends it.                                     *)
(***************************************************************************)
EXTENDS CreationService

CONSTANTS
    Key,            \* the identity of the creation
    Mine,           \* the requests the client may send for it
    Watches,        \* the subscriptions the client may make to it
    MaxDrops,       \* bound: connections lost
    MaxFaults       \* bound: crashes and failing file operations together

ASSUME ClientAssumption ==
    /\ Mine \subseteq Calls /\ Watches \subseteq Subscribers
    /\ IsFiniteSet(Mine) /\ IsFiniteSet(Watches) /\ None \notin Watches
    /\ \A a \in Mine \cup Watches : IdentityOf[a] = Key
    /\ \A c, d \in Mine : Plan[c] = Plan[d]
    /\ MaxDrops \in Nat /\ MaxFaults \in Nat
    /\ Cardinality(Mine) > MaxDrops /\ Cardinality(Watches) >= MaxDrops

VARIABLES
    operation,      \* "none" yet, "pending", or "settled"
    recovering,     \* whether the client has subscribed to the key since
    seen,           \* the revision of the last snapshot shown
    outcome,        \* what the caller was told
    connected,
    call,           \* the request whose answer the connection may bring
    watch,          \* the subscription made over the connection
    wire,           \* requests sent that have not arrived
    late,           \* those a connection had not delivered when it was lost
    drops

promise == <<operation, outcome>>
link == <<connected, drops>>
client == <<promise, recovering, seen, link, call, watch, wire, late>>
clientVars == <<vars, client>>

ClientTypeOK ==
    /\ operation \in {"none", "pending", "settled"}
    /\ outcome \in {None, "completed", "failed", "rejected"}
    /\ recovering \in BOOLEAN /\ connected \in BOOLEAN
    /\ seen \in Nat \cup {-1}
    /\ call \in Mine \cup {None} /\ watch \in Watches \cup {None}
    /\ wire \subseteq Mine /\ late \subseteq Mine
    /\ drops \in 0 .. MaxDrops

ClientInit ==
    /\ Init
    /\ operation = "none" /\ outcome = None /\ recovering = FALSE /\ seen = -1
    /\ connected = TRUE /\ call = None /\ watch = None /\ wire = {} /\ late = {}
    /\ drops = 0

\* Mutant: whatever was reached is the end.
IsTerminalWhenReached(r) == r.phase # "accepted"

IsTerminal(r) == r.phase \in {"completed", "failed"}

-----------------------------------------------------------------------------
\* A request that has not been sent, or was lost before the daemon saw it.
Unsent == CHOOSE c \in Mine : pc[c] = "idle" /\ c \notin wire

\* submit: the request leaves over this connection.
Submit ==
    /\ call' = Unsent
    /\ wire' = wire \cup {Unsent}

\* createAgent, createWorkspace: the host is known to have a journal only
\* while the client is connected to it.
StartOperation ==
    /\ operation = "none" /\ connected
    /\ operation' = "pending"
    /\ Submit
    /\ UNCHANGED <<vars, outcome, recovering, seen, link, watch, late>>

\* A request reaches the daemon, over this connection or a former one.
Arrive(c) ==
    /\ c \in wire
    /\ Create(c)
    /\ wire' = wire \ {c}
    /\ UNCHANGED <<promise, recovering, seen, link, call, watch, late>>

\* The connection is lost: its answers will never come, and the requests
\* that wait for them end quietly.
Drop ==
    /\ connected /\ drops < MaxDrops
    /\ connected' = FALSE /\ drops' = drops + 1
    /\ call' = None /\ watch' = None /\ late' = late \cup wire
    /\ UNCHANGED <<vars, promise, recovering, seen, wire>>

\* The daemon dies, and its connections and what was sent over them with it.
Die ==
    /\ connected => drops < MaxDrops
    /\ Crash /\ crashes' + failures <= MaxFaults
    /\ connected' = FALSE /\ drops' = IF connected THEN drops + 1 ELSE drops
    /\ call' = None /\ watch' = None /\ wire' = {}
    /\ UNCHANGED <<promise, recovering, seen, late>>

\* reconnect the first time, and the restored subscription every time after:
\* an unsettled creation is subscribed to, never submitted.
Reconnect ==
    /\ ~connected
    /\ connected' = TRUE
    /\ IF operation = "pending"
       THEN recovering' = TRUE /\ watch' = CHOOSE w \in Watches : pc[w] = "idle"
       ELSE UNCHANGED <<recovering, watch>>
    /\ UNCHANGED <<vars, promise, seen, drops, call, wire, late>>

\* The subscription reaches the daemon.
Watch ==
    /\ watch \in Watches
    /\ Subscribe(watch)
    /\ UNCHANGED client

-----------------------------------------------------------------------------
\* What a step of the daemon tells the client: the record, by a progress
\* message of its request, or a snapshot or update of its subscription, which
\* is routed once the snapshot is there.
Informed ==
    \/ call # None /\ told'[call] # told[call]
    \/ /\ watch # None /\ pc'[watch] = "watching"
       /\ told'[watch] # told[watch] \/ pc[watch] # "watching"

Known == record'[Key] # None

\* The answer of its request, or the error of its subscription.
Replied == call # None /\ result'[call] # None
Refused == watch # None /\ pc'[watch] = "answered"

Listening == operation = "pending" /\ connected

\* finish, fail: the caller is told, and what still runs is left alone.
Finish(value) ==
    /\ operation' = "settled" /\ outcome' = value
    /\ call' = None /\ watch' = None
    /\ UNCHANGED <<recovering, link, wire, late>>

\* receive: older snapshots are ignored, which no step of the daemon sends,
\* since records only grow.  While recovering a terminal one is the answer,
\* since no other will come.
Receive ==
    /\ Informed /\ Known
    /\ LET r == record'[Key] IN
        /\ seen <= r.revision
        /\ seen' = r.revision
        /\ IF recovering /\ IsTerminal(r) THEN Finish(r.phase)
           ELSE IF Replied
           THEN Finish(IF result'[call].snapshot = None THEN "rejected"
                       ELSE result'[call].snapshot.phase)
           ELSE UNCHANGED <<promise, recovering, link, call, watch, wire, late>>

\* An answer without news, and what fails the operation.
Conclude ==
    /\ ~(Informed /\ Known)
    /\ \/ /\ Replied
          /\ Finish(IF result'[call].snapshot = None THEN "rejected"
                    ELSE result'[call].snapshot.phase)
       \/ ~Replied /\ Refused /\ Finish("rejected")
    /\ UNCHANGED seen

\* Mutant: a key the journal does not know is left at that.
ResubmitNever ==
    /\ Informed /\ ~Known
    /\ UNCHANGED client

\* The journal does not know the key: the request is submitted again.
Resubmit ==
    /\ Informed /\ ~Known
    /\ Submit
    /\ UNCHANGED <<promise, recovering, seen, link, watch, late>>

Hear ==
    IF Listening /\ (Informed \/ Replied \/ Refused)
    THEN Receive \/ Conclude \/ Resubmit
    ELSE UNCHANGED client

\* Steps of the daemon for a request or a subscription of anyone.
WithinFaults == crashes + failures' <= MaxFaults

Serve(c) == Step(c) /\ WithinFaults /\ Hear

Attend(s) == (Look(s) \/ Flag(s)) /\ WithinFaults /\ Hear

\* What others do, and the daemon's end of a subscription that is over.
Elsewhere ==
    /\ \/ \E c \in Calls \ Mine : Create(c)
       \/ \E s \in Subscribers \ Watches : Subscribe(s)
       \/ \E s \in Subscribers \ {watch} : Unsubscribe(s)
       \/ \E i \in Identities : Delete(i)
    /\ UNCHANGED client

ClientNext ==
    \/ StartOperation \/ Drop \/ Die \/ Reconnect \/ Watch \/ Elsewhere
    \/ \E c \in Mine : Arrive(c)
    \/ \E c \in Calls : Serve(c)
    \/ \E s \in Subscribers : Attend(s)

ClientSpec == ClientInit /\ [][ClientNext]_clientVars

\* The client reconnects for as long as it lives, what is sent over a
\* connection arrives unless it is lost, and the daemon's promises run on.
ClientFairSpec ==
    /\ ClientSpec
    /\ WF_clientVars(Reconnect) /\ WF_clientVars(Watch)
    /\ WF_clientVars(call # None /\ Arrive(call))
    /\ \A c \in Calls : WF_clientVars(Serve(c))
    /\ \A s \in Subscribers : WF_clientVars(Attend(s))

-----------------------------------------------------------------------------
\* Nobody works on the creation and its record is not at an end.
Unattended ==
    /\ record[Key] # None /\ ~IsTerminal(record[Key])
    /\ active[Key] = None
    /\ \A c \in Calls : IdentityOf[c] = Key => pc[c] \notin Admitting

\* Where a client that lost its answer is stranded: it has subscribed to a
\* creation that was given up between two stages, or whose admission failed,
\* or that ended while its record could not be written.  It does not submit
\* again, because the journal knows the key.
Stranded ==
    /\ operation = "pending" /\ recovering
    /\ Unattended
    /\ \/ record[Key].inFlight = None
       \/ \E c \in Calls : IdentityOf[c] = Key /\ result[c] = Rejected("error")

(***************************************************************************)
(* A creation that was submitted is settled for its caller, whatever is    *)
(* lost on the way, unless the client is stranded for good.                *)
(***************************************************************************)
OperationSettles ==
    []<>(operation # "pending" \/ Stranded)

(***************************************************************************)
(* The snapshot of a new subscription is authoritative: when it settles    *)
(* the operation, no request the client sent before is still to be         *)
(* admitted or run, and would make what the caller was told had failed.    *)
(* Only what a lost connection delivers late, or was submitted again over  *)
(* this one, may still do so.                                              *)
(***************************************************************************)
SubscriptionIsAuthoritative ==
    [][operation = "pending" /\ operation' = "settled" /\ outcome' # "rejected" /\ call = None =>
        \A c \in Mine \ late : pc'[c] \in {"idle"} \cup Answered]_clientVars
=============================================================================
