--------------------------- MODULE CreationService ---------------------------
(***************************************************************************)
(* The creation journal (src/packages/server/src/server/creation).         *)
(*                                                                         *)
(* A client asks for a workspace, for an agent, or for a workspace with    *)
(* its first agent and prompt, under an idempotency key.  Admissions run   *)
(* one after the other: each reads the key's record, joins a creation that *)
(* runs, replays a settled one, or claims the ids and starts a runner.     *)
(* The runner provisions the workspace, creates the agent and prompts it,  *)
(* writing before each what is in flight and after each what was reached.  *)
(* Records and claims are files; the daemon may die at any point and any   *)
(* write may fail.  A receipt's read and the code that follows it are one  *)
(* step: operations on one receipt run one after the other, and the next   *)
(* one needs disk access before its result is seen.                        *)
(***************************************************************************)
EXTENDS Integers, FiniteSets

CONSTANTS
    Calls,          \* create requests, retries included
    Subscribers,    \* subscribe requests
    Identities,     \* digests of kind and idempotency key
    IdentityOf,     \* of each call and subscriber
    Workspaces, Agents,     \* ids
    Plan,           \* the request of each call
    Receipts,       \* what an older daemon may have left for the identities
    Existing,       \* ids that were registered before
    None,
    TornClaims,     \* whether a failed write leaves an empty claim file
    MaxCrashes,     \* bound: daemon crashes
    MaxFailures     \* bound: file operations that fail

\* The fingerprint of a request stands for all of it: what it asks for.  An
\* identity digests the kind with the key, a claim the kind with the id, and
\* only agents have receipts of an older daemon.
Request ==
    [kind : {"workspace", "agent"}, workspace : Workspaces \cup {None},
     agent : Agents \cup {None}, hasAgent : BOOLEAN, hasPrompt : BOOLEAN]

ASSUME CreationAssumption ==
    /\ IdentityOf \in [Calls \cup Subscribers -> Identities]
    /\ Plan \in [Calls -> Request]
    /\ \A c \in Calls : /\ Plan[c].kind = "agent" => Plan[c].hasAgent
                        /\ Plan[c].hasPrompt => Plan[c].hasAgent
    /\ \A c, d \in Calls : IdentityOf[c] = IdentityOf[d] => Plan[c].kind = Plan[d].kind
    /\ \A old \in Receipts, c \in Calls : old[IdentityOf[c]] # None => Plan[c].kind = "agent"
    /\ Receipts \subseteq [Identities -> {None} \cup
            [request : Request, agent : Agents, state : {"pending", "completed"}]]
    /\ Existing \subseteq Workspaces \cup Agents
    /\ Calls \cap Subscribers = {} /\ Workspaces \cap Agents = {}
    /\ TornClaims \in BOOLEAN
    /\ MaxCrashes \in Nat /\ MaxFailures \in Nat

VARIABLES
    record,         \* the receipt files
    legacy,         \* the receipt files of an older daemon, only read
    claim,          \* the claim files: the owner of each id, None or "torn"
    registered,     \* ids in the registries of workspaces and agents
    lane,           \* the last admission
    previous,       \* the admission each request waits for
    pc,             \* where each request is
    mem,            \* the record a request holds in memory
    active,         \* the call that runs the creation of an identity
    result,         \* what each call returned
    told,           \* the revision each observer saw last
    provisions, spawns, prompts,    \* how often each identity really did it
    crashes, failures

disk == <<record, legacy, claim, registered>>
effects == <<provisions, spawns, prompts>>
vars == <<record, legacy, claim, registered, lane, previous, pc, mem, active, result, told,
          provisions, spawns, prompts, crashes, failures>>

Actors == Calls \cup Subscribers
Ids == Workspaces \cup Agents

Admitting == {"queued", "recording", "claiming", "resetting", "interrupted"}
Running == {"running", "provisioning", "provisioned", "creating", "registered",
            "started", "returned", "refused", "failing"}
Answered == {"answered", "lost"}
Observing == {"waiting", "flagging", "watching"}

\* A record has an id for everything it is to make.
Record ==
    {r \in [request : Request, inFlight : {None, "workspace", "agent", "prompt"},
           phase : {"accepted", "workspace_ready", "agent_ready", "prompt_started",
                    "completed", "failed"},
           revision : Nat, error : {None, "thrown", "outcome_unknown"}, outcomeUnknown : BOOLEAN,
           workspaceId : Workspaces \cup {None}, agentId : Agents \cup {None},
           workspace : BOOLEAN, agent : BOOLEAN] :
        /\ r.request.kind = "workspace" => r.workspaceId # None
        /\ r.request.hasAgent => r.agentId # None}

ASSUME NoneAssumption ==
    /\ None \notin Calls \cup Identities \cup Workspaces \cup Agents \cup Record
    /\ None \notin {"workspace", "agent", "prompt", "thrown", "outcome_unknown", "torn",
                    "id_conflict"}
    /\ "torn" \notin Identities

\* What a call returns, the record without what is in flight, or the reason
\* it was rejected for.
Answers ==
    [snapshot : Record \cup {None}, error : {None, "key_conflict", "id_conflict", "gone", "error"}]

ASSUME AnswerAssumption == None \notin Answers

Snapshot(r) == [r EXCEPT !.inFlight = None]

Returned(r) == [snapshot |-> Snapshot(r), error |-> None]

Rejected(reason) == [snapshot |-> None, error |-> reason]

TypeOK ==
    /\ record \in [Identities -> Record \cup {None}]
    /\ legacy \in Receipts
    /\ claim \in [Ids -> Identities \cup {None, "torn"}]
    /\ registered \subseteq Ids
    /\ lane \in Calls \cup {None}
    /\ previous \in [Actors -> Calls \cup {None}]
    /\ pc \in [Actors -> {"idle", "joined"} \cup Admitting \cup Running \cup Answered \cup Observing]
    /\ mem \in [Actors -> Record \cup {None}]
    /\ active \in [Identities -> Calls \cup {None}]
    /\ result \in [Calls -> Answers \cup {None}]
    /\ told \in [Actors -> Nat \cup {-1}]
    /\ provisions \in [Identities -> Nat] /\ spawns \in [Identities -> Nat]
    /\ prompts \in [Identities -> Nat]
    /\ crashes \in 0 .. MaxCrashes /\ failures \in 0 .. MaxFailures

Init ==
    /\ record = [i \in Identities |-> None]
    /\ legacy \in Receipts
    /\ claim = [id \in Ids |-> None]
    /\ registered = Existing
    /\ lane = None
    /\ previous = [a \in Actors |-> None]
    /\ pc = [a \in Actors |-> "idle"]
    /\ mem = [a \in Actors |-> None]
    /\ active = [i \in Identities |-> None]
    /\ result = [c \in Calls |-> None]
    /\ told = [a \in Actors |-> -1]
    /\ provisions = [i \in Identities |-> 0]
    /\ spawns = [i \in Identities |-> 0]
    /\ prompts = [i \in Identities |-> 0]
    /\ crashes = 0
    /\ failures = 0

-----------------------------------------------------------------------------
\* Mutant: a call that joins a runner does not observe it.
ObserversNotJoined(i) ==
    {a \in Actors : IdentityOf[a] = i /\ pc[a] \notin {"idle", "joined"} \cup Answered}

\* The observers of an identity: its callers and its subscribers.
Observers(i) ==
    {a \in Actors : IdentityOf[a] = i /\ pc[a] \notin {"idle"} \cup Answered}

\* A file operation fails.
DiskFails ==
    /\ failures < MaxFailures
    /\ failures' = failures + 1
    /\ UNCHANGED disk

\* write: the record reaches the disk as a whole, or not at all.
Write(a, r, then, otherwise) ==
    /\ mem' = [mem EXCEPT ![a] = r]
    /\ \/ /\ record' = [record EXCEPT ![IdentityOf[a]] = r]
          /\ pc' = [pc EXCEPT ![a] = then]
          /\ UNCHANGED <<legacy, claim, registered, failures>>
       \/ DiskFails /\ pc' = [pc EXCEPT ![a] = otherwise]

\* publish: one revision up, written, then told to every observer.  The
\* record in memory keeps the update even when the write fails.
Publish(a, r, then, otherwise) ==
    LET next == [r EXCEPT !.revision = @ + 1]
    IN  /\ mem' = [mem EXCEPT ![a] = next]
        /\ \/ /\ record' = [record EXCEPT ![IdentityOf[a]] = next]
              /\ told' = [o \in Actors |->
                    IF o \in Observers(IdentityOf[a]) THEN next.revision ELSE told[o]]
              /\ pc' = [pc EXCEPT ![a] = then]
              /\ UNCHANGED <<legacy, claim, registered, failures>>
           \/ DiskFails /\ pc' = [pc EXCEPT ![a] = otherwise] /\ UNCHANGED told

\* An id nobody asks for, generated when the request leaves it open.
Generated(ids) ==
    {id \in ids :
        /\ id \notin registered
        /\ \A c \in Calls : id \notin {Plan[c].workspace, Plan[c].agent}
        /\ \A i \in Identities :
            /\ record[i] # None => id \notin {record[i].workspaceId, record[i].agentId}
            /\ legacy[i] # None => id # legacy[i].agent
        /\ \A a \in Actors : mem[a] # None => id \notin {mem[a].workspaceId, mem[a].agentId}}

\* initialRecord
InitialRecord(request, workspaceId, agentId) ==
    [request |-> request, inFlight |-> None, phase |-> "accepted", revision |-> 0,
     error |-> None, outcomeUnknown |-> FALSE, workspaceId |-> workspaceId,
     agentId |-> agentId, workspace |-> FALSE, agent |-> FALSE]

InitialRecords(request) ==
    {InitialRecord(request, w, a) :
        w \in IF request.workspace # None \/ request.kind = "agent"
                THEN {request.workspace} ELSE Generated(Workspaces),
        a \in IF ~request.hasAgent THEN {None}
                ELSE IF request.agent # None THEN {request.agent} ELSE Generated(Agents)}

\* A creation whose side effect was cut off: nobody knows how it ended.
UnknownOutcome(r) ==
    [r EXCEPT !.phase = "failed", !.error = "outcome_unknown", !.outcomeUnknown = TRUE]

\* validateCompleted: what was created is still there.
StillThere(r) ==
    /\ (r.workspace /\ r.request.kind = "workspace") => r.workspaceId \in registered
    /\ r.agentId # None => r.agentId \in registered

Answer(c, value) ==
    /\ pc' = [pc EXCEPT ![c] = "answered"]
    /\ result' = [result EXCEPT ![c] = value]
    /\ mem' = [mem EXCEPT ![c] = None]

-----------------------------------------------------------------------------
\* create: the observer is installed, the admission queued behind the last.
Create(c) ==
    /\ pc[c] = "idle"
    /\ previous' = [previous EXCEPT ![c] = lane]
    /\ lane' = c
    /\ pc' = [pc EXCEPT ![c] = "queued"]
    /\ UNCHANGED <<disk, mem, active, result, told, effects, crashes, failures>>

\* Mutant: admissions do not wait for each other.
AdmittedAlways(a) == TRUE

Admitted(a) == \A c \in {previous[a]} \ {None} : pc[c] \notin Admitting

\* The request is another one than the key was used for.
KeyConflict(c) ==
    /\ Answer(c, Rejected("key_conflict"))
    /\ UNCHANGED <<disk, told, failures>>

\* Someone runs the creation: its result is this call's result too.
Join(c) ==
    /\ pc' = [pc EXCEPT ![c] = "joined"]
    /\ told' = [told EXCEPT ![c] = record[IdentityOf[c]].revision]
    /\ UNCHANGED <<disk, mem, result, failures>>

\* The creation has settled.
Replay(c, r) ==
    /\ IF r.phase = "completed" /\ ~StillThere(r) THEN Answer(c, Rejected("gone")) /\ UNCHANGED told
        ELSE Answer(c, Returned(r)) /\ told' = [told EXCEPT ![c] = r.revision]
    /\ UNCHANGED <<disk, failures>>

IsSettled(r) == r.phase = "completed" \/ r.outcomeUnknown

\* The first request under this key.
Begin(c) ==
    /\ \E r \in InitialRecords(Plan[c]) : mem' = [mem EXCEPT ![c] = r]
    /\ pc' = [pc EXCEPT ![c] = "recording"]
    /\ UNCHANGED <<disk, result, told, failures>>

\* Mutant: an agent that is not there may be created again.
ImportedAfresh(c, receipt, exists) ==
    [InitialRecord(Plan[c], Plan[c].workspace, receipt.agent) EXCEPT
        !.phase = IF exists THEN "completed" ELSE "failed", !.agent = exists]

Imported(c, receipt, exists) ==
    [InitialRecord(Plan[c], Plan[c].workspace, receipt.agent) EXCEPT
        !.phase = IF exists THEN "completed" ELSE "failed", !.agent = exists,
        !.error = IF exists THEN None ELSE "outcome_unknown",
        !.outcomeUnknown = ~exists]

\* readLegacyAgent, and what admission does with the record it returns.
ImportLegacy(c) ==
    LET i == IdentityOf[c]
        receipt == legacy[i]
        exists == receipt.agent \in registered
        gone == ~exists /\ receipt.state = "completed"
        r == Imported(c, receipt, exists)
    IN  \/ receipt.request # Plan[c] /\ KeyConflict(c)
        \/ /\ receipt.request = Plan[c] /\ gone
           /\ Answer(c, Rejected("gone"))
           /\ UNCHANGED <<disk, told, failures>>
        \/ /\ receipt.request = Plan[c] /\ ~gone
           /\ \/ /\ record' = [record EXCEPT ![i] = r]
                 /\ IF IsSettled(r)
                    THEN Answer(c, Returned(r)) /\ told' = [told EXCEPT ![c] = 0]
                    ELSE /\ mem' = [mem EXCEPT ![c] = r]
                         /\ pc' = [pc EXCEPT ![c] = "claiming"]
                         /\ UNCHANGED <<result, told>>
                 /\ UNCHANGED <<legacy, claim, registered, failures>>
              \/ DiskFails /\ Answer(c, Rejected("error")) /\ UNCHANGED told

\* The admission's turn: read the record and decide.
Admit(c) ==
    /\ pc[c] = "queued"
    /\ Admitted(c)
    /\ LET i == IdentityOf[c]
           r == record[i]
       IN  \/ DiskFails /\ Answer(c, Rejected("error")) /\ UNCHANGED told
           \/ r # None /\ r.request # Plan[c] /\ KeyConflict(c)
           \/ r # None /\ r.request = Plan[c] /\ active[i] # None /\ Join(c)
           \/ r # None /\ r.request = Plan[c] /\ active[i] = None /\ IsSettled(r) /\ Replay(c, r)
           \/ /\ r # None /\ r.request = Plan[c] /\ active[i] = None /\ ~IsSettled(r)
              /\ mem' = [mem EXCEPT ![c] = r]
              /\ pc' = [pc EXCEPT ![c] = IF r.inFlight # None THEN "interrupted" ELSE "claiming"]
              /\ UNCHANGED <<disk, result, told, failures>>
           \/ r = None /\ (legacy[i] = None \/ Plan[c].kind # "agent") /\ Begin(c)
           \/ r = None /\ legacy[i] # None /\ Plan[c].kind = "agent" /\ ImportLegacy(c)
    /\ UNCHANGED <<lane, previous, active, effects, crashes>>

\* accessReceipt: writes to a receipt are made in the order they were asked
\* for, and so by those who read an earlier revision first.
FirstToRecord(a) ==
    \A b \in Actors :
        IdentityOf[b] = IdentityOf[a] /\ pc[b] \in {"flagging", "interrupted"} =>
            mem[a].revision <= mem[b].revision

\* The unknown outcome is recorded and returned.
Interrupted(c) ==
    /\ pc[c] = "interrupted" /\ FirstToRecord(c)
    /\ LET r == UnknownOutcome(mem[c])
           next == [r EXCEPT !.revision = @ + 1]
       IN  \/ /\ record' = [record EXCEPT ![IdentityOf[c]] = next]
              /\ told' = [o \in Actors |->
                    IF o \in Observers(IdentityOf[c]) THEN next.revision ELSE told[o]]
              /\ Answer(c, Returned(next))
              /\ UNCHANGED <<legacy, claim, registered, failures>>
           \/ DiskFails /\ Answer(c, Rejected("error")) /\ UNCHANGED told
    /\ UNCHANGED <<lane, previous, active, effects, crashes>>

\* The identity is durable before any id is claimed.
RecordIdentity(c) ==
    /\ pc[c] = "recording"
    /\ \/ /\ record' = [record EXCEPT ![IdentityOf[c]] = mem[c]]
          /\ pc' = [pc EXCEPT ![c] = "claiming"]
          /\ UNCHANGED <<legacy, claim, registered, failures, mem, result>>
       \/ DiskFails /\ Answer(c, Rejected("error"))
    /\ UNCHANGED <<lane, previous, active, told, effects, crashes>>

\* Mutant: a claim is a conflict even for its owner.
UnclaimedAgain(c) ==
    IF mem[c].request.kind = "workspace" THEN {mem[c].workspaceId} \ {None}
    ELSE {mem[c].agentId} \ {None}

\* The ids the admission has yet to claim, the workspace's before the agent's.
Unclaimed(c) ==
    LET r == mem[c]
        open(id) == id # None /\ claim[id] # IdentityOf[c]
    IN  IF r.request.kind = "workspace" /\ open(r.workspaceId) THEN {r.workspaceId}
        ELSE IF open(r.agentId) THEN {r.agentId}
        ELSE {}

\* Mutant: a claim another creation holds does not count.
TakenWhenRegistered(id) == id \in registered

Taken(id) == claim[id] # None \/ id \in registered

\* claim: an id belongs to the first creation that asks for it.
Claim(c) ==
    /\ pc[c] = "claiming"
    /\ \E id \in Unclaimed(c) :
        \/ Taken(id) /\ Answer(c, Rejected("id_conflict")) /\ UNCHANGED <<disk, failures>>
        \/ /\ ~Taken(id)
           /\ claim' = [claim EXCEPT ![id] = IdentityOf[c]]
           /\ UNCHANGED <<record, legacy, registered, failures, pc, mem, result>>
        \/ /\ ~Taken(id) /\ failures < MaxFailures
           /\ failures' = failures + 1
           /\ claim' = [claim EXCEPT ![id] = IF TornClaims THEN "torn" ELSE @]
           /\ Answer(c, Rejected("error"))
           /\ UNCHANGED <<record, legacy, registered>>
    /\ UNCHANGED <<lane, previous, active, told, effects, crashes>>

\* Mutant: a retry starts from the beginning.
RetriedFromStart(r) ==
    [r EXCEPT !.phase = "accepted", !.workspace = FALSE, !.agent = FALSE,
              !.error = None, !.outcomeUnknown = FALSE]

\* The record a retry starts from.
Retried(r) ==
    [r EXCEPT !.phase = IF r.workspace THEN "workspace_ready" ELSE "accepted",
              !.error = None, !.outcomeUnknown = FALSE]

\* Everything is claimed: a failed record is opened again, the runner starts.
Start(c) ==
    /\ pc[c] = "claiming"
    /\ Unclaimed(c) = {}
    /\ LET i == IdentityOf[c] IN
        \/ /\ mem[c].phase # "failed"
           /\ pc' = [pc EXCEPT ![c] = "running"]
           /\ active' = [active EXCEPT ![i] = c]
           /\ told' = [told EXCEPT ![c] = mem[c].revision]
           /\ UNCHANGED <<disk, failures, mem, result>>
        \/ /\ mem[c].phase = "failed"
           /\ Publish(c, Retried(mem[c]), "running", "resetting")
           /\ active' = IF pc'[c] = "running" THEN [active EXCEPT ![i] = c] ELSE active
           /\ UNCHANGED result
    /\ UNCHANGED <<lane, previous, effects, crashes>>

\* The record could not be opened again: the call is rejected.
RejectReset(c) ==
    /\ pc[c] = "resetting"
    /\ Answer(c, Rejected("error"))
    /\ UNCHANGED <<disk, lane, previous, active, told, effects, crashes, failures>>

-----------------------------------------------------------------------------
\* The runner.
NeedsWorkspace(r) == r.request.kind = "workspace" /\ ~r.workspace

NeedsAgent(r) == r.request.hasAgent /\ ~r.agent

MarkWorkspace(c) ==
    /\ pc[c] = "running" /\ NeedsWorkspace(mem[c])
    /\ Write(c, [mem[c] EXCEPT !.inFlight = "workspace"], "provisioning", "failing")
    /\ UNCHANGED <<lane, previous, active, result, told, effects, crashes>>

\* input.provision: refused before anything was done, cut short, or done.
Provision(c) ==
    /\ pc[c] = "provisioning"
    /\ \/ /\ pc' = [pc EXCEPT ![c] = "refused"]
          /\ UNCHANGED <<registered, provisions>>
       \/ /\ pc' = [pc EXCEPT ![c] = "failing"]
          /\ provisions' = [provisions EXCEPT ![IdentityOf[c]] = @ + 1]
          /\ UNCHANGED registered
       \/ /\ pc' = [pc EXCEPT ![c] = "provisioned"]
          /\ provisions' = [provisions EXCEPT ![IdentityOf[c]] = @ + 1]
          /\ registered' = registered \cup {mem[c].workspaceId}
    /\ UNCHANGED <<record, legacy, claim, lane, previous, mem, active, result, told, spawns, prompts,
                   crashes, failures>>

\* Where the awaited work throws.
Throw(c) ==
    /\ pc' = [pc EXCEPT ![c] = "failing"]
    /\ UNCHANGED <<disk, failures, mem, told>>

WorkspaceReady(c) ==
    /\ pc[c] = "provisioned"
    /\ \/ Throw(c)
       \/ Publish(c, [mem[c] EXCEPT !.inFlight = None, !.phase = "workspace_ready",
                                    !.workspace = TRUE], "running", "failing")
    /\ UNCHANGED <<lane, previous, active, result, effects, crashes>>

\* Mutant: what is in flight is only kept in memory.
MarkAgentInMemory(c) ==
    /\ pc[c] = "running" /\ ~NeedsWorkspace(mem[c]) /\ NeedsAgent(mem[c])
    /\ mem' = [mem EXCEPT ![c].inFlight = "agent"]
    /\ pc' = [pc EXCEPT ![c] = "creating"]
    /\ UNCHANGED <<disk, failures, lane, previous, active, result, told, effects, crashes>>

MarkAgent(c) ==
    /\ pc[c] = "running" /\ ~NeedsWorkspace(mem[c]) /\ NeedsAgent(mem[c])
    /\ Write(c, [mem[c] EXCEPT !.inFlight = "agent"], "creating", "failing")
    /\ UNCHANGED <<lane, previous, active, result, told, effects, crashes>>

\* input.createAgent up to onReady: an agent whose startup fails before it
\* is registered leaves nothing behind.
Spawn(c) ==
    /\ pc[c] = "creating"
    /\ \/ /\ pc' = [pc EXCEPT ![c] = "failing"]
          /\ UNCHANGED <<registered, spawns>>
       \/ /\ pc' = [pc EXCEPT ![c] = "registered"]
          /\ spawns' = [spawns EXCEPT ![IdentityOf[c]] = @ + 1]
          /\ registered' = registered \cup {mem[c].agentId}
    /\ UNCHANGED <<record, legacy, claim, lane, previous, mem, active, result, told, provisions,
                   prompts, crashes, failures>>

\* onReady: the agent is recorded, and that the prompt may be on its way.
AgentReady(c) ==
    /\ pc[c] = "registered"
    /\ \/ Throw(c)
       \/ Publish(c, [mem[c] EXCEPT
                !.inFlight = IF mem[c].request.hasPrompt THEN "prompt" ELSE None,
                !.phase = "agent_ready", !.agent = TRUE], "started", "failing")
    /\ UNCHANGED <<lane, previous, active, result, effects, crashes>>

\* input.createAgent after onReady: the prompt, sent or not, then the return.
Prompt(c) ==
    /\ pc[c] = "started"
    /\ \/ /\ mem[c].request.hasPrompt
          /\ prompts' = [prompts EXCEPT ![IdentityOf[c]] = @ + 1]
          /\ \E next \in {"returned", "failing"} : pc' = [pc EXCEPT ![c] = next]
       \/ /\ ~mem[c].request.hasPrompt
          /\ pc' = [pc EXCEPT ![c] = "returned"]
          /\ UNCHANGED prompts
       \/ /\ pc' = [pc EXCEPT ![c] = "failing"]
          /\ UNCHANGED prompts
    /\ UNCHANGED <<disk, lane, previous, mem, active, result, told, provisions, spawns,
                   crashes, failures>>

\* createAgent returned.
AgentCreated(c) ==
    /\ pc[c] = "returned"
    /\ LET r == [mem[c] EXCEPT !.inFlight = None] IN
        \/ /\ r.request.hasPrompt
           /\ Publish(c, [r EXCEPT !.phase = "prompt_started"], "running", "failing")
        \/ /\ ~r.request.hasPrompt
           /\ mem' = [mem EXCEPT ![c] = r]
           /\ pc' = [pc EXCEPT ![c] = "running"]
           /\ UNCHANGED <<disk, failures, told>>
    /\ UNCHANGED <<lane, previous, active, result, effects, crashes>>

\* Mutant: only the call that started the runner is answered.
SettleRunner(c, value) ==
    /\ Answer(c, value)
    /\ active' = [active EXCEPT ![IdentityOf[c]] = None]

\* The runner ends: it and every call that joined it have their answer.
Settle(c, value) ==
    LET i == IdentityOf[c]
        waiting == {c} \cup {d \in Calls : IdentityOf[d] = i /\ pc[d] = "joined"}
    IN  /\ pc' = [a \in Actors |-> IF a \in waiting THEN "answered" ELSE pc[a]]
        /\ result' = [d \in Calls |-> IF d \in waiting THEN value ELSE result[d]]
        /\ mem' = [mem EXCEPT ![c] = None]
        /\ active' = [active EXCEPT ![i] = None]

\* The last publish of a runner.
PublishLast(c, r) ==
    LET next == [r EXCEPT !.revision = @ + 1]
    IN  /\ record' = [record EXCEPT ![IdentityOf[c]] = next]
        /\ told' = [o \in Actors |->
                IF o \in Observers(IdentityOf[c]) THEN next.revision ELSE told[o]]
        /\ Settle(c, Returned(next))
        /\ UNCHANGED <<legacy, claim, registered, failures>>

Complete(c) ==
    /\ pc[c] = "running" /\ ~NeedsWorkspace(mem[c]) /\ ~NeedsAgent(mem[c])
    /\ LET r == [mem[c] EXCEPT !.inFlight = None, !.phase = "completed"] IN
        \/ PublishLast(c, r)
        \/ /\ DiskFails
           /\ mem' = [mem EXCEPT ![c] = [r EXCEPT !.revision = @ + 1]]
           /\ pc' = [pc EXCEPT ![c] = "failing"]
           /\ UNCHANGED <<active, result, told>>
    /\ UNCHANGED <<lane, previous, effects, crashes>>

\* Mutant: only what is registered counts as left behind.
OutcomeUnknownWhenRegistered(r, refused) ==
    LET id == IF r.inFlight = "workspace" THEN r.workspaceId ELSE r.agentId
    IN  id # None /\ id \in registered

\* Whether a failed creation may have left something behind.
OutcomeUnknown(r, refused) ==
    \/ r.inFlight = "prompt"
    \/ r.inFlight = "workspace" /\ (~refused \/ r.workspaceId \in registered)
    \/ r.inFlight # "workspace" /\ r.agentId # None /\ r.agentId \in registered

\* The catch of run.
FailRun(c) ==
    /\ pc[c] \in {"failing", "refused"}
    /\ LET r == mem[c]
           unknown == OutcomeUnknown(r, pc[c] = "refused")
       IN  \/ PublishLast(c, [r EXCEPT !.inFlight = IF unknown THEN @ ELSE None,
                    !.phase = "failed", !.error = "thrown", !.outcomeUnknown = unknown])
           \/ DiskFails /\ Settle(c, Rejected("error")) /\ UNCHANGED told
    /\ UNCHANGED <<lane, previous, effects, crashes>>

-----------------------------------------------------------------------------
\* subscribe: the observer is installed, then admissions are let through.
Subscribe(s) ==
    /\ pc[s] = "idle"
    /\ previous' = [previous EXCEPT ![s] = lane]
    /\ pc' = [pc EXCEPT ![s] = "waiting"]
    /\ UNCHANGED <<disk, lane, mem, active, result, told, effects, crashes, failures>>

Look(s) ==
    /\ pc[s] = "waiting"
    /\ Admitted(s)
    /\ LET i == IdentityOf[s]
           r == record[i]
           cutOff == r # None /\ r.inFlight # None /\ active[i] = None
           gone == r # None /\ r.phase = "completed" /\ ~StillThere(r)
       IN  \/ DiskFails /\ pc' = [pc EXCEPT ![s] = "answered"] /\ UNCHANGED <<mem, told>>
           \/ /\ cutOff
              /\ mem' = [mem EXCEPT ![s] = r]
              /\ pc' = [pc EXCEPT ![s] = "flagging"]
              /\ UNCHANGED <<disk, told, failures>>
           \/ /\ gone
              /\ pc' = [pc EXCEPT ![s] = "answered"]
              /\ UNCHANGED <<disk, mem, told, failures>>
           \/ /\ ~cutOff /\ ~gone
              /\ told' = [told EXCEPT ![s] = IF r = None THEN @ ELSE r.revision]
              /\ pc' = [pc EXCEPT ![s] = "watching"]
              /\ UNCHANGED <<disk, mem, failures>>
    /\ UNCHANGED <<lane, previous, active, result, effects, crashes>>

\* A cut off creation is recorded as such; that something was in flight stays.
Flag(s) ==
    /\ pc[s] = "flagging" /\ FirstToRecord(s)
    /\ Publish(s, UnknownOutcome(mem[s]), "watching", "answered")
    /\ UNCHANGED <<lane, previous, active, result, effects, crashes>>

Unsubscribe(s) ==
    /\ pc[s] = "watching"
    /\ pc' = [pc EXCEPT ![s] = "answered"]
    /\ UNCHANGED <<disk, lane, previous, mem, active, result, told, effects, crashes, failures>>

\* The user deletes what a completed creation made.
Delete(i) ==
    /\ record[i] # None /\ record[i].phase = "completed"
    /\ \E id \in {record[i].workspaceId, record[i].agentId} \cap registered :
            registered' = registered \ {id}
    /\ UNCHANGED <<record, legacy, claim, lane, previous, pc, mem, active, result, told, effects,
                   crashes, failures>>

\* The daemon dies and starts again: files and registries stay, no answer comes.
Crash ==
    /\ crashes < MaxCrashes
    /\ crashes' = crashes + 1
    /\ lane' = None
    /\ previous' = [a \in Actors |-> None]
    /\ pc' = [a \in Actors |-> IF pc[a] \in {"idle"} \cup Answered THEN pc[a] ELSE "lost"]
    /\ mem' = [a \in Actors |-> None]
    /\ active' = [i \in Identities |-> None]
    /\ UNCHANGED <<disk, result, told, effects, failures>>

Step(c) ==
    \/ Admit(c) \/ Interrupted(c) \/ RecordIdentity(c) \/ Claim(c) \/ Start(c) \/ RejectReset(c)
    \/ MarkWorkspace(c) \/ Provision(c) \/ WorkspaceReady(c)
    \/ MarkAgent(c) \/ Spawn(c) \/ AgentReady(c) \/ Prompt(c) \/ AgentCreated(c)
    \/ Complete(c) \/ FailRun(c)

Next ==
    \/ \E c \in Calls : Create(c) \/ Step(c)
    \/ \E s \in Subscribers : Subscribe(s) \/ Look(s) \/ Flag(s) \/ Unsubscribe(s)
    \/ \E i \in Identities : Delete(i)
    \/ Crash

Spec == Init /\ [][Next]_vars

-----------------------------------------------------------------------------
\* Records this journal created itself, not imported from an older daemon.
Own(i) == record[i] # None /\ legacy[i] = None

(***************************************************************************)
(* No workspace is provisioned twice, no agent created twice, no prompt    *)
(* sent twice for one idempotency key, whatever fails, dies or is retried. *)
(***************************************************************************)
AtMostOnce ==
    \A i \in Identities : provisions[i] <= 1 /\ spawns[i] <= 1 /\ prompts[i] <= 1

(***************************************************************************)
(* The journal tells the truth about the world: a record on disk with      *)
(* nothing in flight and a known outcome, the one a retry goes on from,    *)
(* has exactly the milestones that really happened, and a completed one    *)
(* all that were asked for.                                                *)
(***************************************************************************)
JournalTellsTruth ==
    \A i \in Identities : Own(i) =>
        LET r == record[i] IN
        /\ r.inFlight = None /\ ~r.outcomeUnknown =>
            /\ r.workspace <=> provisions[i] > 0
            /\ r.agent <=> spawns[i] > 0
            /\ r.agent /\ r.request.hasPrompt <=> prompts[i] > 0
        /\ r.phase = "completed" =>
            /\ r.request.kind = "workspace" => r.workspace
            /\ r.request.hasAgent => r.agent

(***************************************************************************)
(* No two runners work on one creation, and only the one the map of active *)
(* creations names.                                                        *)
(***************************************************************************)
OneRunner ==
    \A c \in Calls : pc[c] \in Running => active[IdentityOf[c]] = c

\* A completed creation other than i has the id: the user may have deleted what
\* was there under it, and the id is free again.
Freed(id, i) ==
    \E j \in Identities \ {i} :
        /\ record[j] # None /\ record[j].phase = "completed"
        /\ id \in {record[j].workspaceId, record[j].agentId}

\* Nothing is made under an id that another creation, or something that was
\* there before, has.
MadeUnderOwnIds ==
    \A i \in Identities : Own(i) =>
        LET r == record[i] IN
        /\ provisions[i] > 0 => r.workspaceId \notin Existing \/ Freed(r.workspaceId, i)
        /\ spawns[i] > 0 => r.agentId \notin Existing \/ Freed(r.agentId, i)
        /\ \A j \in Identities \ {i} : Own(j) =>
            /\ provisions[i] > 0 /\ provisions[j] > 0 => r.workspaceId # record[j].workspaceId
            /\ spawns[i] > 0 /\ spawns[j] > 0 => r.agentId # record[j].agentId

\* A call is refused for an id conflict only when one of its ids was there
\* before or is claimed for another creation.
ConflictsAreReal ==
    \A c \in Calls : result[c] = Rejected("id_conflict") =>
        LET r == record[IdentityOf[c]] IN
        \E id \in {r.workspaceId, r.agentId} \ {None} :
            id \in Existing \/ claim[id] \in Identities \ {IdentityOf[c]}

(***************************************************************************)
(* Two keys never make anything under the same id, nor under an id of      *)
(* something that was there before and was not deleted; and a call is      *)
(* refused for an id conflict only when there is one: a failed admission   *)
(* can retry its ids.                                                      *)
(***************************************************************************)
ResourceHasOneOwner == MadeUnderOwnIds /\ ConflictsAreReal

(***************************************************************************)
(* The receipt of an older daemon is imported, never a second execution    *)
(* path: what it was written for is not done again.                        *)
(***************************************************************************)
LegacyNeverRuns ==
    \A i \in Identities : legacy[i] # None => spawns[i] = 0 /\ prompts[i] = 0

(***************************************************************************)
(* Whoever watches a creation, or waits for its runner, has been told its  *)
(* latest revision: no publish slips between the answer and the observer.  *)
(***************************************************************************)
ObserverIsCurrent ==
    \A a \in Actors : pc[a] \in {"watching", "joined"} \cup Running =>
        LET r == record[IdentityOf[a]] IN
        IF r = None THEN told[a] = -1
        ELSE told[a] = r.revision \/ (told[a] = -1 /\ r.revision = 0)

(***************************************************************************)
(* A record only grows: its revision never falls, one revision names one   *)
(* snapshot, its request and ids are permanent, and no milestone is taken  *)
(* back; a completed creation stays completed.                             *)
(***************************************************************************)
RecordOnlyGrows ==
    [][\A i \in Identities : record[i] # None =>
        LET r == record[i]
            s == record'[i]
        IN  /\ s # None /\ s.revision >= r.revision
            /\ s.revision = r.revision => Snapshot(s) = Snapshot(r)
            /\ s.request = r.request /\ s.workspaceId = r.workspaceId /\ s.agentId = r.agentId
            /\ r.workspace => s.workspace
            /\ r.agent => s.agent
            /\ r.phase = "completed" => s = r]_vars

(***************************************************************************)
(* Every call is answered, by its own admission or by the runner it        *)
(* joined, or its daemon dies: one call that fails holds up no other.  A   *)
(* call is made once and an answer stays, so that it is enough that again  *)
(* and again no call is under way.                                         *)
(***************************************************************************)
EveryCallAnswered ==
    []<>(\A c \in Calls : pc[c] \in {"idle"} \cup Answered)

(***************************************************************************)
(* Two calls of one key that both learn of an unknown outcome learn the    *)
(* same one: repeating a settled creation returns what it returned before. *)
(***************************************************************************)
SameOutcome ==
    \A c, d \in Calls :
        /\ IdentityOf[c] = IdentityOf[d]
        /\ \A e \in {c, d} : result[e] # None /\ result[e].snapshot # None
                           /\ result[e].snapshot.outcomeUnknown
        => result[c] = result[d]
=============================================================================
