--------------------------- MODULE CreationProofs ----------------------------
(***************************************************************************)
(* Proofs about CreationService, for any number of calls, keys, crashes    *)
(* and failing writes.  The argument has layers: Seats says which request  *)
(* may be where, Turns that admissions have the journal one after the      *)
(* other, Ownership that a creation has one runner, Legacies that nobody   *)
(* works on the receipts of older daemons, and Journal what the record on  *)
(* disk and the copy a runner holds say about the world.                   *)
(***************************************************************************)
EXTENDS CreationClient, FiniteSetTheorems, TLAPS

\* Past the queue: the admission whose turn it is.
Entered == Admitting \ {"queued"}

IsAdmitting(c) == pc[c] \in Admitting

\* A runner only works on what the request asks for.
Suits(p, r) ==
    /\ p \in {"provisioning", "provisioned"} => r.request.kind = "workspace"
    /\ p \in {"creating", "registered"} => r.request.hasAgent

\* Calls and subscribers keep to their own steps, and whoever works on a
\* record holds one.
CallPlaces == {"idle", "joined"} \cup Admitting \cup Running \cup Answered

SubscriberPlaces == {"idle"} \cup Answered \cup Observing

Holding == Entered \cup Running \cup {"flagging"}

Seats ==
    /\ \A c \in Calls : pc[c] \in CallPlaces
    /\ \A s \in Subscribers : pc[s] \in SubscriberPlaces
    /\ \A a \in Actors : pc[a] \in Holding => mem[a] # None
    /\ \A c \in Calls : Suits(pc[c], mem[c])

\* The admissions under way have the numbers lo .. hi: the first one may enter,
\* every other waits for the one before it, the last one is the lane.
InOrder(rank, lo, hi) ==
    /\ \A c \in Calls : IsAdmitting(c) =>
        /\ rank[c] \in lo .. hi
        /\ rank[c] = lo <=> Admitted(c)
        /\ rank[c] # lo => /\ previous[c] # None /\ IsAdmitting(previous[c])
                           /\ rank[previous[c]] = rank[c] - 1
        /\ lane # None /\ IsAdmitting(lane) /\ rank[lane] = hi
    /\ \A c, d \in Calls : IsAdmitting(c) /\ IsAdmitting(d) /\ rank[c] = rank[d] => c = d

Turns ==
    /\ \E rank \in [Calls -> Nat], lo \in Nat, hi \in Nat : InOrder(rank, lo, hi)
    /\ lane # None => pc[lane] # "idle"
    /\ \A a \in Actors : previous[a] # None => pc[previous[a]] # "idle"
    /\ \A c \in Calls : pc[c] \in Entered => Admitted(c)

\* One admission at a time is past the queue.
OneAdmission ==
    \A c, d \in Calls : pc[c] \in Entered /\ pc[d] \in Entered => c = d

Ownership ==
    /\ OneRunner
    /\ \A i \in Identities : active[i] # None =>
        IdentityOf[active[i]] = i /\ pc[active[i]] \in Running /\ record[i] # None
    /\ \A c \in Calls : pc[c] \in Entered =>
        /\ active[IdentityOf[c]] = None
        /\ record[IdentityOf[c]] = None <=> pc[c] = "recording"
    /\ \A s \in Subscribers : pc[s] = "flagging" => record[IdentityOf[s]] # None

\* A creation an older daemon has a receipt for is settled when it is recorded,
\* and nobody works on it.
LegacySound(i) ==
    /\ provisions[i] = 0 /\ spawns[i] = 0 /\ prompts[i] = 0
    /\ active[i] = None
    /\ record[i] # None =>
        record[i].inFlight = None /\ IsSettled(record[i]) /\ record[i].agentId = legacy[i].agent

Legacies ==
    /\ \A i \in Identities : legacy[i] # None => LegacySound(i)
    /\ \A a \in Actors : pc[a] \in Holding => legacy[IdentityOf[a]] = None

\* How often each effect happened, by whether it did.
Done(b) == IF b THEN 1 ELSE 0

Did(i, workspace, agent, prompt) ==
    /\ provisions[i] = Done(workspace)
    /\ spawns[i] = Done(agent)
    /\ prompts[i] = Done(prompt)

\* A record has exactly the milestones that happened.
Exact(i, r) == Did(i, r.workspace, r.agent, r.agent /\ r.request.hasPrompt)

SameIds(r, s) ==
    r.request = s.request /\ r.workspaceId = s.workspaceId /\ r.agentId = s.agentId

\* The ids of a creation are claimed for it.
ClaimsHeld(i) ==
    LET r == record[i] IN
    /\ r.request.kind = "workspace" => claim[r.workspaceId] = i
    /\ r.agentId # None => claim[r.agentId] = i

\* The agent of a record is none that an older daemon has a receipt for.
OffReceipts(r) ==
    \A j \in Identities : legacy[j] # None => r.agentId # legacy[j].agent

\* What the record of a creation of this journal says.
RecordSound(i) ==
    LET r == record[i] IN
    /\ OffReceipts(r)
    /\ r.inFlight = None /\ ~r.outcomeUnknown => Exact(i, r)
    /\ r.phase = "completed" =>
        /\ r.inFlight = None /\ ~r.outcomeUnknown
        /\ ~NeedsWorkspace(r) /\ ~NeedsAgent(r)
    /\ active[i] # None \/ r.phase = "completed" => ClaimsHeld(i)

IdentitySound(i) ==
    /\ {provisions[i], spawns[i], prompts[i]} \subseteq {0, 1}
    /\ record[i] = None => Did(i, FALSE, FALSE, FALSE)
    /\ Own(i) => RecordSound(i)

\* What an admission holds.
AdmissionSound(c) ==
    LET r == record[IdentityOf[c]]
        m == mem[c]
    IN
    /\ pc[c] = "recording" =>
        /\ OffReceipts(m) /\ m.phase = "accepted" /\ m.inFlight = None
        /\ ~m.outcomeUnknown /\ ~m.workspace /\ ~m.agent
    /\ pc[c] = "claiming" => m = r /\ r.inFlight = None /\ ~IsSettled(r)

\* What a runner holds, and what was done, at each of its steps.
RunnerSound(c) ==
    LET i == IdentityOf[c]
        m == mem[c]
        r == record[i]
        prompting == IF m.request.hasPrompt THEN "prompt" ELSE None
    IN
    /\ SameIds(m, r)
    /\ r.phase # "completed" /\ ~r.outcomeUnknown
    /\ pc[c] # "failing" => m = r
    /\ pc[c] = "running" => m.inFlight = None
    /\ pc[c] \in {"provisioning", "refused", "provisioned"} =>
        m.inFlight = "workspace" /\ ~m.workspace
    /\ pc[c] \in {"provisioning", "refused"} => Exact(i, m)
    /\ pc[c] = "provisioned" => Did(i, TRUE, m.agent, m.agent /\ m.request.hasPrompt)
    /\ pc[c] \in {"creating", "registered"} => m.inFlight = "agent" /\ ~m.agent
    /\ pc[c] = "creating" => Exact(i, m)
    /\ pc[c] = "registered" => Did(i, m.workspace, TRUE, FALSE) /\ m.agentId \in registered
    /\ pc[c] \in {"started", "returned"} => m.inFlight = prompting /\ m.agent
    /\ pc[c] = "started" => Did(i, m.workspace, TRUE, FALSE)
    /\ pc[c] = "returned" => Exact(i, m)
    /\ pc[c] = "failing" => OutcomeUnknown(m, FALSE) \/ Exact(i, m)

CallSound(c) ==
    /\ pc[c] \in Entered => AdmissionSound(c)
    /\ pc[c] \in Running => RunnerSound(c)

\* Who records that a creation was cut off has seen it in flight, and it is.
CutOffSound(a) ==
    LET r == record[IdentityOf[a]] IN
    /\ r # None /\ r.inFlight # None /\ r.phase # "completed"
    /\ mem[a].inFlight # None
    /\ active[IdentityOf[a]] = None
    /\ SameIds(mem[a], r)

Journal ==
    /\ \A i \in Identities : IdentitySound(i)
    /\ \A c \in Calls : CallSound(c)
    /\ \A a \in Actors : pc[a] \in {"flagging", "interrupted"} => CutOffSound(a)

\* No one asks for an agent that a receipt of an older daemon names.
ReceiptsApart ==
    \A old \in Receipts, i \in Identities, c \in Calls :
        old[i] # None => Plan[c].agent # old[i].agent

-----------------------------------------------------------------------------

\* What every state has, and what a step on the disk keeps of it.
Typed == TypeOK /\ Seats

LEMMA ActorsDiffer ==
    /\ Calls \subseteq Actors /\ Subscribers \subseteq Actors
    /\ \A a \in Actors : IdentityOf[a] \in Identities
    /\ \A c \in Calls, s \in Subscribers : c # s
  BY CreationAssumption DEF Actors

LEMMA NoneApart ==
    None \notin Calls /\ None \notin Identities /\ None \notin Record
  BY NoneAssumption

LEMMA InitTyped == Init => Typed
  BY CreationAssumption, ActorsDiffer
  DEF Init, Typed, TypeOK, Seats, Suits, Actors, Ids, CallPlaces, SubscriberPlaces, Holding,
      Admitting, Entered, Running, Observing, Answered

\* A write keeps the types, and leaves a record in the writer's hands.
LEMMA WriteTyped ==
    ASSUME Typed, NEW a \in Actors, NEW r \in Record, NEW then, NEW otherwise,
           Write(a, r, then, otherwise)
    PROVE  /\ record' \in [Identities -> Record \cup {None}]
           /\ mem' = [mem EXCEPT ![a] = r] /\ mem' \in [Actors -> Record \cup {None}]
           /\ UNCHANGED <<legacy, claim, registered>>
           /\ failures' \in 0 .. MaxFailures
           /\ \E p \in {then, otherwise} : pc' = [pc EXCEPT ![a] = p]
  BY CreationAssumption, ActorsDiffer DEF Typed, TypeOK, Write, DiskFails, disk

LEMMA PublishTyped ==
    ASSUME Typed, NEW a \in Actors, NEW r \in Record, NEW then, NEW otherwise,
           Publish(a, r, then, otherwise)
    PROVE  /\ record' \in [Identities -> Record \cup {None}]
           /\ mem' = [mem EXCEPT ![a] = [r EXCEPT !.revision = @ + 1]]
           /\ [r EXCEPT !.revision = @ + 1] \in Record
           /\ mem' \in [Actors -> Record \cup {None}]
           /\ UNCHANGED <<legacy, claim, registered>>
           /\ failures' \in 0 .. MaxFailures
           /\ told' \in [Actors -> Nat \cup {-1}]
           /\ \E p \in {then, otherwise} : pc' = [pc EXCEPT ![a] = p]
<1> DEFINE next == [r EXCEPT !.revision = @ + 1]
<1>1. next \in Record /\ next.revision \in Nat
  BY DEF Record
<1> HIDE DEF next
<1>2. Publish(a, r, then, otherwise) <=>
        /\ mem' = [mem EXCEPT ![a] = next]
        /\ \/ /\ record' = [record EXCEPT ![IdentityOf[a]] = next]
              /\ told' = [o \in Actors |->
                    IF o \in Observers(IdentityOf[a]) THEN next.revision ELSE told[o]]
              /\ pc' = [pc EXCEPT ![a] = then]
              /\ UNCHANGED <<legacy, claim, registered, failures>>
           \/ DiskFails /\ pc' = [pc EXCEPT ![a] = otherwise] /\ UNCHANGED told
  BY DEF Publish, next
<1>3. QED
  <2>1. mem' = [mem EXCEPT ![a] = next] /\ mem' \in [Actors -> Record \cup {None}]
    BY <1>1, <1>2, CreationAssumption, ActorsDiffer DEF Typed, TypeOK
  <2>2. QED
    BY <1>1, <1>2, <2>1, CreationAssumption, ActorsDiffer DEF Typed, TypeOK, DiskFails, disk, next

LEMMA CallMoves ==
    ASSUME Typed, NEW c \in Calls, NEW p \in CallPlaces, pc' = [pc EXCEPT ![c] = p],
           mem' \in [Actors -> Record \cup {None}],
           \A a \in Actors : a # c => mem'[a] = mem[a],
           p \in Holding => mem'[c] # None, Suits(p, mem'[c])
    PROVE  Seats' /\ pc' \in [Actors -> CallPlaces \cup SubscriberPlaces]
  BY ActorsDiffer DEF Typed, TypeOK, Seats, Actors

LEMMA SubscriberMoves ==
    ASSUME Typed, NEW s \in Subscribers, NEW p \in SubscriberPlaces, pc' = [pc EXCEPT ![s] = p],
           mem' \in [Actors -> Record \cup {None}],
           \A a \in Actors : a # s => mem'[a] = mem[a],
           p \in Holding => mem'[s] # None
    PROVE  Seats' /\ pc' \in [Actors -> CallPlaces \cup SubscriberPlaces]
  BY ActorsDiffer DEF Typed, TypeOK, Seats, Actors

LEMMA PlacesType ==
    CallPlaces \cup SubscriberPlaces =
        {"idle", "joined"} \cup Admitting \cup Running \cup Answered \cup Observing
  BY DEF CallPlaces, SubscriberPlaces

\* What an answer keeps of the types.
LEMMA AnswerTyped ==
    ASSUME Typed, NEW c \in Calls, NEW value \in Answers, Answer(c, value)
    PROVE  /\ pc' = [pc EXCEPT ![c] = "answered"]
           /\ mem' \in [Actors -> Record \cup {None}]
           /\ \A a \in Actors : a # c => mem'[a] = mem[a]
           /\ result' \in [Calls -> Answers \cup {None}]
  BY ActorsDiffer DEF Typed, TypeOK, Answer

LEMMA ReturnedTyped ==
    /\ \A r \in Record : Returned(r) \in Answers
    /\ \A e \in {"key_conflict", "id_conflict", "gone", "error"} : Rejected(e) \in Answers
  BY DEF Answers, Returned, Rejected, Snapshot, Record

LEMMA Bounds == MaxCrashes \in Nat /\ MaxFailures \in Nat
  BY CreationAssumption

LEMMA DiskFailsTyped ==
    ASSUME Typed, DiskFails
    PROVE  failures' \in 0 .. MaxFailures /\ UNCHANGED <<record, legacy, claim, registered>>
  BY Bounds DEF Typed, TypeOK, DiskFails, disk

\* A call that is answered.
LEMMA AnswerMoves ==
    ASSUME Typed, NEW c \in Calls, NEW value \in Answers, Answer(c, value)
    PROVE  /\ Seats' /\ pc' \in [Actors -> CallPlaces \cup SubscriberPlaces]
           /\ mem' \in [Actors -> Record \cup {None}]
           /\ result' \in [Calls -> Answers \cup {None}]
<1>1. "answered" \in CallPlaces /\ "answered" \notin Holding /\ \A r : Suits("answered", r)
  BY DEF CallPlaces, Answered, Holding, Admitting, Entered, Running, Suits
<1>2. QED
  BY <1>1, AnswerTyped, CallMoves

\* A write and a publish of a call.
LEMMA WriteMoves ==
    ASSUME Typed, NEW c \in Calls, NEW r \in Record, NEW then \in CallPlaces,
           NEW otherwise \in CallPlaces, Write(c, r, then, otherwise),
           Suits(then, r), Suits(otherwise, r)
    PROVE  Seats' /\ pc' \in [Actors -> CallPlaces \cup SubscriberPlaces]
<1>1. PICK p \in {then, otherwise} : pc' = [pc EXCEPT ![c] = p]
  BY WriteTyped, ActorsDiffer
<1>2. mem' = [mem EXCEPT ![c] = r] /\ mem' \in [Actors -> Record \cup {None}]
  BY WriteTyped, ActorsDiffer
<1>3. r # None
  BY NoneAssumption
<1>4. QED
  BY <1>1, <1>2, <1>3, CallMoves, ActorsDiffer DEF Typed, TypeOK

LEMMA PublishMoves ==
    ASSUME Typed, NEW c \in Calls, NEW r \in Record, NEW then \in CallPlaces,
           NEW otherwise \in CallPlaces, Publish(c, r, then, otherwise),
           Suits(then, r), Suits(otherwise, r)
    PROVE  Seats' /\ pc' \in [Actors -> CallPlaces \cup SubscriberPlaces]
<1>1. PICK p \in {then, otherwise} : pc' = [pc EXCEPT ![c] = p]
  BY DEF Publish
<1> DEFINE next == [r EXCEPT !.revision = @ + 1]
<1>2. mem' = [mem EXCEPT ![c] = next] /\ mem' \in [Actors -> Record \cup {None}] /\ next \in Record
  BY PublishTyped, ActorsDiffer
<1> HIDE DEF next
<1>3. next # None
  BY <1>2, NoneAssumption
<1>4. Suits(p, next)
  BY <1>1 DEF Suits, next, Record
<1>5. QED
  BY <1>1, <1>2, <1>3, <1>4, CallMoves, ActorsDiffer DEF Typed, TypeOK

\* A runner that ends.
LEMMA SettleMoves ==
    ASSUME Typed, NEW c \in Calls, NEW value \in Answers, Settle(c, value)
    PROVE  /\ Seats' /\ pc' \in [Actors -> CallPlaces \cup SubscriberPlaces]
           /\ mem' \in [Actors -> Record \cup {None}]
           /\ result' \in [Calls -> Answers \cup {None}]
           /\ active' \in [Identities -> Calls \cup {None}]
<1>1. "answered" \in CallPlaces /\ "answered" \notin Holding /\ \A r : Suits("answered", r)
  BY DEF CallPlaces, Answered, Holding, Admitting, Entered, Running, Suits
<1>2. /\ mem' = [mem EXCEPT ![c] = None] /\ mem' \in [Actors -> Record \cup {None}]
      /\ active' \in [Identities -> Calls \cup {None}]
      /\ result' \in [Calls -> Answers \cup {None}]
  BY ActorsDiffer DEF Settle, Typed, TypeOK
<1>3. \A a \in Actors : pc'[a] = pc[a] \/ (a \in Calls /\ pc'[a] = "answered")
  BY ActorsDiffer DEF Settle
<1>4. pc' \in [Actors -> CallPlaces \cup SubscriberPlaces]
  BY <1>1, <1>3, PlacesType, ActorsDiffer DEF Settle, Typed, TypeOK
<1>5. pc'[c] = "answered"
  BY ActorsDiffer DEF Settle
<1>6. \A a \in Actors : pc'[a] \in Holding => mem'[a] # None
  BY <1>1, <1>2, <1>3, <1>5, ActorsDiffer DEF Typed, TypeOK, Seats
<1>7. \A d \in Calls : Suits(pc'[d], mem'[d])
  <2>1. \A d \in Calls : d # c => mem'[d] = mem[d]
    BY ActorsDiffer DEF Settle, Typed, TypeOK
  <2>2. QED
    BY <1>1, <1>3, <1>5, <2>1, ActorsDiffer DEF Typed, Seats
<1>8. QED
  BY <1>1, <1>2, <1>3, <1>4, <1>6, <1>7, ActorsDiffer DEF Typed, Seats

LEMMA PublishLastTyped ==
    ASSUME Typed, NEW c \in Calls, NEW r \in Record, PublishLast(c, r)
    PROVE  /\ \E next \in Record : next = [r EXCEPT !.revision = @ + 1] /\ Settle(c, Returned(next))
           /\ record' \in [Identities -> Record \cup {None}]
           /\ told' \in [Actors -> Nat \cup {-1}]
           /\ UNCHANGED <<legacy, claim, registered, failures>>
<1> DEFINE next == [r EXCEPT !.revision = @ + 1]
<1>1. next \in Record /\ next.revision \in Nat
  BY DEF Record
<1>2. /\ record' = [record EXCEPT ![IdentityOf[c]] = next]
      /\ told' = [o \in Actors |->
                IF o \in Observers(IdentityOf[c]) THEN next.revision ELSE told[o]]
      /\ Settle(c, Returned(next))
      /\ UNCHANGED <<legacy, claim, registered, failures>>
  BY DEF PublishLast
<1> HIDE DEF next
<1>3. record' \in [Identities -> Record \cup {None}]
  BY <1>1, <1>2, ActorsDiffer DEF Typed, TypeOK
<1>4. told' \in [Actors -> Nat \cup {-1}]
  BY <1>1, <1>2, ActorsDiffer DEF Typed, TypeOK
<1>5. QED
  BY <1>1, <1>2, <1>3, <1>4 DEF next

\* What the steps make of a record is a record.
LEMMA UpdatesTyped ==
    ASSUME NEW r \in Record
    PROVE  /\ \A f \in {None, "workspace", "agent", "prompt"} : [r EXCEPT !.inFlight = f] \in Record
           /\ UnknownOutcome(r) \in Record /\ Retried(r) \in Record
           /\ [r EXCEPT !.revision = @ + 1] \in Record
           /\ [r EXCEPT !.inFlight = None, !.phase = "workspace_ready", !.workspace = TRUE] \in Record
           /\ \A f \in {None, "prompt"} :
                [r EXCEPT !.inFlight = f, !.phase = "agent_ready", !.agent = TRUE] \in Record
           /\ [r EXCEPT !.phase = "prompt_started"] \in Record
           /\ [r EXCEPT !.inFlight = None, !.phase = "completed"] \in Record
           /\ \A f \in {None, "workspace", "agent", "prompt"}, unknown \in BOOLEAN :
                [r EXCEPT !.inFlight = f, !.phase = "failed", !.error = "thrown",
                          !.outcomeUnknown = unknown] \in Record
<1>1. \A f \in {None, "workspace", "agent", "prompt"} : [r EXCEPT !.inFlight = f] \in Record
  BY DEF Record
<1>2. UnknownOutcome(r) \in Record /\ [r EXCEPT !.revision = @ + 1] \in Record
  <2>1. UnknownOutcome(r) \in Record
    BY DEF Record, UnknownOutcome
  <2>2. [r EXCEPT !.revision = @ + 1] \in Record
    BY DEF Record
  <2>3. QED
    BY <2>1, <2>2
<1>3. Retried(r) \in Record
  <2>1. \A p \in {"workspace_ready", "accepted"} :
            [r EXCEPT !.phase = p, !.error = None, !.outcomeUnknown = FALSE] \in Record
    BY DEF Record
  <2>2. QED
    BY <2>1 DEF Retried
<1>4. /\ [r EXCEPT !.phase = "prompt_started"] \in Record
      /\ [r EXCEPT !.inFlight = None, !.phase = "completed"] \in Record
      /\ [r EXCEPT !.inFlight = None, !.phase = "workspace_ready", !.workspace = TRUE] \in Record
  BY DEF Record
<1>5. ASSUME NEW f \in {None, "prompt"}
      PROVE  [r EXCEPT !.inFlight = f, !.phase = "agent_ready", !.agent = TRUE] \in Record
  BY DEF Record
<1>6. ASSUME NEW f \in {None, "workspace", "agent", "prompt"}, NEW unknown \in BOOLEAN
      PROVE  [r EXCEPT !.inFlight = f, !.phase = "failed", !.error = "thrown",
                       !.outcomeUnknown = unknown] \in Record
  BY DEF Record
<1>7. QED
  BY <1>1, <1>2, <1>3, <1>4, <1>5, <1>6

LEMMA InitialTyped ==
    ASSUME NEW c \in Calls
    PROVE  /\ InitialRecords(Plan[c]) \subseteq Record
           /\ \A old \in Receipts, exists \in BOOLEAN : old[IdentityOf[c]] # None =>
                Imported(c, old[IdentityOf[c]], exists) \in Record
<1>1. Plan[c] \in Request /\ (Plan[c].kind = "agent" => Plan[c].hasAgent)
  BY CreationAssumption
<1>2. ASSUME NEW w \in Workspaces \cup {None}, NEW a \in Agents \cup {None},
             Plan[c].kind = "workspace" => w # None, Plan[c].hasAgent => a # None
      PROVE  InitialRecord(Plan[c], w, a) \in Record
  BY <1>1, <1>2 DEF InitialRecord, Record
<1>3. /\ Plan[c].workspace \in Workspaces \cup {None} /\ Plan[c].agent \in Agents \cup {None}
      /\ Plan[c].kind \in {"workspace", "agent"}
  BY <1>1 DEF Request
<1>4. InitialRecords(Plan[c]) \subseteq Record
  <2>1. Generated(Workspaces) \subseteq Workspaces /\ Generated(Agents) \subseteq Agents
    BY DEF Generated
  <2>2. QED
    BY <1>2, <1>3, <2>1, NoneAssumption DEF InitialRecords
<1>5. ASSUME NEW old \in Receipts, NEW exists \in BOOLEAN, old[IdentityOf[c]] # None
      PROVE  Imported(c, old[IdentityOf[c]], exists) \in Record
  <2>1. old[IdentityOf[c]].agent \in Agents /\ Plan[c].kind = "agent"
    BY <1>5, CreationAssumption, ActorsDiffer
  <2>2. InitialRecord(Plan[c], Plan[c].workspace, old[IdentityOf[c]].agent) \in Record
    BY <1>2, <1>3, <2>1, NoneAssumption
  <2>3. \A p \in {"completed", "failed"}, e \in {None, "outcome_unknown"}, unknown \in BOOLEAN :
            [InitialRecord(Plan[c], Plan[c].workspace, old[IdentityOf[c]].agent) EXCEPT
                !.phase = p, !.agent = exists, !.error = e, !.outcomeUnknown = unknown] \in Record
    BY <2>2, ZenonT(40) DEF Record
  <2>4. (~exists) \in BOOLEAN
    OBVIOUS
  <2>5. QED
    BY <2>3, <2>4 DEF Imported
<1>6. QED
  BY <1>4, <1>5

\* The steps of an admission.
LEMMA AdmitTyped == ASSUME Typed, NEW c \in Calls, Admit(c) PROVE Typed'
<1> DEFINE i == IdentityOf[c]
           r == record[i]
<1>0. /\ i \in Identities /\ r \in Record \cup {None}
      /\ UNCHANGED <<lane, previous, active, provisions, spawns, prompts, crashes>>
  BY ActorsDiffer DEF Admit, effects, Typed, TypeOK
<1> DEFINE Rest == /\ Seats' /\ pc' \in [Actors -> CallPlaces \cup SubscriberPlaces]
                   /\ record' \in [Identities -> Record \cup {None}]
                   /\ mem' \in [Actors -> Record \cup {None}]
                   /\ result' \in [Calls -> Answers \cup {None}]
                   /\ told' \in [Actors -> Nat \cup {-1}]
                   /\ failures' \in 0 .. MaxFailures
                   /\ UNCHANGED <<legacy, claim, registered>>
<1> SUFFICES Rest
  BY <1>0, PlacesType DEF Typed, TypeOK
<1>1. CASE DiskFails /\ Answer(c, Rejected("error")) /\ UNCHANGED told
  BY <1>1, AnswerMoves, DiskFailsTyped, ReturnedTyped DEF Typed, TypeOK
<1>2. CASE KeyConflict(c)
  BY <1>2, AnswerMoves, ReturnedTyped DEF Typed, TypeOK, KeyConflict, disk
<1>3. CASE r # None /\ Join(c)
  <2>1. r.revision \in Nat
    BY <1>0, <1>3 DEF Record
  <2>2. "joined" \in CallPlaces /\ "joined" \notin Holding
    BY DEF CallPlaces, Holding, Admitting, Entered, Running
  <2>3. Seats' /\ pc' \in [Actors -> CallPlaces \cup SubscriberPlaces]
    BY <1>3, <2>2, CallMoves DEF Join, Typed, TypeOK, Suits
  <2>4. told' \in [Actors -> Nat \cup {-1}]
    BY <1>3, <2>1 DEF Join, Typed, TypeOK
  <2>5. QED
    BY <1>3, <2>3, <2>4 DEF Join, Typed, TypeOK, disk
<1>4. CASE r # None /\ Replay(c, r)
  <2>1. r \in Record /\ r.revision \in Nat
    BY <1>0, <1>4 DEF Record
  <2>2. /\ told' = told \/ told' = [told EXCEPT ![c] = r.revision]
        /\ \E value \in Answers : Answer(c, value)
        /\ UNCHANGED <<record, legacy, claim, registered, failures>>
    BY <1>4, <2>1, ReturnedTyped DEF Replay, disk
  <2>3. QED
    BY <2>1, <2>2, AnswerMoves DEF Typed, TypeOK
<1>5. CASE /\ r # None
           /\ mem' = [mem EXCEPT ![c] = r]
           /\ pc' = [pc EXCEPT ![c] = IF r.inFlight # None THEN "interrupted" ELSE "claiming"]
           /\ UNCHANGED <<disk, result, told, failures>>
  <2>1. "interrupted" \in CallPlaces /\ "claiming" \in CallPlaces
    BY DEF CallPlaces, Admitting
  <2>2. Seats' /\ pc' \in [Actors -> CallPlaces \cup SubscriberPlaces]
    <3>1. PICK p \in {"interrupted", "claiming"} : pc' = [pc EXCEPT ![c] = p]
      BY <1>5
    <3>2. mem' \in [Actors -> Record \cup {None}] /\ mem'[c] # None
      BY <1>0, <1>5, ActorsDiffer DEF Typed, TypeOK
    <3>3. QED
      BY <1>5, <2>1, <3>1, <3>2, CallMoves, ZenonT(40) DEF Typed, TypeOK, Suits
  <2>3. QED
    BY <1>0, <1>5, <2>2 DEF Typed, TypeOK, disk
<1>6. CASE Begin(c)
  <2>1. PICK m \in InitialRecords(Plan[c]) : mem' = [mem EXCEPT ![c] = m]
    BY <1>6 DEF Begin
  <2>2. m \in Record /\ m # None
    BY <2>1, InitialTyped, NoneAssumption
  <2>3. "recording" \in CallPlaces
    BY DEF CallPlaces, Admitting
  <2>4. mem' \in [Actors -> Record \cup {None}]
    BY <2>1, <2>2 DEF Typed, TypeOK
  <2>5. Seats' /\ pc' \in [Actors -> CallPlaces \cup SubscriberPlaces]
    BY <1>6, <2>1, <2>2, <2>3, <2>4, CallMoves, ActorsDiffer DEF Begin, Typed, TypeOK, Suits
  <2>6. QED
    BY <1>6, <2>4, <2>5 DEF Begin, Typed, TypeOK, disk
<1>7. CASE legacy[i] # None /\ ImportLegacy(c)
  <2> DEFINE m == Imported(c, legacy[i], legacy[i].agent \in registered)
  <2>1. m \in Record /\ m # None /\ legacy \in Receipts
    <3>1. legacy \in Receipts /\ (legacy[i].agent \in registered) \in BOOLEAN
      BY DEF Typed, TypeOK
    <3>2. QED
      BY <1>0, <1>7, <3>1, InitialTyped, NoneAssumption, Zenon
  <2> HIDE DEF m
  <2>2. CASE KeyConflict(c)
    BY <2>2, AnswerMoves, ReturnedTyped DEF Typed, TypeOK, KeyConflict, disk
  <2>3. CASE /\ \E e \in {"gone", "error"} : Answer(c, Rejected(e))
             /\ UNCHANGED <<told, record, legacy, claim, registered>>
             /\ failures' \in 0 .. MaxFailures
    BY <2>3, AnswerMoves, ReturnedTyped DEF Typed, TypeOK
  <2>4. CASE /\ record' = [record EXCEPT ![i] = m]
             /\ Answer(c, Returned(m)) /\ told' = [told EXCEPT ![c] = 0]
             /\ UNCHANGED <<legacy, claim, registered, failures>>
    <3>1. record' \in [Identities -> Record \cup {None}] /\ told' \in [Actors -> Nat \cup {-1}]
      BY <1>0, <2>1, <2>4 DEF Typed, TypeOK
    <3>2. QED
      BY <2>1, <2>4, <3>1, AnswerMoves, ReturnedTyped DEF Typed, TypeOK
  <2>5. CASE /\ record' = [record EXCEPT ![i] = m]
             /\ mem' = [mem EXCEPT ![c] = m]
             /\ pc' = [pc EXCEPT ![c] = "claiming"]
             /\ UNCHANGED <<result, told>>
             /\ UNCHANGED <<legacy, claim, registered, failures>>
    <3>1. record' \in [Identities -> Record \cup {None}] /\ mem' \in [Actors -> Record \cup {None}]
      BY <1>0, <2>1, <2>5 DEF Typed, TypeOK
    <3>2. "claiming" \in CallPlaces
      BY DEF CallPlaces, Admitting
    <3>3. Seats' /\ pc' \in [Actors -> CallPlaces \cup SubscriberPlaces]
      BY <2>1, <2>5, <3>1, <3>2, CallMoves, ActorsDiffer DEF Typed, TypeOK, Suits
    <3>4. QED
      BY <2>5, <3>1, <3>3 DEF Typed, TypeOK
  <2>6. QED
    BY <1>7, <2>2, <2>3, <2>4, <2>5, DiskFailsTyped DEF ImportLegacy, m, disk, Typed, TypeOK
<1>8. QED
  <2> HIDE DEF Rest
  <2>1. QED
    BY <1>1, <1>2, <1>3, <1>4, <1>5, <1>6, <1>7 DEF Admit

LEMMA EnteredTyped ==
    ASSUME Typed, NEW c \in Calls,
           Interrupted(c) \/ RecordIdentity(c) \/ RejectReset(c)
    PROVE  Typed'
<1> USE DEF disk, effects
<1>0. IdentityOf[c] \in Identities
  BY ActorsDiffer
<1>1. CASE Interrupted(c)
  <2> DEFINE next == [UnknownOutcome(mem[c]) EXCEPT !.revision = @ + 1]
  <2>1. mem[c] \in Record
    BY <1>1, ActorsDiffer DEF Interrupted, Typed, TypeOK, Seats, Holding, Entered, Admitting
  <2>2. next \in Record /\ next.revision \in Nat
    <3>1. next \in Record
      BY <2>1, UpdatesTyped
    <3>2. QED
      BY <3>1 DEF Record
  <2>3. \/ /\ record' = [record EXCEPT ![IdentityOf[c]] = next]
           /\ told' = [o \in Actors |->
                IF o \in Observers(IdentityOf[c]) THEN next.revision ELSE told[o]]
           /\ Answer(c, Returned(next))
           /\ UNCHANGED <<legacy, claim, registered, failures>>
        \/ DiskFails /\ Answer(c, Rejected("error")) /\ UNCHANGED told
    BY <1>1 DEF Interrupted
  <2>4. UNCHANGED <<lane, previous, active, provisions, spawns, prompts, crashes>>
    BY <1>1 DEF Interrupted
  <2> HIDE DEF next
  <2>5. record' \in [Identities -> Record \cup {None}] /\ told' \in [Actors -> Nat \cup {-1}]
    BY <1>0, <2>2, <2>3, DiskFailsTyped DEF Typed, TypeOK
  <2>6. \E value \in Answers : Answer(c, value)
    BY <2>2, <2>3, ReturnedTyped
  <2>7. failures' \in 0 .. MaxFailures /\ UNCHANGED <<legacy, claim, registered>>
    BY <2>3, DiskFailsTyped DEF Typed, TypeOK
  <2>8. QED
    BY <2>4, <2>5, <2>6, <2>7, AnswerMoves, PlacesType DEF Typed, TypeOK
<1>2. CASE RecordIdentity(c)
  <2>1. mem[c] \in Record
    BY <1>2, ActorsDiffer DEF RecordIdentity, Typed, TypeOK, Seats, Holding, Entered, Admitting
  <2>2. CASE DiskFails /\ Answer(c, Rejected("error"))
    BY <1>2, <2>2, AnswerMoves, DiskFailsTyped, ReturnedTyped, PlacesType
    DEF RecordIdentity, Typed, TypeOK
  <2>3. CASE /\ record' = [record EXCEPT ![IdentityOf[c]] = mem[c]]
             /\ pc' = [pc EXCEPT ![c] = "claiming"]
             /\ UNCHANGED <<legacy, claim, registered, failures, mem, result>>
    <3>1. "claiming" \in CallPlaces
      BY DEF CallPlaces, Admitting
    <3>2. Seats' /\ pc' \in [Actors -> CallPlaces \cup SubscriberPlaces]
      BY <2>1, <2>3, <3>1, CallMoves, NoneAssumption DEF Typed, TypeOK, Suits
    <3>3. QED
      BY <1>0, <1>2, <2>1, <2>3, <3>2, PlacesType DEF RecordIdentity, Typed, TypeOK
  <2>4. QED
    BY <1>2, <2>2, <2>3 DEF RecordIdentity
<1>3. CASE RejectReset(c)
  BY <1>3, AnswerMoves, ReturnedTyped, PlacesType DEF RejectReset, Typed, TypeOK
<1>4. QED
  BY <1>1, <1>2, <1>3

LEMMA ClaimTyped == ASSUME Typed, NEW c \in Calls, Claim(c) PROVE Typed'
<1> USE DEF disk, effects
<1>0. mem[c] \in Record
  BY ActorsDiffer DEF Claim, Typed, TypeOK, Seats, Holding, Entered, Admitting
<1>1. PICK id \in Unclaimed(c) :
        \/ Taken(id) /\ Answer(c, Rejected("id_conflict")) /\ UNCHANGED <<disk, failures>>
        \/ /\ claim' = [claim EXCEPT ![id] = IdentityOf[c]]
           /\ UNCHANGED <<record, legacy, registered, failures, pc, mem, result>>
        \/ /\ failures < MaxFailures
           /\ failures' = failures + 1
           /\ claim' = [claim EXCEPT ![id] = IF TornClaims THEN "torn" ELSE @]
           /\ Answer(c, Rejected("error"))
           /\ UNCHANGED <<record, legacy, registered>>
  BY DEF Claim
<1>2. id \in Ids
  BY <1>0 DEF Unclaimed, Record, Ids
<1>3. claim' \in [Ids -> Identities \cup {None, "torn"}]
  BY <1>1, <1>2, ActorsDiffer DEF Typed, TypeOK
<1>4. failures' \in 0 .. MaxFailures
  BY <1>1, Bounds DEF Typed, TypeOK
<1>5. /\ Seats' /\ pc' \in [Actors -> CallPlaces \cup SubscriberPlaces]
      /\ mem' \in [Actors -> Record \cup {None}]
      /\ result' \in [Calls -> Answers \cup {None}]
  <2>1. CASE UNCHANGED <<pc, mem, result>>
    BY <2>1, PlacesType DEF Typed, TypeOK, Seats
  <2>2. CASE \E value \in Answers : Answer(c, value)
    BY <2>2, AnswerMoves
  <2>3. QED
    BY <1>1, <2>1, <2>2, ReturnedTyped
<1>6. QED
  BY <1>1, <1>3, <1>4, <1>5, PlacesType DEF Claim, Typed, TypeOK

LEMMA StartTyped == ASSUME Typed, NEW c \in Calls, Start(c) PROVE Typed'
<1> USE DEF disk, effects
<1>0. mem[c] \in Record /\ IdentityOf[c] \in Identities
  BY ActorsDiffer DEF Start, Typed, TypeOK, Seats, Holding, Entered, Admitting
<1>1. "running" \in CallPlaces /\ "resetting" \in CallPlaces
  BY DEF CallPlaces, Running, Admitting
<1>2. UNCHANGED <<lane, previous, provisions, spawns, prompts, crashes, result>>
  BY DEF Start
<1>3. active' \in [Identities -> Calls \cup {None}]
  BY <1>0 DEF Start, Typed, TypeOK
<1>4. CASE /\ pc' = [pc EXCEPT ![c] = "running"]
           /\ told' = [told EXCEPT ![c] = mem[c].revision]
           /\ UNCHANGED <<disk, failures, mem>>
  <2>1. told' \in [Actors -> Nat \cup {-1}]
    BY <1>0, <1>4 DEF Typed, TypeOK, Record
  <2>2. Seats' /\ pc' \in [Actors -> CallPlaces \cup SubscriberPlaces]
    BY <1>0, <1>1, <1>4, CallMoves, NoneAssumption DEF Typed, TypeOK, Suits
  <2>3. QED
    BY <1>2, <1>3, <1>4, <2>1, <2>2, PlacesType DEF Typed, TypeOK
<1>5. CASE Publish(c, Retried(mem[c]), "running", "resetting")
  <2>1. Retried(mem[c]) \in Record
    BY <1>0, UpdatesTyped
  <2>2. Seats' /\ pc' \in [Actors -> CallPlaces \cup SubscriberPlaces]
    BY <1>1, <1>5, <2>1, PublishMoves DEF Suits
  <2>3. QED
    BY <1>2, <1>3, <1>5, <2>1, <2>2, PublishTyped, PlacesType, ActorsDiffer DEF Typed, TypeOK
<1>6. QED
  BY <1>4, <1>5 DEF Start

\* The steps of a runner.
LEMMA RunnerHolds ==
    ASSUME Typed, NEW c \in Calls, pc[c] \in Running
    PROVE  mem[c] \in Record /\ IdentityOf[c] \in Identities
  BY ActorsDiffer DEF Typed, TypeOK, Seats, Holding

LEMMA RunnerPlaces == Running \subseteq CallPlaces
  BY DEF CallPlaces

LEMMA MarkTyped ==
    ASSUME Typed, NEW c \in Calls, MarkWorkspace(c) \/ MarkAgent(c)
    PROVE  Typed'
<1>1. mem[c] \in Record
  BY RunnerHolds DEF MarkWorkspace, MarkAgent, Running
<1>2. PICK f \in {"workspace", "agent"}, then \in Running :
        /\ Write(c, [mem[c] EXCEPT !.inFlight = f], then, "failing")
        /\ Suits(then, mem[c])
  BY DEF MarkWorkspace, MarkAgent, Running, Suits, NeedsWorkspace, NeedsAgent
<1>3. [mem[c] EXCEPT !.inFlight = f] \in Record /\ then \in CallPlaces /\ "failing" \in CallPlaces
  BY <1>1, UpdatesTyped, RunnerPlaces DEF Running
<1>4. Seats' /\ pc' \in [Actors -> CallPlaces \cup SubscriberPlaces]
  <2>1. \A p : Suits(p, mem[c]) => Suits(p, [mem[c] EXCEPT !.inFlight = f])
    BY <1>1 DEF Suits, Record
  <2>2. Suits("failing", mem[c])
    BY DEF Suits
  <2>3. QED
    BY <1>2, <1>3, <2>1, <2>2, WriteMoves
<1>5. UNCHANGED <<lane, previous, active, result, told, provisions, spawns, prompts, crashes>>
  BY DEF MarkWorkspace, MarkAgent, effects
<1>6. QED
  BY <1>2, <1>3, <1>4, <1>5, WriteTyped, PlacesType, ActorsDiffer DEF Typed, TypeOK

LEMMA RunnerMoves ==
    ASSUME Typed, NEW c \in Calls, pc[c] \in Running, NEW p \in Running,
           pc' = [pc EXCEPT ![c] = p], UNCHANGED mem, Suits(p, mem[c])
    PROVE  Seats' /\ pc' \in [Actors -> CallPlaces \cup SubscriberPlaces]
<1>1. mem[c] # None
  BY RunnerHolds, NoneAssumption
<1>2. QED
  BY <1>1, CallMoves, RunnerPlaces DEF Typed, TypeOK, Suits

LEMMA ThrowTyped ==
    ASSUME Typed, NEW c \in Calls, pc[c] \in Running, Throw(c),
           UNCHANGED <<lane, previous, active, result, effects, crashes>>
    PROVE  Typed'
<1>1. Seats' /\ pc' \in [Actors -> CallPlaces \cup SubscriberPlaces]
  BY RunnerMoves DEF Throw, Running, Suits
<1>2. QED
  BY <1>1, PlacesType DEF Throw, Typed, TypeOK, disk, effects

LEMMA RunnerPublishTyped ==
    ASSUME Typed, NEW c \in Calls, NEW r \in Record,
           NEW then \in {"running", "started", "failing"},
           NEW otherwise \in {"running", "started", "failing"},
           Publish(c, r, then, otherwise),
           UNCHANGED <<lane, previous, active, result, effects, crashes>>
    PROVE  Typed'
<1>1. Seats' /\ pc' \in [Actors -> CallPlaces \cup SubscriberPlaces]
  <2>1. {"running", "started", "failing"} \subseteq CallPlaces
    BY DEF CallPlaces, Running
  <2>2. \A p \in {"running", "started", "failing"} : Suits(p, r)
    BY DEF Suits
  <2>3. QED
    BY <2>1, <2>2, PublishMoves
<1>2. QED
  BY <1>1, PublishTyped, PlacesType, ActorsDiffer DEF Typed, TypeOK, effects

LEMMA MilestoneTyped ==
    ASSUME Typed, NEW c \in Calls, WorkspaceReady(c) \/ AgentReady(c) \/ AgentCreated(c)
    PROVE  Typed'
<1>1. pc[c] \in Running /\ mem[c] \in Record
  <2>1. pc[c] \in Running
    BY DEF WorkspaceReady, AgentReady, AgentCreated, Running
  <2>2. QED
    BY <2>1, RunnerHolds
<1>2. {"running", "started", "failing"} \subseteq Running
  BY DEF Running
<1>3. UNCHANGED <<lane, previous, active, result, effects, crashes>>
  BY DEF WorkspaceReady, AgentReady, AgentCreated
<1>4. CASE Throw(c)
  BY <1>1, <1>3, <1>4, ThrowTyped
<1>5. CASE \E r \in Record, then \in {"running", "started"} : Publish(c, r, then, "failing")
  BY <1>2, <1>3, <1>5, RunnerPublishTyped
<1>6. CASE AgentCreated(c)
  <2> DEFINE r == [mem[c] EXCEPT !.inFlight = None]
  <2>1. r \in Record /\ [r EXCEPT !.phase = "prompt_started"] \in Record
    BY <1>1, UpdatesTyped
  <2>2. CASE Publish(c, [r EXCEPT !.phase = "prompt_started"], "running", "failing")
    BY <1>2, <1>5, <2>1, <2>2
  <2>3. CASE /\ mem' = [mem EXCEPT ![c] = r] /\ pc' = [pc EXCEPT ![c] = "running"]
             /\ UNCHANGED <<disk, failures, told>>
    <3>1. r # None /\ "running" \in CallPlaces
      BY <1>2, <2>1, NoneAssumption, RunnerPlaces
    <3> HIDE DEF r
    <3>2. mem' \in [Actors -> Record \cup {None}]
      BY <2>1, <2>3 DEF Typed, TypeOK
    <3>3. Seats' /\ pc' \in [Actors -> CallPlaces \cup SubscriberPlaces]
      BY <2>3, <3>1, <3>2, CallMoves, ActorsDiffer DEF Typed, TypeOK, Suits
    <3>4. QED
      BY <1>3, <2>3, <3>2, <3>3, PlacesType DEF Typed, TypeOK, disk, effects
  <2>4. QED
    BY <1>6, <2>2, <2>3 DEF AgentCreated
<1>7. CASE WorkspaceReady(c) /\ ~Throw(c)
  <2>1. Publish(c, [mem[c] EXCEPT !.inFlight = None, !.phase = "workspace_ready",
                                  !.workspace = TRUE], "running", "failing")
    BY <1>7 DEF WorkspaceReady
  <2>2. QED
    BY <1>1, <1>2, <1>5, <2>1, UpdatesTyped
<1>8. CASE AgentReady(c) /\ ~Throw(c)
  <2>1. PICK f \in {None, "prompt"} :
          Publish(c, [mem[c] EXCEPT !.inFlight = f, !.phase = "agent_ready", !.agent = TRUE],
                  "started", "failing")
    BY <1>8 DEF AgentReady
  <2>2. [mem[c] EXCEPT !.inFlight = f, !.phase = "agent_ready", !.agent = TRUE] \in Record
    BY <1>1, UpdatesTyped
  <2>3. QED
    BY <1>2, <1>5, <2>1, <2>2
<1>9. QED
  BY <1>4, <1>6, <1>7, <1>8

LEMMA WorkTyped ==
    ASSUME Typed, NEW c \in Calls, Provision(c) \/ Spawn(c) \/ Prompt(c)
    PROVE  Typed'
<1>1. pc[c] \in Running /\ mem[c] \in Record /\ IdentityOf[c] \in Identities
  <2>1. pc[c] \in Running
    BY DEF Provision, Spawn, Prompt, Running
  <2>2. QED
    BY <2>1, RunnerHolds
<1>2. Suits(pc[c], mem[c])
  BY DEF Typed, Seats
<1>3. UNCHANGED mem /\ \E p \in Running : pc' = [pc EXCEPT ![c] = p] /\ Suits(p, mem[c])
  BY <1>2 DEF Provision, Spawn, Prompt, Running, Suits
<1>4. Seats' /\ pc' \in [Actors -> CallPlaces \cup SubscriberPlaces]
  BY <1>1, <1>3, RunnerMoves
<1>5. registered' \subseteq Ids
  <2>1. Provision(c) => mem[c].workspaceId \in Ids
    BY <1>1, <1>2 DEF Provision, Suits, Record, Ids
  <2>2. Spawn(c) => mem[c].agentId \in Ids
    BY <1>1, <1>2 DEF Spawn, Suits, Record, Ids
  <2>3. QED
    BY <2>1, <2>2 DEF Provision, Spawn, Prompt, Typed, TypeOK, disk
<1>6. /\ provisions' \in [Identities -> Nat] /\ spawns' \in [Identities -> Nat]
      /\ prompts' \in [Identities -> Nat]
  BY <1>1 DEF Provision, Spawn, Prompt, Typed, TypeOK
<1>7. UNCHANGED <<record, legacy, claim, lane, previous, mem, active, result, told, crashes, failures>>
  BY DEF Provision, Spawn, Prompt, disk
<1>8. QED
  BY <1>4, <1>5, <1>6, <1>7, PlacesType DEF Typed, TypeOK

LEMMA EndTyped ==
    ASSUME Typed, NEW c \in Calls, Complete(c) \/ FailRun(c)
    PROVE  Typed'
<1>1. pc[c] \in Running /\ mem[c] \in Record /\ IdentityOf[c] \in Identities
  <2>1. pc[c] \in Running
    BY DEF Complete, FailRun, Running
  <2>2. QED
    BY <2>1, RunnerHolds
<1>2. UNCHANGED <<lane, previous, provisions, spawns, prompts, crashes>>
  BY DEF Complete, FailRun, effects
<1>3. CASE \E r \in Record : PublishLast(c, r)
  <2>1. PICK r \in Record : PublishLast(c, r)
    BY <1>3
  <2>2. \E value \in Answers : Settle(c, value)
    BY <2>1, PublishLastTyped, ReturnedTyped
  <2>3. QED
    BY <1>2, <2>1, <2>2, PublishLastTyped, SettleMoves, PlacesType DEF Typed, TypeOK
<1>4. CASE DiskFails /\ Settle(c, Rejected("error")) /\ UNCHANGED told
  BY <1>2, <1>4, DiskFailsTyped, SettleMoves, ReturnedTyped, PlacesType DEF Typed, TypeOK
<1>5. CASE Complete(c)
  <2> DEFINE r == [mem[c] EXCEPT !.inFlight = None, !.phase = "completed"]
             next == [r EXCEPT !.revision = @ + 1]
  <2>1. r \in Record /\ next \in Record
    <3>1. r \in Record
      BY <1>1, UpdatesTyped
    <3>2. QED
      BY <3>1, UpdatesTyped
  <2>2. \/ PublishLast(c, r)
        \/ /\ DiskFails
           /\ mem' = [mem EXCEPT ![c] = next]
           /\ pc' = [pc EXCEPT ![c] = "failing"]
           /\ UNCHANGED <<active, result, told>>
    BY <1>5 DEF Complete
  <2> HIDE DEF r, next
  <2>3. CASE PublishLast(c, r)
    BY <1>3, <2>1, <2>3
  <2>4. CASE /\ DiskFails
             /\ mem' = [mem EXCEPT ![c] = next]
             /\ pc' = [pc EXCEPT ![c] = "failing"]
             /\ UNCHANGED <<active, result, told>>
    <3>1. next # None /\ "failing" \in CallPlaces /\ Suits("failing", next)
      BY <2>1, NoneAssumption DEF CallPlaces, Running, Suits
    <3>2. mem' \in [Actors -> Record \cup {None}] /\ mem'[c] = next
      BY <2>1, <2>4, ActorsDiffer DEF Typed, TypeOK
    <3>3. Seats' /\ pc' \in [Actors -> CallPlaces \cup SubscriberPlaces]
      BY <2>4, <3>1, <3>2, CallMoves, ActorsDiffer DEF Typed, TypeOK
    <3>4. QED
      BY <1>2, <2>4, <3>2, <3>3, DiskFailsTyped, PlacesType DEF Typed, TypeOK
  <2>5. QED
    BY <2>2, <2>3, <2>4
<1>6. CASE FailRun(c)
  <2>1. ASSUME NEW unknown \in BOOLEAN
        PROVE  [mem[c] EXCEPT !.inFlight = IF unknown THEN @ ELSE None, !.phase = "failed",
                              !.error = "thrown", !.outcomeUnknown = unknown] \in Record
    BY <1>1, ZenonT(40) DEF Record
  <2>2. OutcomeUnknown(mem[c], pc[c] = "refused") \in BOOLEAN
    BY DEF OutcomeUnknown
  <2>3. QED
    BY <1>3, <1>4, <1>6, <2>1, <2>2 DEF FailRun
<1>7. QED
  BY <1>5, <1>6

LEMMA SubscriberTyped ==
    ASSUME Typed, NEW s \in Subscribers, Subscribe(s) \/ Look(s) \/ Flag(s) \/ Unsubscribe(s)
    PROVE  Typed'
<1>0. s \in Actors /\ IdentityOf[s] \in Identities
  BY ActorsDiffer
<1>1. {"waiting", "flagging", "watching", "answered"} \subseteq SubscriberPlaces
  BY DEF SubscriberPlaces, Answered, Observing
<1>2. {"waiting", "watching", "answered"} \cap Holding = {}
  BY DEF Holding, Admitting, Entered, Running
<1>3. CASE Subscribe(s) \/ Unsubscribe(s)
  <2>1. Seats' /\ pc' \in [Actors -> CallPlaces \cup SubscriberPlaces]
    BY <1>1, <1>2, <1>3, SubscriberMoves DEF Subscribe, Unsubscribe, Typed, TypeOK
  <2>2. previous' \in [Actors -> Calls \cup {None}]
    BY <1>3 DEF Subscribe, Unsubscribe, Typed, TypeOK
  <2>3. QED
    BY <1>3, <2>1, <2>2, PlacesType DEF Subscribe, Unsubscribe, Typed, TypeOK, disk, effects
<1>4. CASE Look(s)
  <2> DEFINE r == record[IdentityOf[s]]
  <2>0. UNCHANGED <<lane, previous, active, result, provisions, spawns, prompts, crashes>>
    BY <1>4 DEF Look, effects
  <2>1. r \in Record \cup {None} /\ (r # None => r.revision \in Nat)
    <3>1. r \in Record \cup {None}
      BY <1>0 DEF Typed, TypeOK
    <3>2. QED
      BY <3>1 DEF Record
  <2>2. CASE DiskFails /\ pc' = [pc EXCEPT ![s] = "answered"] /\ UNCHANGED <<mem, told>>
    <3>1. Seats' /\ pc' \in [Actors -> CallPlaces \cup SubscriberPlaces]
      BY <1>1, <1>2, <2>2, SubscriberMoves DEF Typed, TypeOK
    <3>2. QED
      BY <2>0, <2>2, <3>1, DiskFailsTyped, PlacesType DEF Typed, TypeOK
  <2>3. CASE /\ r # None /\ mem' = [mem EXCEPT ![s] = r] /\ pc' = [pc EXCEPT ![s] = "flagging"]
             /\ UNCHANGED <<disk, told, failures>>
    <3>1. mem' \in [Actors -> Record \cup {None}] /\ mem'[s] # None
      BY <1>0, <2>1, <2>3 DEF Typed, TypeOK
    <3>2. Seats' /\ pc' \in [Actors -> CallPlaces \cup SubscriberPlaces]
      BY <1>1, <2>3, <3>1, SubscriberMoves DEF Typed, TypeOK
    <3>3. QED
      BY <2>0, <2>3, <3>1, <3>2, PlacesType DEF Typed, TypeOK, disk
  <2>4. CASE /\ \/ UNCHANGED told /\ pc' = [pc EXCEPT ![s] = "answered"]
                \/ /\ told' = [told EXCEPT ![s] = IF r = None THEN @ ELSE r.revision]
                   /\ pc' = [pc EXCEPT ![s] = "watching"]
             /\ UNCHANGED <<disk, mem, failures>>
    <3>1. told' \in [Actors -> Nat \cup {-1}]
      BY <1>0, <2>1, <2>4 DEF Typed, TypeOK
    <3>2. Seats' /\ pc' \in [Actors -> CallPlaces \cup SubscriberPlaces]
      BY <1>1, <1>2, <2>4, SubscriberMoves DEF Typed, TypeOK
    <3>3. QED
      BY <2>0, <2>4, <3>1, <3>2, PlacesType DEF Typed, TypeOK, disk
  <2>5. QED
    BY <1>4, <2>2, <2>3, <2>4 DEF Look
<1>5. CASE Flag(s)
  <2>1. mem[s] \in Record /\ UnknownOutcome(mem[s]) \in Record
    <3>1. mem[s] \in Record
      BY <1>0, <1>5 DEF Flag, Typed, TypeOK, Seats, Holding
    <3>2. QED
      BY <3>1, UpdatesTyped
  <2> DEFINE next == [UnknownOutcome(mem[s]) EXCEPT !.revision = @ + 1]
  <2>2. next \in Record /\ next # None
    BY <2>1, UpdatesTyped, NoneAssumption
  <2>3. PICK p \in {"watching", "answered"} : pc' = [pc EXCEPT ![s] = p]
    BY <1>5 DEF Flag, Publish
  <2>4. mem' = [mem EXCEPT ![s] = next]
    BY <1>5 DEF Flag, Publish
  <2>5. Publish(s, UnknownOutcome(mem[s]), "watching", "answered")
    BY <1>5 DEF Flag
  <2> HIDE DEF next
  <2>6. Seats' /\ pc' \in [Actors -> CallPlaces \cup SubscriberPlaces]
    BY <1>0, <1>1, <2>2, <2>3, <2>4, SubscriberMoves DEF Typed, TypeOK
  <2>7. QED
    BY <1>0, <1>5, <2>1, <2>5, <2>6, PublishTyped, PlacesType DEF Flag, Typed, TypeOK, effects
<1>6. QED
  BY <1>3, <1>4, <1>5

LEMMA NextTyped == Typed /\ [Next]_vars => Typed'
<1> SUFFICES ASSUME Typed, [Next]_vars PROVE Typed'
  OBVIOUS
<1>1. ASSUME NEW c \in Calls, Create(c) PROVE Typed'
  <2>1. "queued" \in CallPlaces /\ "queued" \notin Holding /\ \A r : Suits("queued", r)
    BY DEF CallPlaces, Holding, Admitting, Entered, Running, Suits
  <2>2. Seats' /\ pc' \in [Actors -> CallPlaces \cup SubscriberPlaces]
    BY <1>1, <2>1, CallMoves DEF Create, Typed, TypeOK
  <2>3. QED
    BY <1>1, <2>2, PlacesType, ActorsDiffer DEF Typed, TypeOK, Create, disk, effects
<1>2. ASSUME NEW c \in Calls, Step(c) PROVE Typed'
  BY <1>2, AdmitTyped, EnteredTyped, ClaimTyped, StartTyped, MarkTyped, MilestoneTyped, WorkTyped,
     EndTyped DEF Step
<1>3. ASSUME NEW s \in Subscribers, Subscribe(s) \/ Look(s) \/ Flag(s) \/ Unsubscribe(s) PROVE Typed'
  BY <1>3, SubscriberTyped
<1>4. ASSUME NEW i \in Identities, Delete(i) PROVE Typed'
  <2>1. UNCHANGED <<pc, mem>> /\ Seats'
    BY <1>4 DEF Typed, Seats, Delete
  <2>2. QED
    BY <1>4, <2>1 DEF Typed, TypeOK, Delete, effects
<1>5. CASE Crash
  <2>1. pc' \in [Actors -> CallPlaces \cup SubscriberPlaces] /\ Seats'
    BY <1>5, ActorsDiffer DEF Crash, Typed, TypeOK, Seats, Suits, CallPlaces, SubscriberPlaces,
       Holding, Admitting, Entered, Running, Answered
  <2>2. QED
    BY <1>5, <2>1, PlacesType, Bounds, ActorsDiffer DEF Crash, Typed, TypeOK, disk, effects
<1>6. CASE UNCHANGED vars
  BY <1>6 DEF Typed, TypeOK, Seats, vars
<1>7. QED
  BY <1>1, <1>2, <1>3, <1>4, <1>5, <1>6 DEF Next

LEMMA AlwaysTyped == Spec => []Typed
  BY InitTyped, NextTyped, PTL DEF Spec

\* Every variable keeps its type: no effect is attempted without the id it is
\* for, whatever fails or dies.
THEOREM TypeCorrect == Spec => []TypeOK
<1>1. Typed => TypeOK
  BY DEF Typed
<1>2. QED
  BY <1>1, AlwaysTyped, PTL

-----------------------------------------------------------------------------
\* How a step of a call moves it and the calls that joined it.
LEMMA StepPlaces ==
    ASSUME Typed, NEW c \in Calls, Step(c)
    PROVE  /\ UNCHANGED <<lane, previous>>
           /\ pc[c] \in Admitting \cup Running
           /\ pc[c] = "queued" => Admitted(c) /\ pc'[c] \notin Running
           /\ pc'[c] \notin {"idle", "queued"}
           /\ pc[c] \in Running => pc'[c] \notin Admitting
           /\ \A a \in Actors : a # c =>
                pc'[a] = pc[a] \/ (pc[c] \in Running /\ pc[a] = "joined" /\ pc'[a] = "answered")
<1> USE ActorsDiffer DEF Typed, TypeOK
<1>1. UNCHANGED <<lane, previous>>
  BY DEF Step, Admit, Interrupted, RecordIdentity, Claim, Start, RejectReset, MarkWorkspace,
     Provision, WorkspaceReady, MarkAgent, Spawn, AgentReady, Prompt, AgentCreated, Complete, FailRun
<1> DEFINE Goal == /\ pc[c] \in Admitting \cup Running
                   /\ pc[c] = "queued" => Admitted(c) /\ pc'[c] \notin Running
                   /\ pc'[c] \notin {"idle", "queued"}
                   /\ pc[c] \in Running => pc'[c] \notin Admitting
                   /\ \A a \in Actors : a # c =>
                        pc'[a] = pc[a] \/ (pc[c] \in Running /\ pc[a] = "joined" /\ pc'[a] = "answered")
<1>2. SUFFICES Goal
  BY <1>1
<1>3. CASE Admit(c)
  <2>1. \E p \in {"answered", "joined", "interrupted", "claiming", "recording"} :
            pc' = [pc EXCEPT ![c] = p]
    BY <1>3 DEF Admit, Answer, KeyConflict, Join, Replay, Begin, ImportLegacy
  <2>2. QED
    BY <1>3, <2>1 DEF Admit, Admitting, Running
<1>4. CASE Interrupted(c) \/ RecordIdentity(c) \/ Claim(c) \/ Start(c) \/ RejectReset(c)
  <2>1. pc[c] \in {"interrupted", "recording", "claiming", "resetting"}
    BY <1>4 DEF Interrupted, RecordIdentity, Claim, Start, RejectReset
  <2>2. pc' = pc \/ \E p \in {"answered", "claiming", "running", "resetting"} :
            pc' = [pc EXCEPT ![c] = p]
    <3>1. Start(c) => \E p \in {"answered", "claiming", "running", "resetting"} :
            pc' = [pc EXCEPT ![c] = p]
      BY DEF Start, Publish
    <3>2. QED
      BY <1>4, <3>1 DEF Interrupted, RecordIdentity, Claim, RejectReset, Answer
  <2>3. QED
    BY <2>1, <2>2 DEF Admitting, Running
<1>5. CASE \/ MarkWorkspace(c) \/ Provision(c) \/ WorkspaceReady(c) \/ MarkAgent(c) \/ Spawn(c)
           \/ AgentReady(c) \/ Prompt(c) \/ AgentCreated(c)
  <2>1. pc[c] \in Running
    BY <1>5 DEF Running, MarkWorkspace, Provision, WorkspaceReady, MarkAgent, Spawn, AgentReady,
       Prompt, AgentCreated
  <2>2. \E p \in Running : pc' = [pc EXCEPT ![c] = p]
    <3>1. MarkWorkspace(c) \/ MarkAgent(c) => \E p \in Running : pc' = [pc EXCEPT ![c] = p]
      BY DEF MarkWorkspace, MarkAgent, Write, Running
    <3>2. WorkspaceReady(c) \/ AgentReady(c) => \E p \in Running : pc' = [pc EXCEPT ![c] = p]
      BY DEF WorkspaceReady, AgentReady, Throw, Publish, Running
    <3>3. AgentCreated(c) => \E p \in Running : pc' = [pc EXCEPT ![c] = p]
      BY DEF AgentCreated, Publish, Running
    <3>4. Provision(c) \/ Spawn(c) \/ Prompt(c) => \E p \in Running : pc' = [pc EXCEPT ![c] = p]
      BY DEF Provision, Spawn, Prompt, Running
    <3>5. QED
      BY <1>5, <3>1, <3>2, <3>3, <3>4
  <2>3. QED
    BY <2>1, <2>2 DEF Admitting, Running
<1>6. CASE Complete(c) \/ FailRun(c)
  <2>1. pc[c] \in Running
    BY <1>6 DEF Running, Complete, FailRun
  <2>2. (\E value : Settle(c, value)) \/ pc' = [pc EXCEPT ![c] = "failing"]
    BY <1>6 DEF Complete, FailRun, PublishLast
  <2>3. CASE \E value : Settle(c, value)
    <3>1. pc'[c] = "answered" /\ \A a \in Actors : a # c =>
              pc'[a] = pc[a] \/ (pc[a] = "joined" /\ pc'[a] = "answered")
      BY <2>3 DEF Settle
    <3>2. QED
      BY <2>1, <3>1 DEF Admitting, Running
  <2>4. CASE pc' = [pc EXCEPT ![c] = "failing"]
    BY <2>1, <2>4 DEF Admitting, Running
  <2>5. QED
    BY <2>2, <2>3, <2>4
<1>7. QED
  BY <1>3, <1>4, <1>5, <1>6 DEF Step

\* The order of admissions when none begins or ends, and when the first ends.
LEMMA SameOrder ==
    ASSUME Typed, NEW rank \in [Calls -> Nat], NEW lo \in Nat, NEW hi \in Nat, InOrder(rank, lo, hi),
           \A c \in Calls : IsAdmitting(c)' <=> IsAdmitting(c),
           UNCHANGED lane, \A c \in Calls : previous'[c] = previous[c]
    PROVE  InOrder(rank, lo, hi)' /\ \A c \in Calls : Admitted(c)' <=> Admitted(c)
<1>1. \A c \in Calls : previous[c] \in Calls \cup {None}
  BY ActorsDiffer DEF Typed, TypeOK
<1>2. \A c \in Calls : Admitted(c)' <=> Admitted(c)
  BY <1>1 DEF Admitted, IsAdmitting
<1>3. lane \in Calls \cup {None}
  BY DEF Typed, TypeOK
<1>4. QED
  BY <1>1, <1>2, <1>3 DEF InOrder

LEMMA NextOrder ==
    ASSUME Typed, NEW rank \in [Calls -> Nat], NEW lo \in Nat, NEW hi \in Nat, InOrder(rank, lo, hi),
           NEW c \in Calls, IsAdmitting(c), Admitted(c),
           \A d \in Calls : IsAdmitting(d)' <=> IsAdmitting(d) /\ d # c,
           UNCHANGED <<lane, previous>>
    PROVE  InOrder(rank, lo + 1, hi)'
<1>1. \A d \in Calls : previous[d] \in Calls \cup {None}
  BY ActorsDiffer DEF Typed, TypeOK
<1>2. lane \in Calls /\ rank[c] = lo
  BY DEF InOrder, Typed, TypeOK
<1>3. ASSUME NEW d \in Calls, IsAdmitting(d), d # c
      PROVE  /\ rank[d] \in lo + 1 .. hi
             /\ rank[d] = lo + 1 <=> Admitted(d)'
             /\ rank[d] # lo + 1 => /\ previous[d] # None /\ IsAdmitting(previous[d])
                                    /\ previous[d] # c /\ previous[d] \in Calls
                                    /\ rank[previous[d]] = rank[d] - 1
             /\ lane # c
  <2>1. rank[d] # lo /\ rank[d] \in lo .. hi /\ rank[d] \in Nat /\ ~Admitted(d)
    BY <1>2, <1>3 DEF InOrder
  <2>2. previous[d] \in Calls /\ IsAdmitting(previous[d]) /\ rank[previous[d]] = rank[d] - 1
    BY <1>1, <1>3, <2>1 DEF InOrder
  <2>3. Admitted(d)' <=> previous[d] = c
    <3>1. Admitted(d)' <=> pc'[previous[d]] \notin Admitting
      BY <2>2, NoneApart DEF Admitted
    <3>2. pc'[previous[d]] \in Admitting <=> previous[d] # c
      BY <2>2 DEF IsAdmitting
    <3>3. QED
      BY <3>1, <3>2
  <2>4. previous[d] = c <=> rank[d] = lo + 1
    BY <1>2, <2>1, <2>2 DEF InOrder
  <2>5. lane # c
    BY <1>2, <1>3, <2>1 DEF InOrder
  <2>6. QED
    BY <2>1, <2>2, <2>3, <2>4, <2>5, NoneApart
<1>4. \A d \in Calls : IsAdmitting(d)' => rank[d] \in lo + 1 .. hi /\ rank[d] \in Nat
  BY <1>3
<1>5. \A d \in Calls : IsAdmitting(d)' =>
        /\ rank[d] = lo + 1 <=> Admitted(d)'
        /\ rank[d] # lo + 1 => /\ previous'[d] # None /\ IsAdmitting(previous[d])'
                               /\ rank[previous'[d]] = rank[d] - 1
        /\ lane' # None /\ IsAdmitting(lane)' /\ rank[lane'] = hi
  <2>1. ASSUME NEW d \in Calls, IsAdmitting(d), d # c
        PROVE  IsAdmitting(lane)' /\ rank[lane] = hi /\ lane # None
    BY <1>2, <1>3, <2>1, NoneApart DEF InOrder, IsAdmitting
  <2>2. ASSUME NEW d \in Calls, IsAdmitting(d), d # c, rank[d] # lo + 1
        PROVE  previous[d] # None /\ IsAdmitting(previous[d])' /\ rank[previous[d]] = rank[d] - 1
    BY <1>3, <2>2 DEF IsAdmitting
  <2>3. QED
    BY <1>3, <2>1, <2>2
<1>6. QED
  BY <1>4, <1>5 DEF InOrder

\* A new admission comes last, and those under way keep their ranks.
LEMMA NewRank ==
    ASSUME Typed, Turns, NEW c \in Calls, Create(c),
           NEW rank \in [Calls -> Nat], NEW lo \in Nat, NEW hi \in Nat, InOrder(rank, lo, hi)
    PROVE  \E q \in [Calls -> Nat], l \in Nat, h \in Nat :
                InOrder(q, l, h)' /\ \A d \in Calls : d # c => q[d] = rank[d]
<1>1. /\ pc[c] = "idle" /\ pc' = [pc EXCEPT ![c] = "queued"] /\ lane' = c
      /\ previous' = [previous EXCEPT ![c] = lane]
      /\ \A d \in Calls : previous[d] \in Calls \cup {None}
      /\ lane \in Calls \cup {None} /\ c # None
      /\ pc \in [Actors -> CallPlaces \cup SubscriberPlaces]
      /\ previous \in [Actors -> Calls \cup {None}]
  BY ActorsDiffer, PlacesType, NoneAssumption DEF Create, Typed, TypeOK
<1>2. lane # c /\ \A a \in Actors : previous[a] # c
  BY <1>1, ActorsDiffer DEF Turns
<1>3. ~IsAdmitting(c) /\ IsAdmitting(c)'
  BY <1>1, ActorsDiffer DEF IsAdmitting, Admitting
<1>4. \A d \in Calls : d # c => /\ IsAdmitting(d)' <=> IsAdmitting(d)
                                /\ Admitted(d)' <=> Admitted(d)
                                /\ previous'[d] = previous[d]
  BY <1>1, <1>2, ActorsDiffer DEF IsAdmitting, Admitted
<1>5. InOrder(rank, lo, hi)
  OBVIOUS
<1>6. QED
  <2>1. CASE lane # None /\ IsAdmitting(lane)
    <3> DEFINE q == [rank EXCEPT ![c] = hi + 1]
    <3>1. q \in [Calls -> Nat] /\ q[c] = hi + 1 /\ \A d \in Calls : d # c => q[d] = rank[d]
      OBVIOUS
    <3> HIDE DEF q
    <3>2. rank[lane] = hi /\ lo <= hi
      BY <1>1, <1>5, <2>1 DEF InOrder
    <3>3. ~Admitted(c)' /\ previous'[c] = lane /\ pc'[lane] \in Admitting /\ q[lane] = hi
      <4>1. lane \in Calls /\ previous'[c] = lane /\ q[lane] = hi /\ pc'[lane] = pc[lane]
        BY <1>1, <1>2, <2>1, <3>1, <3>2, ActorsDiffer
      <4>2. QED
        BY <2>1, <4>1, NoneApart DEF Admitted, IsAdmitting
    <3>4. ASSUME NEW d \in Calls, IsAdmitting(d)'
          PROVE  /\ q[d] \in lo .. hi + 1
                 /\ q[d] = lo <=> Admitted(d)'
                 /\ q[d] # lo => /\ previous'[d] # None /\ IsAdmitting(previous[d])'
                                 /\ q[previous'[d]] = q[d] - 1
      <4>1. CASE d = c
        BY <2>1, <3>1, <3>2, <3>3, <4>1 DEF IsAdmitting
      <4>2. CASE d # c
        <5>1. /\ rank[d] \in lo .. hi
              /\ rank[d] = lo <=> Admitted(d)
              /\ rank[d] # lo => /\ previous[d] # None /\ IsAdmitting(previous[d])
                                 /\ rank[previous[d]] = rank[d] - 1
          BY <1>4, <1>5, <3>4, <4>2 DEF InOrder
        <5>2. previous[d] # c /\ previous'[d] = previous[d] /\ previous[d] \in Calls \cup {None}
          BY <1>1, <1>2, <1>4, <4>2, ActorsDiffer
        <5>3. q[d] = rank[d] /\ rank[d] \in lo .. hi + 1 /\ (Admitted(d)' <=> Admitted(d))
          BY <1>4, <3>1, <4>2, <5>1
        <5>4. rank[d] # lo => /\ previous'[d] # None /\ IsAdmitting(previous[d])'
                              /\ q[previous'[d]] = q[d] - 1
          BY <1>1, <3>1, <4>2, <5>1, <5>2, ActorsDiffer DEF IsAdmitting
        <5>5. QED
          BY <5>1, <5>3, <5>4
      <4>3. QED
        BY <4>1, <4>2
    <3>5. ASSUME NEW d \in Calls, NEW e \in Calls, IsAdmitting(d)', IsAdmitting(e)', q[d] = q[e]
          PROVE  d = e
      <4>1. \A f \in Calls : f # c /\ IsAdmitting(f)' => rank[f] \in lo .. hi
        BY <1>4, <1>5 DEF InOrder
      <4>2. QED
        BY <1>4, <1>5, <3>1, <3>5, <4>1 DEF InOrder
    <3>6. InOrder(q, lo, hi + 1)'
      <4>1. lane' # None /\ IsAdmitting(lane)' /\ q[lane'] = hi + 1
        BY <1>1, <1>3, <3>1 DEF IsAdmitting
      <4>2. QED
        BY <3>4, <3>5, <4>1 DEF InOrder
    <3>7. QED
      BY <3>1, <3>6
  <2>2. CASE ~(lane # None /\ IsAdmitting(lane))
    <3>1. \A d \in Calls : IsAdmitting(d)' => d = c
      BY <1>4, <1>5, <2>2 DEF InOrder
    <3>2. Admitted(c)'
      BY <1>1, <1>2, <1>4, <2>2, ActorsDiffer DEF Admitted, IsAdmitting
    <3>3. InOrder(rank, rank[c], rank[c])'
      BY <1>1, <1>3, <3>1, <3>2 DEF InOrder
    <3>4. QED
      BY <3>3
  <2>3. QED
    BY <2>1, <2>2

LEMMA NewOrder ==
    ASSUME Typed, Turns, NEW c \in Calls, Create(c)
    PROVE  Turns'
<1>1. /\ pc[c] = "idle" /\ pc' = [pc EXCEPT ![c] = "queued"] /\ lane' = c
      /\ previous' = [previous EXCEPT ![c] = lane]
      /\ \A d \in Calls : previous[d] \in Calls \cup {None}
      /\ lane \in Calls \cup {None} /\ c # None
      /\ pc \in [Actors -> CallPlaces \cup SubscriberPlaces]
      /\ previous \in [Actors -> Calls \cup {None}]
  BY ActorsDiffer, PlacesType, NoneAssumption DEF Create, Typed, TypeOK
<1>2. lane # c /\ \A a \in Actors : previous[a] # c
  BY <1>1, ActorsDiffer DEF Turns
<1>4. \A d \in Calls : d # c => /\ IsAdmitting(d)' <=> IsAdmitting(d)
                                /\ Admitted(d)' <=> Admitted(d)
                                /\ previous'[d] = previous[d]
  BY <1>1, <1>2, ActorsDiffer DEF IsAdmitting, Admitted
<1>5. PICK rank \in [Calls -> Nat], lo \in Nat, hi \in Nat : InOrder(rank, lo, hi)
  BY DEF Turns
<1>6. \E q \in [Calls -> Nat], l \in Nat, h \in Nat : InOrder(q, l, h)'
  BY <1>5, NewRank
<1>7. /\ lane' # None => pc'[lane'] # "idle"
      /\ \A a \in Actors : previous'[a] # None => pc'[previous'[a]] # "idle"
  BY <1>1, ActorsDiffer DEF Turns
<1>8. \A d \in Calls : pc'[d] \in Entered => Admitted(d)'
  BY <1>1, <1>4, ActorsDiffer DEF Turns, Entered
<1>9. QED
  BY <1>6, <1>7, <1>8 DEF Turns

\* Every step keeps admissions in their order.
LEMMA InitTurns == Init => Turns
<1> SUFFICES ASSUME Init PROVE Turns
  OBVIOUS
<1>1. \A c \in Calls : ~IsAdmitting(c) /\ pc[c] \notin Entered
  BY ActorsDiffer DEF Init, IsAdmitting, Admitting, Entered
<1>2. InOrder([c \in Calls |-> 0], 0, 0)
  BY <1>1 DEF InOrder
<1>3. [c \in Calls |-> 0] \in [Calls -> Nat]
  OBVIOUS
<1>4. QED
  BY <1>1, <1>2, <1>3 DEF Turns, Init

LEMMA UndisturbedTurns ==
    ASSUME Typed, Turns, UNCHANGED lane, \A c \in Calls : previous'[c] = previous[c],
           \A c \in Calls : pc'[c] = pc[c],
           \A a \in Actors : pc[a] # "idle" => pc'[a] # "idle",
           \A a \in Actors : previous'[a] \in {previous[a], lane}
    PROVE  Turns'
<1>1. \A c \in Calls : IsAdmitting(c)' <=> IsAdmitting(c)
  BY DEF IsAdmitting
<1>2. PICK rank \in [Calls -> Nat], lo \in Nat, hi \in Nat : InOrder(rank, lo, hi)
  BY DEF Turns
<1>3. InOrder(rank, lo, hi)' /\ \A c \in Calls : Admitted(c)' <=> Admitted(c)
  BY <1>1, <1>2, SameOrder
<1>4. \A c \in Calls : pc'[c] \in Entered => Admitted(c)'
  BY <1>3 DEF Turns
<1>5. lane \in Calls \cup {None} /\ \A a \in Actors : previous[a] \in Calls \cup {None}
  BY DEF Typed, TypeOK
<1>6. \A a \in Actors : previous'[a] # None => pc'[previous'[a]] # "idle"
  BY <1>5, ActorsDiffer DEF Turns
<1>7. lane # None => pc'[lane] # "idle"
  BY <1>5, ActorsDiffer DEF Turns
<1>8. QED
  BY <1>3, <1>4, <1>6, <1>7 DEF Turns

LEMMA NextTurns ==
    ASSUME Typed, Turns, [Next]_vars PROVE Turns'
<1>1. ASSUME NEW c \in Calls, Create(c) PROVE Turns'
  BY <1>1, NewOrder
<1>2. ASSUME NEW c \in Calls, Step(c) PROVE Turns'
  <2>1. /\ UNCHANGED <<lane, previous>>
        /\ pc[c] \in Admitting \cup Running
        /\ pc[c] = "queued" => Admitted(c)
        /\ pc'[c] \notin {"idle", "queued"}
        /\ pc[c] \in Running => pc'[c] \notin Admitting
        /\ \A a \in Actors : a # c =>
                pc'[a] = pc[a] \/ (pc[c] \in Running /\ pc[a] = "joined" /\ pc'[a] = "answered")
    BY <1>2, StepPlaces
  <2>2. \A d \in Calls : d # c => /\ IsAdmitting(d)' <=> IsAdmitting(d)
                                  /\ pc'[d] \in Entered <=> pc[d] \in Entered
    BY <2>1, ActorsDiffer DEF IsAdmitting, Entered, Admitting
  <2>3. PICK rank \in [Calls -> Nat], lo \in Nat, hi \in Nat : InOrder(rank, lo, hi)
    BY DEF Turns
  <2>4. lane \in Calls \cup {None} /\ \A a \in Actors : previous[a] \in Calls \cup {None}
    BY DEF Typed, TypeOK
  <2>5. /\ lane # None => pc'[lane] # "idle"
        /\ \A a \in Actors : previous[a] # None => pc'[previous[a]] # "idle"
    BY <2>1, <2>4, ActorsDiffer DEF Turns
  <2>6. CASE IsAdmitting(c)' <=> IsAdmitting(c)
    <3>1. InOrder(rank, lo, hi)' /\ \A d \in Calls : Admitted(d)' <=> Admitted(d)
      BY <2>1, <2>2, <2>3, <2>6, SameOrder
    <3>2. pc'[c] \in Entered => Admitted(c)
      BY <2>1, <2>6 DEF Turns, Entered, IsAdmitting
    <3>3. QED
      BY <2>1, <2>2, <2>5, <3>1, <3>2 DEF Turns
  <2>7. CASE IsAdmitting(c) /\ ~IsAdmitting(c)'
    <3>1. Admitted(c)
      BY <2>1, <2>7 DEF Turns, Entered, IsAdmitting
    <3>2. InOrder(rank, lo + 1, hi)'
      BY <2>1, <2>2, <2>3, <2>7, <3>1, NextOrder
    <3>3. \A d \in Calls : pc'[d] \notin Entered
      BY <2>2, <2>3, <2>7, <3>1 DEF Turns, InOrder, Entered, IsAdmitting
    <3>4. \E q \in [Calls -> Nat], l \in Nat, h \in Nat : InOrder(q, l, h)'
      <4>1. lo + 1 \in Nat
        OBVIOUS
      <4>2. QED
        BY <3>2, <4>1
    <3>5. QED
      BY <2>1, <2>5, <3>3, <3>4 DEF Turns
  <2>8. QED
    BY <2>1, <2>6, <2>7, ActorsDiffer DEF IsAdmitting, Running, Admitting
<1>3. ASSUME NEW s \in Subscribers, Subscribe(s) \/ Look(s) \/ Flag(s) \/ Unsubscribe(s) PROVE Turns'
  <2>1. /\ UNCHANGED lane
        /\ \A a \in Actors : a # s => pc'[a] = pc[a]
        /\ \A a \in Actors : a # s => previous'[a] = previous[a]
        /\ previous'[s] \in {previous[s], lane} /\ pc'[s] # "idle"
    BY <1>3, ActorsDiffer DEF Subscribe, Look, Flag, Unsubscribe, Publish, Typed, TypeOK
  <2>2. QED
    BY <2>1, ActorsDiffer, UndisturbedTurns
<1>4. CASE UNCHANGED <<pc, lane, previous>>
  BY <1>4, UndisturbedTurns
<1>5. CASE Crash
  <2>1. \A c \in Calls : ~IsAdmitting(c)' /\ pc'[c] \notin Entered
    BY <1>5, ActorsDiffer DEF Crash, IsAdmitting, Admitting, Entered, Answered
  <2>2. InOrder([c \in Calls |-> 0], 0, 0)'
    BY <2>1 DEF InOrder
  <2>3. [c \in Calls |-> 0] \in [Calls -> Nat]
    OBVIOUS
  <2>4. lane' = None /\ \A a \in Actors : previous'[a] = None
    BY <1>5 DEF Crash
  <2>5. QED
    BY <2>1, <2>2, <2>3, <2>4 DEF Turns
<1>6. QED
  BY <1>1, <1>2, <1>3, <1>4, <1>5 DEF Next, Delete, vars

\* Only one admission reads and writes the journal at a time.
LEMMA TurnsSerial == Turns => OneAdmission
  BY DEF Turns, InOrder, OneAdmission, Entered, IsAdmitting

LEMMA Alone ==
    ASSUME Turns, NEW c \in Calls, pc[c] \in Admitting, pc[c] = "queued" => Admitted(c),
           NEW d \in Calls, pc[d] \in Entered
    PROVE  d = c
  BY DEF Turns, InOrder, Entered, IsAdmitting

-----------------------------------------------------------------------------
\* How a write or a publish changes the record and the place of its writer.
LEMMA WriteEffect ==
    ASSUME Typed, NEW a \in Actors, NEW r, NEW then, NEW otherwise, Write(a, r, then, otherwise)
    PROVE  /\ mem' = [mem EXCEPT ![a] = r]
           /\ UNCHANGED <<legacy, claim, registered>>
           /\ \/ record' = [record EXCEPT ![IdentityOf[a]] = r] /\ pc' = [pc EXCEPT ![a] = then]
              \/ record' = record /\ pc' = [pc EXCEPT ![a] = otherwise]
  BY DEF Write, DiskFails, disk

LEMMA PublishEffect ==
    ASSUME Typed, NEW a \in Actors, NEW r \in Record, NEW then, NEW otherwise,
           Publish(a, r, then, otherwise)
    PROVE  \E next \in Record :
           /\ next = [r EXCEPT !.revision = r.revision + 1]
           /\ mem' = [mem EXCEPT ![a] = next]
           /\ UNCHANGED <<legacy, claim, registered>>
           /\ \/ /\ record' = [record EXCEPT ![IdentityOf[a]] = next]
                 /\ pc' = [pc EXCEPT ![a] = then]
                 /\ told' = [o \in Actors |->
                        IF o \in Observers(IdentityOf[a]) THEN next.revision ELSE told[o]]
              \/ record' = record /\ pc' = [pc EXCEPT ![a] = otherwise] /\ told' = told
<1>1. [r EXCEPT !.revision = r.revision + 1] \in Record
  BY UpdatesTyped
<1>2. QED
  BY <1>1 DEF Publish, DiskFails, disk

\* What a step of a call does to the creation it is about, and to no other.
Owned(c) ==
    LET i == IdentityOf[c] IN
    /\ \A j \in Identities \ {i} : record'[j] = record[j] /\ active'[j] = active[j]
    /\ record[i] # None => record'[i] # None
    /\ pc'[c] \in Running => active'[i] = c /\ record[i] # None
    /\ pc'[c] \notin Running => active'[i] = IF pc[c] \in Running THEN None ELSE active[i]
    /\ pc'[c] \in Entered =>
        active'[i] = None /\ (record'[i] = None <=> pc'[c] = "recording")

LEMMA AdmitOwned == ASSUME Typed, Ownership, NEW c \in Calls, Admit(c) PROVE Owned(c)
<1> DEFINE i == IdentityOf[c]
<1>1. /\ pc[c] = "queued" /\ active' = active /\ i \in Identities /\ c \in Actors
      /\ record[i] = None => active[i] = None
      /\ pc \in [Actors -> CallPlaces \cup SubscriberPlaces]
      /\ record \in [Identities -> Record \cup {None}]
  BY ActorsDiffer, PlacesType DEF Admit, Typed, TypeOK, Ownership
<1>2. pc[c] \notin Running /\ "recording" \notin Running
  BY <1>1 DEF Running
<1>3. CASE record' = record /\ \E p \in {"answered", "joined"} : pc' = [pc EXCEPT ![c] = p]
  BY <1>1, <1>2, <1>3 DEF Owned, Entered, Admitting, Running
<1>4. CASE /\ record' = record /\ record[i] # None /\ active[i] = None
           /\ \E p \in {"interrupted", "claiming"} : pc' = [pc EXCEPT ![c] = p]
  BY <1>1, <1>2, <1>4 DEF Owned, Entered, Admitting, Running
<1>5. CASE record' = record /\ record[i] = None /\ pc' = [pc EXCEPT ![c] = "recording"]
  BY <1>1, <1>2, <1>5 DEF Owned, Entered, Admitting
<1>6. CASE /\ record[i] = None /\ \E r \in Record : record' = [record EXCEPT ![i] = r]
           /\ \E p \in {"answered", "claiming"} : pc' = [pc EXCEPT ![c] = p]
  BY <1>1, <1>2, <1>6, NoneApart DEF Owned, Entered, Admitting, Running
<1>7. CASE record[i] = None /\ legacy[i] # None /\ ImportLegacy(c)
  <2>1. legacy \in Receipts /\ (legacy[i].agent \in registered) \in BOOLEAN
    BY DEF Typed, TypeOK
  <2>2. Imported(c, legacy[i], legacy[i].agent \in registered) \in Record
    BY <1>7, <2>1, InitialTyped
  <2>3. QED
    BY <1>3, <1>6, <1>7, <2>2 DEF ImportLegacy, KeyConflict, Answer, DiskFails, disk
<1>8. QED
  BY <1>3, <1>4, <1>5, <1>7 DEF Admit, KeyConflict, Join, Replay, Begin, Answer, DiskFails, disk

LEMMA EnteredOwned ==
    ASSUME Typed, Ownership, NEW c \in Calls,
           Interrupted(c) \/ RecordIdentity(c) \/ Claim(c) \/ Start(c) \/ RejectReset(c)
    PROVE  Owned(c)
<1> DEFINE i == IdentityOf[c]
<1>1. /\ pc[c] \in Entered /\ i \in Identities /\ c \in Actors /\ active[i] = None
      /\ record[i] = None <=> pc[c] = "recording"
      /\ pc \in [Actors -> CallPlaces \cup SubscriberPlaces]
      /\ record \in [Identities -> Record \cup {None}]
      /\ active \in [Identities -> Calls \cup {None}]
      /\ mem[c] \in Record /\ pc[c] \notin Running
  <2>1. pc[c] \in Entered /\ pc[c] \notin Running
    BY DEF Interrupted, RecordIdentity, Claim, Start, RejectReset, Entered, Admitting, Running
  <2>2. QED
    BY <2>1, ActorsDiffer, PlacesType DEF Typed, TypeOK, Seats, Holding, Ownership
<1>2. CASE record' = record /\ active' = active /\ pc' \in {pc, [pc EXCEPT ![c] = "answered"]}
  BY <1>1, <1>2 DEF Owned, Entered, Admitting, Running
<1>3. CASE Interrupted(c)
  <2>1. /\ active' = active /\ pc' = [pc EXCEPT ![c] = "answered"]
        /\ \/ record' = record
           \/ record' = [record EXCEPT ![i] = [UnknownOutcome(mem[c]) EXCEPT !.revision = @ + 1]]
    BY <1>3 DEF Interrupted, Answer, DiskFails, disk
  <2>2. [UnknownOutcome(mem[c]) EXCEPT !.revision = @ + 1] # None
    <3>1. UnknownOutcome(mem[c]) \in Record
      BY <1>1, UpdatesTyped
    <3>2. QED
      BY <3>1, UpdatesTyped, NoneApart
  <2>3. QED
    BY <1>1, <2>1, <2>2 DEF Owned, Entered, Admitting, Running
<1>4. CASE RecordIdentity(c)
  <2>1. CASE /\ record' = [record EXCEPT ![i] = mem[c]] /\ active' = active
             /\ pc' = [pc EXCEPT ![c] = "claiming"]
    BY <1>1, <2>1, NoneApart DEF Owned, Entered, Admitting, Running
  <2>2. QED
    BY <1>2, <1>4, <2>1 DEF RecordIdentity, Answer, DiskFails, disk
<1>5. CASE Claim(c) \/ RejectReset(c)
  BY <1>2, <1>5 DEF Claim, RejectReset, Answer, disk
<1>6. CASE Start(c)
  <2>1. record[i] # None /\ Retried(mem[c]) \in Record
    BY <1>1, <1>6, UpdatesTyped DEF Start
  <2>2. \/ /\ record' = record /\ pc' = [pc EXCEPT ![c] = "running"]
           /\ active' = [active EXCEPT ![i] = c]
        \/ /\ \E next \in Record : record' = [record EXCEPT ![i] = next]
           /\ pc' = [pc EXCEPT ![c] = "running"] /\ active' = [active EXCEPT ![i] = c]
        \/ record' = record /\ pc' = [pc EXCEPT ![c] = "resetting"] /\ active' = active
    <3>1. CASE mem[c].phase # "failed"
      BY <1>6, <3>1 DEF Start, disk
    <3>2. CASE mem[c].phase = "failed"
      <4>1. /\ Publish(c, Retried(mem[c]), "running", "resetting")
            /\ active' = IF pc'[c] = "running" THEN [active EXCEPT ![i] = c] ELSE active
        BY <1>6, <3>2 DEF Start
      <4>2. QED
        BY <1>1, <2>1, <4>1, PublishEffect
    <3>3. QED
      BY <3>1, <3>2
  <2>3. QED
    BY <1>1, <2>1, <2>2, NoneApart DEF Owned, Entered, Admitting, Running
<1>7. QED
  BY <1>3, <1>4, <1>5, <1>6

LEMMA RunnerOwned ==
    ASSUME Typed, Ownership, NEW c \in Calls, Step(c), pc[c] \in Running
    PROVE  Owned(c)
<1> DEFINE i == IdentityOf[c]
<1>1. /\ i \in Identities /\ c \in Actors /\ active[i] = c /\ record[i] # None
      /\ pc \in [Actors -> CallPlaces \cup SubscriberPlaces]
      /\ record \in [Identities -> Record \cup {None}]
      /\ active \in [Identities -> Calls \cup {None}]
      /\ mem[c] \in Record
  BY ActorsDiffer, NoneApart, PlacesType, RunnerHolds DEF Typed, TypeOK, Ownership, OneRunner
<1>2. CASE /\ active' = active /\ \E p \in Running : pc' = [pc EXCEPT ![c] = p]
           /\ record' = record \/ \E r \in Record : record' = [record EXCEPT ![i] = r]
  BY <1>1, <1>2, NoneApart DEF Owned, Entered, Admitting, Running
<1>3. CASE \E value : /\ Settle(c, value)
                      /\ record' = record \/ \E r \in Record : record' = [record EXCEPT ![i] = r]
  <2>1. pc'[c] = "answered" /\ active' = [active EXCEPT ![i] = None]
    BY <1>1, <1>3 DEF Settle
  <2>2. QED
    BY <1>1, <1>3, <2>1, NoneApart DEF Owned, Entered, Admitting, Running
<1>4. CASE MarkWorkspace(c) \/ MarkAgent(c)
  <2>1. PICK f \in {"workspace", "agent"}, then \in Running :
          Write(c, [mem[c] EXCEPT !.inFlight = f], then, "failing")
    BY <1>4 DEF MarkWorkspace, MarkAgent, Running
  <2>2. [mem[c] EXCEPT !.inFlight = f] \in Record /\ "failing" \in Running
    BY <1>1, UpdatesTyped DEF Running
  <2>3. active' = active
    BY <1>4 DEF MarkWorkspace, MarkAgent
  <2>4. QED
    BY <1>1, <1>2, <2>1, <2>2, <2>3, WriteEffect
<1>5. ASSUME NEW r \in Record, NEW then \in Running, Publish(c, r, then, "failing"), active' = active
      PROVE  Owned(c)
  <2>1. "failing" \in Running
    BY DEF Running
  <2>2. QED
    BY <1>1, <1>2, <1>5, <2>1, PublishEffect
<1>6. CASE WorkspaceReady(c)
  <2>1. CASE Throw(c)
    BY <1>2, <1>6, <2>1 DEF WorkspaceReady, Throw, Running, disk
  <2>2. CASE Publish(c, [mem[c] EXCEPT !.inFlight = None, !.phase = "workspace_ready",
                                       !.workspace = TRUE], "running", "failing")
    BY <1>1, <1>5, <1>6, <2>2, UpdatesTyped DEF WorkspaceReady, Running
  <2>3. QED
    BY <1>6, <2>1, <2>2 DEF WorkspaceReady
<1>7. CASE AgentReady(c)
  <2>1. CASE Throw(c)
    BY <1>2, <1>7, <2>1 DEF AgentReady, Throw, Running, disk
  <2>2. ASSUME NEW f \in {None, "prompt"},
               Publish(c, [mem[c] EXCEPT !.inFlight = f, !.phase = "agent_ready", !.agent = TRUE],
                       "started", "failing")
        PROVE  Owned(c)
    <3>1. [mem[c] EXCEPT !.inFlight = f, !.phase = "agent_ready", !.agent = TRUE] \in Record
      BY <1>1, UpdatesTyped
    <3>2. QED
      BY <1>5, <1>7, <2>2, <3>1 DEF AgentReady, Running
  <2>3. QED
    BY <1>7, <2>1, <2>2 DEF AgentReady
<1>8. CASE AgentCreated(c)
  <2> DEFINE r == [mem[c] EXCEPT !.inFlight = None]
  <2>1. [r EXCEPT !.phase = "prompt_started"] \in Record
    <3>1. r \in Record
      BY <1>1, UpdatesTyped
    <3>2. QED
      BY <3>1, UpdatesTyped
  <2>2. CASE Publish(c, [r EXCEPT !.phase = "prompt_started"], "running", "failing")
    BY <1>5, <1>8, <2>1, <2>2 DEF AgentCreated, Running
  <2>3. QED
    BY <1>2, <1>8, <2>2 DEF AgentCreated, Running, disk
<1>9. CASE Provision(c) \/ Spawn(c) \/ Prompt(c)
  BY <1>2, <1>9 DEF Provision, Spawn, Prompt, Running, disk
<1>10. ASSUME NEW r \in Record, PublishLast(c, r) PROVE Owned(c)
  <2>1. [r EXCEPT !.revision = @ + 1] \in Record
    BY UpdatesTyped
  <2>2. QED
    BY <1>3, <1>10, <2>1 DEF PublishLast
<1>11. CASE Complete(c)
  <2>1. [mem[c] EXCEPT !.inFlight = None, !.phase = "completed"] \in Record
    BY <1>1, UpdatesTyped
  <2>2. QED
    BY <1>2, <1>10, <1>11, <2>1 DEF Complete, DiskFails, disk, Running
<1>12. CASE FailRun(c)
  <2>1. ASSUME NEW unknown \in BOOLEAN
        PROVE  [mem[c] EXCEPT !.inFlight = IF unknown THEN @ ELSE None, !.phase = "failed",
                              !.error = "thrown", !.outcomeUnknown = unknown] \in Record
    BY <1>1, ZenonT(40) DEF Record
  <2>2. OutcomeUnknown(mem[c], pc[c] = "refused") \in BOOLEAN
    BY DEF OutcomeUnknown
  <2>3. QED
    BY <1>3, <1>10, <1>12, <2>1, <2>2 DEF FailRun, DiskFails, disk
<1>13. QED
  <2>1. ~(Admit(c) \/ Interrupted(c) \/ RecordIdentity(c) \/ Claim(c) \/ Start(c) \/ RejectReset(c))
    BY DEF Admit, Interrupted, RecordIdentity, Claim, Start, RejectReset, Running
  <2>2. QED
    BY <1>4, <1>6, <1>7, <1>8, <1>9, <1>11, <1>12, <2>1 DEF Step

LEMMA StepOwned == ASSUME Typed, Ownership, NEW c \in Calls, Step(c) PROVE Owned(c)
<1>1. CASE pc[c] \notin Running
  <2>1. \/ Admit(c)
        \/ Interrupted(c) \/ RecordIdentity(c) \/ Claim(c) \/ Start(c) \/ RejectReset(c)
    BY <1>1 DEF Step, Running, MarkWorkspace, Provision, WorkspaceReady, MarkAgent, Spawn,
       AgentReady, Prompt, AgentCreated, Complete, FailRun
  <2>2. QED
    BY <2>1, AdmitOwned, EnteredOwned
<1>2. QED
  BY <1>1, RunnerOwned

\* One runner for each creation, and none while it is admitted.
LEMMA NextOwnership ==
    ASSUME Typed, Turns, Ownership, [Next]_vars PROVE Ownership'
<1>0. /\ pc \in [Actors -> CallPlaces \cup SubscriberPlaces]
      /\ record \in [Identities -> Record \cup {None}]
      /\ active \in [Identities -> Calls \cup {None}]
      /\ \A c \in Calls : c \in Actors /\ c # None /\ IdentityOf[c] \in Identities
  BY ActorsDiffer, NoneApart, PlacesType DEF Typed, TypeOK
<1>1. ASSUME NEW c \in Calls, Step(c) PROVE Ownership'
  <2> DEFINE i == IdentityOf[c]
  <2>1. Owned(c)
    BY <1>1, StepOwned
  <2>2. /\ pc[c] \in Admitting \cup Running
        /\ pc[c] = "queued" => Admitted(c) /\ pc'[c] \notin Running
        /\ pc[c] \in Running => pc'[c] \notin Admitting
        /\ \A a \in Actors : a # c =>
                pc'[a] = pc[a] \/ (pc[c] \in Running /\ pc[a] = "joined" /\ pc'[a] = "answered")
    BY <1>1, StepPlaces
  <2>3. \A d \in Calls : d # c => /\ pc'[d] \in Running <=> pc[d] \in Running
                                  /\ pc'[d] \in Entered => pc[d] \in Entered /\ pc'[d] = pc[d]
    BY <1>0, <2>2 DEF Running, Entered, Admitting
  <2>4. ASSUME NEW d \in Calls, pc'[d] \in Running PROVE active'[IdentityOf[d]] = d
    <3>1. CASE d = c
      BY <2>1, <2>4, <3>1 DEF Owned
    <3>2. CASE d # c /\ IdentityOf[d] # i
      BY <1>0, <2>1, <2>3, <2>4, <3>2 DEF Owned, Ownership, OneRunner
    <3>3. CASE d # c /\ IdentityOf[d] = i
      <4>1. active[i] = d
        BY <2>3, <2>4, <3>3 DEF Ownership, OneRunner
      <4>2. pc[c] \notin Running
        BY <3>3, <4>1 DEF Ownership, OneRunner
      <4>3. pc'[c] \notin Running
        <5>1. SUFFICES ASSUME pc'[c] \in Running PROVE FALSE
          OBVIOUS
        <5>2. pc[c] \in Entered
          BY <2>2, <4>2, <5>1 DEF Entered
        <5>3. QED
          BY <1>0, <4>1, <5>2 DEF Ownership
      <4>4. QED
        BY <2>1, <4>1, <4>2, <4>3, <3>3 DEF Owned
    <3>4. QED
      BY <3>1, <3>2, <3>3
  <2>5. ASSUME NEW j \in Identities, active'[j] # None
        PROVE  IdentityOf[active'[j]] = j /\ pc'[active'[j]] \in Running /\ record'[j] # None
    <3>1. CASE j # i
      <4>1. active'[j] = active[j] /\ record'[j] = record[j] /\ active[j] # c
        BY <1>0, <2>1, <2>5, <3>1 DEF Owned, Ownership
      <4>2. QED
        BY <1>0, <2>3, <2>5, <4>1 DEF Ownership
    <3>2. CASE j = i /\ pc'[c] \in Running
      BY <1>0, <2>1, <2>5, <3>2 DEF Owned
    <3>3. CASE j = i /\ pc'[c] \notin Running
      <4>1. active'[i] = active[i] /\ pc[c] \notin Running
        BY <2>1, <2>5, <3>3 DEF Owned
      <4>2. active[i] # c /\ active[i] \in Calls /\ record[i] # None
        BY <1>0, <2>5, <3>3, <4>1 DEF Ownership
      <4>3. QED
        BY <1>0, <2>1, <2>3, <2>5, <3>3, <4>1, <4>2 DEF Owned, Ownership
    <3>4. QED
      BY <3>1, <3>2, <3>3
  <2>6. ASSUME NEW d \in Calls, pc'[d] \in Entered
        PROVE  /\ active'[IdentityOf[d]] = None
               /\ record'[IdentityOf[d]] = None <=> pc'[d] = "recording"
    <3>1. CASE d = c
      BY <2>1, <2>6, <3>1 DEF Owned
    <3>2. CASE d # c
      <4>1. pc[d] \in Entered /\ pc'[d] = pc[d]
        BY <2>3, <2>6, <3>2
      <4>2. pc[c] \in Running
        BY <2>2, <3>2, <4>1, Alone
      <4>3. IdentityOf[d] # i
        BY <1>0, <4>1, <4>2 DEF Ownership, OneRunner
      <4>4. QED
        BY <1>0, <2>1, <4>1, <4>3 DEF Owned, Ownership
    <3>3. QED
      BY <3>1, <3>2
  <2>7. \A s \in Subscribers : pc'[s] = "flagging" => record'[IdentityOf[s]] # None
    BY <1>0, <2>1, <2>2, ActorsDiffer DEF Owned, Ownership
  <2>8. QED
    BY <2>4, <2>5, <2>6, <2>7 DEF Ownership, OneRunner
<1>2. ASSUME UNCHANGED active,
             \A c \in Calls : pc'[c] = pc[c] \/ {pc[c], pc'[c]} \cap (Running \cup Entered) = {},
             \A j \in Identities : record'[j] # record[j] => record[j] # None /\ record'[j] # None,
             \A s \in Subscribers : pc'[s] = "flagging" =>
                pc[s] = "flagging" \/ record[IdentityOf[s]] # None
      PROVE  Ownership'
  BY <1>0, <1>2, ActorsDiffer DEF Ownership, OneRunner
<1>3. ASSUME NEW c \in Calls, Create(c) PROVE Ownership'
  <2>1. \A d \in Calls : d # c => pc'[d] = pc[d]
    BY <1>0, <1>3 DEF Create
  <2>2. pc[c] = "idle" /\ pc'[c] = "queued"
    BY <1>0, <1>3 DEF Create
  <2>3. {"idle", "queued"} \cap (Running \cup Entered) = {}
    BY DEF Running, Entered, Admitting
  <2>4. UNCHANGED <<active, record>>
    BY <1>3 DEF Create, disk
  <2>5. \A s \in Subscribers : pc'[s] = pc[s]
    BY <1>0, <1>3, ActorsDiffer DEF Create
  <2>6. QED
    BY <1>2, <2>1, <2>2, <2>3, <2>4, <2>5
<1>4. ASSUME NEW s \in Subscribers, Subscribe(s) \/ Look(s) \/ Flag(s) \/ Unsubscribe(s)
      PROVE  Ownership'
  <2>1. UNCHANGED active /\ \A c \in Calls : pc'[c] = pc[c]
    BY <1>4, ActorsDiffer DEF Subscribe, Look, Flag, Unsubscribe, Publish, Typed, TypeOK
  <2>2. \A j \in Identities : record'[j] # record[j] => record[j] # None /\ record'[j] # None
    <3>1. CASE ~Flag(s)
      BY <1>4, <3>1 DEF Subscribe, Look, Unsubscribe, DiskFails, disk
    <3>2. CASE Flag(s)
      <4>1. UnknownOutcome(mem[s]) \in Record /\ s \in Actors /\ pc[s] = "flagging"
        <5>1. mem[s] \in Record /\ s \in Actors /\ pc[s] = "flagging"
          BY <3>2, ActorsDiffer DEF Flag, Typed, TypeOK, Seats, Holding
        <5>2. QED
          BY <5>1, UpdatesTyped
      <4>2. record[IdentityOf[s]] # None
        BY <4>1 DEF Ownership
      <4>3. QED
        BY <1>0, <3>2, <4>1, <4>2, PublishEffect, NoneApart DEF Flag
    <3>3. QED
      BY <3>1, <3>2
  <2>3. \A t \in Subscribers : pc'[t] = "flagging" =>
            pc[t] = "flagging" \/ record[IdentityOf[t]] # None
    <3>1. CASE Look(s)
      BY <1>0, <3>1, ActorsDiffer DEF Look
    <3>2. CASE ~Look(s)
      BY <1>0, <1>4, <3>2, ActorsDiffer DEF Subscribe, Flag, Unsubscribe, Publish
    <3>3. QED
      BY <3>1, <3>2
  <2>4. QED
    BY <1>2, <2>1, <2>2, <2>3
<1>5. CASE UNCHANGED <<pc, active, record>>
  BY <1>2, <1>5
<1>6. CASE Crash
  <2>1. \A a \in Actors : pc'[a] \in {"idle", "lost"} \cup Answered
    BY <1>6 DEF Crash, Answered
  <2>2. \A a \in Actors : pc'[a] \notin Running \cup Entered \cup {"flagging"}
    BY <2>1 DEF Running, Entered, Admitting, Answered
  <2>3. \A i \in Identities : active'[i] = None
    BY <1>6 DEF Crash
  <2>4. QED
    BY <1>0, <2>2, <2>3, ActorsDiffer DEF Ownership, OneRunner
<1>7. QED
  BY <1>1, <1>3, <1>4, <1>5, <1>6 DEF Next, Delete, disk, vars

LEMMA InitOwnership == Init => Ownership
<1> SUFFICES ASSUME Init PROVE Ownership
  OBVIOUS
<1>1. \A a \in Actors : pc[a] \notin Running \cup Entered \cup {"flagging"}
  BY DEF Init, Running, Entered, Admitting
<1>2. QED
  BY <1>1, ActorsDiffer DEF Init, Ownership, OneRunner

LEMMA AlwaysOwned == Spec => [](Typed /\ Turns /\ Ownership)
<1>1. Init => Typed /\ Turns /\ Ownership
  BY InitTyped, InitTurns, InitOwnership
<1>2. Typed /\ Turns /\ Ownership /\ [Next]_vars => (Typed /\ Turns /\ Ownership)'
  BY NextTyped, NextTurns, NextOwnership
<1>3. QED
  BY <1>1, <1>2, PTL DEF Spec

\* Admissions of all keys run one at a time: the promise chain of create and
\* subscribe lets none in before the one it waits for is through.
THEOREM AdmissionsInTurn == Spec => []OneAdmission
  BY AlwaysOwned, TurnsSerial, PTL

\* No two runners work on one creation, and the map of active creations names
\* the one that does: whoever asks again in the meantime joins it.
THEOREM OneRunnerEach == Spec => []OneRunner
<1>1. Ownership => OneRunner
  BY DEF Ownership
<1>2. QED
  BY <1>1, AlwaysOwned, PTL

-----------------------------------------------------------------------------
\* A step of a call leaves other creations and other requests alone, and takes
\* no claim and no resource away.
Local(c) ==
    /\ legacy' = legacy
    /\ \A j \in Identities \ {IdentityOf[c]} :
        /\ record'[j] = record[j]
        /\ provisions'[j] = provisions[j] /\ spawns'[j] = spawns[j] /\ prompts'[j] = prompts[j]
    /\ \A a \in Actors : a # c => mem'[a] = mem[a]
    /\ \A id \in Ids : claim[id] \in Identities => claim'[id] = claim[id]
    /\ registered \subseteq registered'
    /\ pc[c] \notin Running => UNCHANGED effects

LEMMA StepLocal == ASSUME Typed, NEW c \in Calls, Step(c) PROVE Local(c)
<1> USE DEF disk, effects
<1>0. /\ c \in Actors /\ IdentityOf[c] \in Identities
      /\ record \in [Identities -> Record \cup {None}] /\ mem \in [Actors -> Record \cup {None}]
      /\ provisions \in [Identities -> Nat] /\ spawns \in [Identities -> Nat]
      /\ prompts \in [Identities -> Nat] /\ claim \in [Ids -> Identities \cup {None, "torn"}]
  BY ActorsDiffer DEF Typed, TypeOK
<1>1. CASE Admit(c)
  <2>1. UNCHANGED <<legacy, claim, registered, effects>>
    BY <1>1 DEF Admit, KeyConflict, Join, Replay, Begin, ImportLegacy, DiskFails
  <2>2. \A j \in Identities \ {IdentityOf[c]} : record'[j] = record[j]
    BY <1>0, <1>1 DEF Admit, KeyConflict, Join, Replay, Begin, ImportLegacy, DiskFails
  <2>3. \A a \in Actors : a # c => mem'[a] = mem[a]
    BY <1>0, <1>1 DEF Admit, KeyConflict, Join, Replay, Begin, ImportLegacy, Answer
  <2>4. QED
    BY <2>1, <2>2, <2>3 DEF Local
<1>2. CASE Interrupted(c) \/ RecordIdentity(c) \/ RejectReset(c)
  <2>1. UNCHANGED <<legacy, claim, registered, effects>>
    BY <1>2 DEF Interrupted, RecordIdentity, RejectReset, DiskFails
  <2>2. \A j \in Identities \ {IdentityOf[c]} : record'[j] = record[j]
    BY <1>0, <1>2 DEF Interrupted, RecordIdentity, RejectReset, DiskFails
  <2>3. \A a \in Actors : a # c => mem'[a] = mem[a]
    BY <1>0, <1>2 DEF Interrupted, RecordIdentity, RejectReset, Answer
  <2>4. QED
    BY <2>1, <2>2, <2>3 DEF Local
<1>3. CASE Claim(c)
  <2>1. UNCHANGED <<legacy, record, registered, effects>>
    BY <1>3 DEF Claim
  <2>2. \A a \in Actors : a # c => mem'[a] = mem[a]
    BY <1>0, <1>3 DEF Claim, Answer
  <2>3. ASSUME NEW id \in Ids, claim[id] \in Identities PROVE claim'[id] = claim[id]
    <3>1. Taken(id)
      BY <2>3, NoneApart DEF Taken
    <3>2. QED
      BY <1>0, <1>3, <3>1 DEF Claim
  <2>4. QED
    BY <2>1, <2>2, <2>3 DEF Local
<1>4. ASSUME NEW r \in Record, NEW then, NEW otherwise, Publish(c, r, then, otherwise),
             UNCHANGED effects
      PROVE  Local(c)
  BY <1>0, <1>4, PublishEffect DEF Local
<1>5. CASE Start(c)
  <2>1. Retried(mem[c]) \in Record
    <3>1. mem[c] \in Record
      BY <1>5, ActorsDiffer DEF Start, Typed, TypeOK, Seats, Holding, Entered, Admitting
    <3>2. QED
      BY <3>1, UpdatesTyped
  <2>2. CASE Publish(c, Retried(mem[c]), "running", "resetting")
    BY <1>4, <1>5, <2>1, <2>2 DEF Start
  <2>3. QED
    BY <1>5, <2>2 DEF Start, Local
<1>6. CASE MarkWorkspace(c) \/ MarkAgent(c)
  <2>1. UNCHANGED effects /\ \E r, then, otherwise : Write(c, r, then, otherwise)
    BY <1>6 DEF MarkWorkspace, MarkAgent
  <2>2. QED
    BY <1>0, <2>1, WriteEffect DEF Local
<1>7. CASE Provision(c) \/ Spawn(c) \/ Prompt(c)
  <2>1. pc[c] \in Running
    BY <1>7 DEF Provision, Spawn, Prompt, Running
  <2>2. QED
    BY <1>0, <1>7, <2>1 DEF Provision, Spawn, Prompt, Local
<1>8. CASE WorkspaceReady(c) \/ AgentReady(c) \/ AgentCreated(c)
  <2>1. mem[c] \in Record
    BY <1>8, RunnerHolds DEF WorkspaceReady, AgentReady, AgentCreated, Running
  <2>2. CASE UNCHANGED <<disk, effects>> /\ \A a \in Actors : a # c => mem'[a] = mem[a]
    BY <2>2 DEF Local
  <2>3. CASE WorkspaceReady(c)
    BY <1>4, <2>1, <2>2, <2>3, UpdatesTyped DEF WorkspaceReady, Throw
  <2>4. CASE AgentReady(c)
    <3>1. ASSUME NEW f \in {None, "prompt"},
                 Publish(c, [mem[c] EXCEPT !.inFlight = f, !.phase = "agent_ready", !.agent = TRUE],
                         "started", "failing")
          PROVE  Local(c)
      <4>1. [mem[c] EXCEPT !.inFlight = f, !.phase = "agent_ready", !.agent = TRUE] \in Record
        BY <2>1, UpdatesTyped
      <4>2. QED
        BY <1>4, <2>4, <3>1, <4>1 DEF AgentReady
    <3>2. QED
      BY <2>2, <2>4, <3>1 DEF AgentReady, Throw
  <2>5. CASE AgentCreated(c)
    <3> DEFINE r == [mem[c] EXCEPT !.inFlight = None]
    <3>1. [r EXCEPT !.phase = "prompt_started"] \in Record
      <4>1. r \in Record
        BY <2>1, UpdatesTyped
      <4>2. QED
        BY <4>1, UpdatesTyped
    <3>2. CASE Publish(c, [r EXCEPT !.phase = "prompt_started"], "running", "failing")
      BY <1>4, <2>5, <3>1, <3>2 DEF AgentCreated
    <3>3. QED
      BY <1>0, <2>2, <2>5, <3>2 DEF AgentCreated
  <2>6. QED
    BY <1>8, <2>3, <2>4, <2>5
<1>9. CASE Complete(c) \/ FailRun(c)
  <2>1. UNCHANGED <<legacy, claim, registered, effects>>
    BY <1>9 DEF Complete, FailRun, PublishLast, DiskFails
  <2>2. \A j \in Identities \ {IdentityOf[c]} : record'[j] = record[j]
    BY <1>0, <1>9 DEF Complete, FailRun, PublishLast, DiskFails
  <2>3. \A a \in Actors : a # c => mem'[a] = mem[a]
    BY <1>0, <1>9 DEF Complete, FailRun, PublishLast, Settle
  <2>4. QED
    BY <2>1, <2>2, <2>3 DEF Local
<1>10. QED
  BY <1>1, <1>2, <1>3, <1>5, <1>6, <1>7, <1>8, <1>9 DEF Step

\* The receipts of an older daemon stay what they are, and nobody runs them.
LEMMA InitLegacies == Init => Legacies
  BY ActorsDiffer DEF Init, Legacies, LegacySound, Holding, Entered, Admitting, Running

LEMMA AdmitLegacies ==
    ASSUME Typed, Ownership, Legacies, NEW c \in Calls, Admit(c), legacy[IdentityOf[c]] # None
    PROVE  /\ pc'[c] \notin Holding
           /\ LegacySound(IdentityOf[c])'
<1> DEFINE i == IdentityOf[c]
           r == record[i]
<1>0. /\ i \in Identities /\ LegacySound(i) /\ c \in Actors /\ pc[c] = "queued"
      /\ Plan[c].kind = "agent" /\ legacy \in Receipts
      /\ pc \in [Actors -> CallPlaces \cup SubscriberPlaces]
      /\ record \in [Identities -> Record \cup {None}]
  BY CreationAssumption, ActorsDiffer, PlacesType DEF Legacies, Admit, Typed, TypeOK
<1>1. UNCHANGED <<legacy, active, provisions, spawns, prompts>>
  BY StepLocal DEF Local, Step, Admit, effects
<1>2. {"answered", "joined"} \cap Holding = {}
  BY DEF Holding, Entered, Admitting, Running
<1>3. CASE record' = record /\ \E p \in {"answered", "joined"} : pc' = [pc EXCEPT ![c] = p]
  BY <1>0, <1>1, <1>2, <1>3 DEF LegacySound
<1>4. CASE r = None /\ ImportLegacy(c)
  <2> DEFINE exists == legacy[i].agent \in registered
             m == Imported(c, legacy[i], exists)
  <2>1. m \in Record
    <3>1. exists \in BOOLEAN
      OBVIOUS
    <3>2. QED
      BY <1>0, <3>1, InitialTyped, Zenon
  <2>2. /\ m.inFlight = None /\ m.agentId = legacy[i].agent
        /\ IsSettled(m)
    BY DEF Imported, InitialRecord, IsSettled
  <2>3. \/ record' = record /\ pc' = [pc EXCEPT ![c] = "answered"]
        \/ record' = [record EXCEPT ![i] = m] /\ pc' = [pc EXCEPT ![c] = "answered"]
    BY <1>4, <2>2 DEF ImportLegacy, KeyConflict, Answer, DiskFails, disk
  <2> HIDE DEF m
  <2>4. CASE record' = [record EXCEPT ![i] = m] /\ pc' = [pc EXCEPT ![c] = "answered"]
    BY <1>0, <1>1, <1>2, <2>2, <2>4 DEF LegacySound
  <2>5. QED
    BY <1>3, <2>3, <2>4
<1>5. QED
  <2>1. r # None => IsSettled(r) /\ active[i] = None
    BY <1>0 DEF LegacySound
  <2>2. QED
    BY <1>0, <1>3, <1>4, <2>1 DEF Admit, KeyConflict, Join, Replay, Answer, DiskFails, disk

LEMMA NextLegacies ==
    ASSUME Typed, Ownership, Legacies, [Next]_vars PROVE Legacies'
<1>0. \A c \in Calls : c \in Actors /\ IdentityOf[c] \in Identities
  BY ActorsDiffer
<1>1. ASSUME NEW c \in Calls, Step(c) PROVE Legacies'
  <2> DEFINE i == IdentityOf[c]
  <2>1. Local(c) /\ Owned(c)
    BY <1>1, StepLocal, StepOwned
  <2>2. \A j \in Identities \ {i} : legacy[j] # None => LegacySound(j)'
    BY <2>1 DEF Local, Owned, Legacies, LegacySound
  <2>3. \A a \in Actors : a # c /\ pc'[a] \in Holding => pc[a] \in Holding
    <3>1. "answered" \notin Holding
      BY DEF Holding, Entered, Admitting, Running
    <3>2. QED
      BY <1>1, <3>1, StepPlaces
  <2>4. CASE legacy[i] = None
    BY <2>1, <2>2, <2>3, <2>4 DEF Legacies, Local
  <2>5. CASE legacy[i] # None
    <3>1. pc[c] \notin Holding
      BY <1>0, <2>5 DEF Legacies
    <3>2. Admit(c)
      BY <1>1, <3>1 DEF Holding, Entered, Admitting, Running, Step, Interrupted, RecordIdentity, Claim,
         Start, RejectReset, MarkWorkspace, Provision, WorkspaceReady, MarkAgent, Spawn, AgentReady,
         Prompt, AgentCreated, Complete, FailRun
    <3>3. QED
      BY <1>0, <2>1, <2>2, <2>3, <2>5, <3>2, AdmitLegacies DEF Legacies, Local
  <2>6. QED
    BY <2>4, <2>5
<1>2. ASSUME UNCHANGED <<legacy, provisions, spawns, prompts>>,
             \A i \in Identities : active'[i] \in {active[i], None},
             \A i \in Identities : legacy[i] # None => record'[i] = record[i],
             \A a \in Actors : pc'[a] \in Holding => legacy[IdentityOf[a]] = None
      PROVE  Legacies'
  BY <1>2 DEF Legacies, LegacySound
<1>3. ASSUME NEW c \in Calls, Create(c) PROVE Legacies'
  <2>1. "queued" \notin Holding
    BY DEF Holding, Entered, Admitting, Running
  <2>2. \A a \in Actors : pc'[a] \in Holding => legacy[IdentityOf[a]] = None
    BY <1>3, <2>1 DEF Create, Typed, TypeOK, Legacies
  <2>3. QED
    BY <1>2, <1>3, <2>2 DEF Create, disk, effects
<1>4. ASSUME NEW s \in Subscribers, Subscribe(s) \/ Look(s) \/ Flag(s) \/ Unsubscribe(s)
      PROVE  Legacies'
  <2>0. s \in Actors /\ IdentityOf[s] \in Identities
    BY ActorsDiffer
  <2>1. UNCHANGED <<legacy, active, provisions, spawns, prompts>>
    BY <1>4 DEF Subscribe, Look, Flag, Unsubscribe, Publish, DiskFails, disk, effects
  <2>2. \A i \in Identities : legacy[i] # None => record'[i] = record[i]
    <3>1. Flag(s) => legacy[IdentityOf[s]] = None
      BY <2>0 DEF Flag, Legacies, Holding
    <3>2. QED
      BY <1>4, <2>0, <3>1 DEF Subscribe, Look, Flag, Unsubscribe, Publish, DiskFails, disk, Typed, TypeOK
  <2>3. \A a \in Actors : a # s => pc'[a] = pc[a]
    BY <1>4, <2>0 DEF Subscribe, Look, Flag, Unsubscribe, Publish, Typed, TypeOK
  <2>4. pc'[s] \in Holding => legacy[IdentityOf[s]] = None
    <3>1. {"waiting", "watching", "answered"} \cap Holding = {}
      BY DEF Holding, Entered, Admitting, Running
    <3>2. CASE Look(s) /\ pc'[s] = "flagging"
      BY <2>0, <3>2 DEF Look, Legacies, LegacySound, Typed, TypeOK
    <3>3. QED
      BY <1>4, <2>0, <3>1, <3>2 DEF Subscribe, Look, Flag, Unsubscribe, Publish, Typed, TypeOK
  <2>5. QED
    BY <1>2, <2>1, <2>2, <2>3, <2>4 DEF Legacies
<1>5. CASE UNCHANGED <<legacy, record, active, pc, provisions, spawns, prompts>>
  BY <1>2, <1>5 DEF Legacies
<1>6. CASE Crash
  <2>1. \A a \in Actors : pc'[a] \notin Holding
    BY <1>6 DEF Crash, Holding, Entered, Admitting, Running, Answered
  <2>2. QED
    BY <1>2, <1>6, <2>1 DEF Crash, disk, effects
<1>7. QED
  BY <1>1, <1>3, <1>4, <1>5, <1>6 DEF Next, Delete, vars, effects

LEMMA AlwaysFounded == Spec => [](Typed /\ Turns /\ Ownership /\ Legacies)
<1>1. Typed /\ Ownership /\ Legacies /\ [Next]_vars => Legacies'
  BY NextLegacies
<1>2. QED
  BY <1>1, AlwaysOwned, InitLegacies, PTL DEF Spec

\* The receipt of an older daemon is imported and never executed.
THEOREM ReceiptsNeverRun == Spec => []LegacyNeverRuns
<1>1. Legacies => LegacyNeverRuns
  BY DEF Legacies, LegacySound, LegacyNeverRuns
<1>2. QED
  BY <1>1, AlwaysFounded, PTL

-----------------------------------------------------------------------------
\* What the journal says of other creations survives a step of a call.
Founded == Typed /\ Turns /\ Ownership /\ Legacies

LEMMA ClaimsStay ==
    ASSUME Typed, NEW i \in Identities, record[i] # None, ClaimsHeld(i),
           record'[i] # None, SameIds(record'[i], record[i]),
           \A id \in Ids : claim[id] \in Identities => claim'[id] = claim[id]
    PROVE  ClaimsHeld(i)'
<1>1. record[i] \in Record
  BY DEF Typed, TypeOK
<1>2. /\ record[i].request.kind = "workspace" => record[i].workspaceId \in Ids
      /\ record[i].agentId # None => record[i].agentId \in Ids
  BY <1>1 DEF Record, Ids
<1>3. QED
  BY <1>2 DEF ClaimsHeld, SameIds

LEMMA RunsFromClaiming ==
    ASSUME Typed, NEW c \in Calls, Step(c), pc[c] \notin Running, pc'[c] \in Running
    PROVE  Start(c)
<1>1. c \in Actors /\ pc \in [Actors -> CallPlaces \cup SubscriberPlaces]
  BY ActorsDiffer, PlacesType DEF Typed, TypeOK
<1>2. ~(Interrupted(c) \/ RecordIdentity(c) \/ Claim(c) \/ RejectReset(c))
  BY <1>1 DEF Interrupted, RecordIdentity, Claim, RejectReset, Answer, Running
<1>3. ~Admit(c)
  BY StepPlaces DEF Admit
<1>4. QED
  BY <1>2, <1>3 DEF Step, Running, MarkWorkspace, Provision, WorkspaceReady, MarkAgent, Spawn,
     AgentReady, Prompt, AgentCreated, Complete, FailRun

LEMMA OthersSound ==
    ASSUME Founded, Journal, NEW c \in Calls, Step(c)
    PROVE  /\ \A j \in Identities : j # IdentityOf[c] => IdentitySound(j)'
           /\ \A d \in Calls : d # c => CallSound(d)'
           /\ \A d \in Calls : d # c /\ pc'[d] = "interrupted" => CutOffSound(d)'
           /\ \A s \in Subscribers : IdentityOf[s] # IdentityOf[c] /\ pc'[s] = "flagging" =>
                CutOffSound(s)'
<1> DEFINE i == IdentityOf[c]
<1>0. /\ Typed /\ Turns /\ Ownership /\ i \in Identities /\ c \in Actors
      /\ \A a \in Actors : IdentityOf[a] \in Identities
      /\ Calls \subseteq Actors /\ Subscribers \subseteq Actors
      /\ c # None /\ \A s \in Subscribers : s # c
  BY ActorsDiffer, NoneApart DEF Founded
<1>1. Local(c) /\ Owned(c)
  BY <1>0, StepLocal, StepOwned
<1>2. /\ pc[c] \in Admitting \cup Running
      /\ pc[c] = "queued" => Admitted(c)
      /\ \A a \in Actors : a # c =>
            pc'[a] = pc[a] \/ (pc[c] \in Running /\ pc[a] = "joined" /\ pc'[a] = "answered")
  BY <1>0, StepPlaces
<1>3. ASSUME NEW j \in Identities, j # i PROVE IdentitySound(j)'
  <2>1. /\ record'[j] = record[j] /\ active'[j] = active[j] /\ legacy' = legacy
        /\ provisions'[j] = provisions[j] /\ spawns'[j] = spawns[j] /\ prompts'[j] = prompts[j]
    BY <1>1, <1>3 DEF Local, Owned
  <2>2. record[j] # None /\ ClaimsHeld(j) => ClaimsHeld(j)'
    BY <1>0, <1>1, <2>1, ClaimsStay DEF Local, SameIds
  <2>3. IdentitySound(j)
    BY <1>3 DEF Journal
  <2>4. Own(j)' => RecordSound(j)'
    <3>1. Own(j)' => Own(j) /\ RecordSound(j)
      BY <2>1, <2>3 DEF IdentitySound, Own
    <3>2. QED
      BY <2>1, <2>2, <3>1 DEF RecordSound, OffReceipts, Exact, Did, Own
  <2>5. QED
    BY <2>1, <2>3, <2>4 DEF IdentitySound, Did
<1>4. ASSUME NEW d \in Calls, d # c, pc[d] \in Entered PROVE IdentityOf[d] # i
  <2>1. pc[c] \in Running
    BY <1>0, <1>2, <1>4, Alone
  <2>2. QED
    BY <1>0, <1>4, <2>1 DEF Ownership, OneRunner
<1>5. ASSUME NEW d \in Calls, d # c PROVE CallSound(d)'
  <2> DEFINE j == IdentityOf[d]
  <2>0. d \in Actors /\ j \in Identities /\ CallSound(d) /\ mem'[d] = mem[d] /\ legacy' = legacy
    BY <1>0, <1>1, <1>5 DEF Local, Journal
  <2>1. "answered" \notin Entered \cup Running
    BY DEF Entered, Admitting, Running
  <2>2. ASSUME pc'[d] \in Entered PROVE AdmissionSound(d)'
    <3>1. pc[d] \in Entered /\ pc'[d] = pc[d]
      BY <1>2, <1>5, <2>0, <2>1, <2>2
    <3>2. record'[j] = record[j]
      BY <1>1, <1>4, <1>5, <2>0, <3>1 DEF Local
    <3>3. QED
      BY <2>0, <3>1, <3>2 DEF CallSound, AdmissionSound, OffReceipts
  <2>3. ASSUME pc'[d] \in Running PROVE RunnerSound(d)'
    <3>1. pc[d] \in Running /\ pc'[d] = pc[d]
      BY <1>2, <1>5, <2>0, <2>1, <2>3
    <3>2. /\ record'[j] = record[j] /\ registered \subseteq registered'
          /\ provisions'[j] = provisions[j] /\ spawns'[j] = spawns[j] /\ prompts'[j] = prompts[j]
      <4>1. CASE j # i
        BY <1>1, <2>0, <4>1 DEF Local
      <4>2. CASE j = i
        <5>1. active[i] = d /\ pc[c] \notin Running
          BY <1>0, <1>5, <3>1, <4>2 DEF Ownership, OneRunner
        <5>2. record[i] # None /\ d # None /\ pc[c] \notin Entered
          BY <1>0, <5>1, NoneApart DEF Ownership
        <5>3. Admit(c)
          BY <1>2, <5>1, <5>2 DEF Entered, Step, Admitting, Running, Interrupted, RecordIdentity, Claim,
             Start, RejectReset, MarkWorkspace, Provision, WorkspaceReady, MarkAgent, Spawn,
             AgentReady, Prompt, AgentCreated, Complete, FailRun
        <5>4. record' = record /\ UNCHANGED effects
          BY <5>2, <5>3 DEF Admit, KeyConflict, Join, Replay, DiskFails, disk
        <5>5. QED
          BY <1>1, <5>4 DEF Local, effects
      <4>3. QED
        BY <4>1, <4>2
    <3>3. RunnerSound(d)
      BY <2>0, <3>1 DEF CallSound
    <3>4. OutcomeUnknown(mem[d], FALSE) => OutcomeUnknown(mem[d], FALSE)'
      BY <2>0, <3>2 DEF OutcomeUnknown
    <3>5. QED
      BY <2>0, <3>1, <3>2, <3>3, <3>4 DEF RunnerSound, Exact, Did
  <2>4. QED
    BY <2>2, <2>3 DEF CallSound
<1>6. ASSUME NEW a \in Actors, a # c, pc'[a] \in {"flagging", "interrupted"},
             IdentityOf[a] # i
      PROVE  CutOffSound(a)'
  <2>1. pc'[a] = pc[a] /\ mem'[a] = mem[a] /\ CutOffSound(a)
    BY <1>1, <1>2, <1>6 DEF Local, Journal
  <2>2. record'[IdentityOf[a]] = record[IdentityOf[a]] /\ active'[IdentityOf[a]] = active[IdentityOf[a]]
    BY <1>0, <1>1, <1>6 DEF Local, Owned
  <2>3. QED
    BY <2>1, <2>2 DEF CutOffSound
<1>7. ASSUME NEW d \in Calls, d # c, pc'[d] = "interrupted" PROVE CutOffSound(d)'
  <2>1. pc[d] = "interrupted" /\ "interrupted" \in Entered
    BY <1>0, <1>2, <1>7 DEF Entered, Admitting
  <2>2. QED
    BY <1>0, <1>4, <1>6, <1>7, <2>1
<1>8. QED
  BY <1>0, <1>3, <1>5, <1>6, <1>7

\* What remains to show of a step of a call: its own creation.
LEMMA HereSound ==
    ASSUME Founded, Journal, NEW c \in Calls, Step(c),
           IdentitySound(IdentityOf[c])', CallSound(c)',
           pc'[c] = "interrupted" => CutOffSound(c)',
           pc[c] \notin Running => \A s \in Subscribers :
                pc[s] = "flagging" /\ IdentityOf[s] = IdentityOf[c] =>
                    /\ record'[IdentityOf[c]].inFlight # None
                    /\ record'[IdentityOf[c]].phase # "completed"
                    /\ SameIds(record'[IdentityOf[c]], record[IdentityOf[c]])
    PROVE  Journal'
<1> DEFINE i == IdentityOf[c]
<1>0. /\ Typed /\ Ownership /\ i \in Identities /\ c # None
      /\ \A s \in Subscribers : s # c /\ s \in Actors
      /\ Actors = Calls \cup Subscribers
  BY ActorsDiffer, NoneApart DEF Founded, Actors
<1>1. Local(c) /\ Owned(c)
  BY <1>0, StepLocal, StepOwned
<1>2. ASSUME NEW s \in Subscribers, pc'[s] = "flagging", IdentityOf[s] = i PROVE CutOffSound(s)'
  <2>1. pc[s] = "flagging" /\ mem'[s] = mem[s]
    BY <1>0, <1>1, <1>2, StepPlaces DEF Local
  <2>2. CutOffSound(s)
    BY <1>0, <2>1 DEF Journal
  <2>3. pc[c] \notin Running
    BY <1>0, <1>2, <2>2 DEF CutOffSound, Ownership, OneRunner
  <2>4. record'[i] # None /\ active'[i] = None
    <3>1. pc'[c] \notin Running
      <4>1. pc'[c] \in Running => pc[c] = "claiming"
        BY <1>0, <2>3, RunsFromClaiming DEF Start
      <4>2. pc[c] = "claiming" => record[i].inFlight = None
        BY DEF Journal, CallSound, AdmissionSound, Entered, Admitting
      <4>3. QED
        BY <1>2, <2>2, <4>1, <4>2 DEF CutOffSound
    <3>2. QED
      BY <1>1, <1>2, <2>2, <2>3, <3>1 DEF Owned, CutOffSound
  <2>5. QED
    BY <1>2, <2>1, <2>2, <2>3, <2>4 DEF CutOffSound, SameIds
<1>3. ASSUME NEW a \in Actors, pc'[a] \in {"flagging", "interrupted"} PROVE CutOffSound(a)'
  <2>1. CASE a \in Subscribers
    <3>1. pc'[a] = "flagging"
      <4>1. pc[a] \in SubscriberPlaces /\ pc'[a] \in {pc[a], "answered"}
        BY <1>0, <2>1, StepPlaces DEF Typed, Seats
      <4>2. QED
        BY <1>3, <4>1 DEF SubscriberPlaces, Answered, Observing
    <3>2. QED
      BY <1>2, <2>1, <3>1, OthersSound
  <2>2. CASE a \in Calls
    <3>1. pc'[a] = "interrupted"
      <4>1. pc'[a] \in CallPlaces
        BY <1>0, <2>2, NextTyped DEF Typed, Seats, Next
      <4>2. QED
        BY <1>3, <4>1 DEF CallPlaces, Answered, Admitting, Running
    <3>2. QED
      BY <2>2, <3>1, OthersSound
  <2>3. QED
    BY <1>0, <2>1, <2>2
<1>4. QED
  BY <1>3, OthersSound DEF Journal

\* What a runner can rely on.
LEMMA RunnerFacts ==
    ASSUME Founded, Journal, NEW c \in Calls, pc[c] \in Running
    PROVE  LET i == IdentityOf[c] IN
           /\ Typed /\ c \in Actors /\ i \in Identities
           /\ mem[c] \in Record /\ record[i] \in Record /\ record[i] # None
           /\ mem \in [Actors -> Record \cup {None}] /\ record \in [Identities -> Record \cup {None}]
           /\ pc \in [Actors -> CallPlaces \cup SubscriberPlaces]
           /\ active \in [Identities -> Calls \cup {None}] /\ active[i] = c
           /\ legacy[i] = None
           /\ RecordSound(i) /\ RunnerSound(c) /\ ClaimsHeld(i)
           /\ provisions \in [Identities -> Nat] /\ spawns \in [Identities -> Nat]
           /\ prompts \in [Identities -> Nat]
           /\ provisions[i] \in {0, 1} /\ spawns[i] \in {0, 1} /\ prompts[i] \in {0, 1}
<1> DEFINE i == IdentityOf[c]
<1>1. Typed /\ Ownership /\ Legacies /\ c \in Actors /\ i \in Identities /\ c # None
  BY ActorsDiffer, NoneApart DEF Founded
<1>2. active[i] = c /\ record[i] # None /\ mem[c] # None /\ legacy[i] = None
  BY <1>1 DEF Ownership, OneRunner, Typed, Seats, Holding, Legacies
<1>3. IdentitySound(i) /\ CallSound(c)
  BY <1>1 DEF Journal
<1>4. RecordSound(i) /\ RunnerSound(c) /\ ClaimsHeld(i)
  BY <1>1, <1>2, <1>3 DEF IdentitySound, CallSound, RecordSound, Own
<1>5. QED
  BY <1>1, <1>2, <1>3, <1>4, PlacesType DEF Typed, TypeOK, IdentitySound

\* A creation whose runner goes on is sound when its effects are, and what the
\* record says of them.
LEMMA RunnerIdentity ==
    ASSUME Founded, Journal, NEW c \in Calls, pc[c] \in Running, Step(c),
           NEW r \in Record, record'[IdentityOf[c]] = r, SameIds(r, record[IdentityOf[c]]),
           {provisions'[IdentityOf[c]], spawns'[IdentityOf[c]], prompts'[IdentityOf[c]]}
                \subseteq {0, 1},
           r.inFlight = None /\ ~r.outcomeUnknown => Exact(IdentityOf[c], r)',
           r.phase = "completed" =>
                r.inFlight = None /\ ~r.outcomeUnknown /\ ~NeedsWorkspace(r) /\ ~NeedsAgent(r)
    PROVE  IdentitySound(IdentityOf[c])'
<1> DEFINE i == IdentityOf[c]
<1>1. /\ Typed /\ i \in Identities /\ record[i] # None /\ r # None /\ RecordSound(i) /\ ClaimsHeld(i)
  BY RunnerFacts, NoneApart
<1>2. legacy' = legacy /\ \A id \in Ids : claim[id] \in Identities => claim'[id] = claim[id]
  BY <1>1, StepLocal DEF Local
<1>3. ClaimsHeld(i)'
  BY <1>1, <1>2, ClaimsStay
<1>4. OffReceipts(record[i]) => OffReceipts(r)'
  BY <1>2 DEF OffReceipts, SameIds
<1>5. RecordSound(i)'
  BY <1>1, <1>3, <1>4 DEF RecordSound, Exact
<1>6. QED
  BY <1>1, <1>5 DEF IdentitySound

\* A runner says what it is about to do before it does it.
LEMMA MarkSound ==
    ASSUME Founded, Journal, NEW c \in Calls, pc[c] \in Running,
           MarkWorkspace(c) \/ MarkAgent(c)
    PROVE  IdentitySound(IdentityOf[c])' /\ CallSound(c)'
<1> DEFINE i == IdentityOf[c]
<1> PICK m \in Record : m = mem[c]
  BY RunnerFacts
<1>0. Step(c)
  BY DEF Step
<1>1. /\ Typed /\ c \in Actors /\ i \in Identities /\ m \in Record /\ m = record[i]
      /\ mem \in [Actors -> Record \cup {None}] /\ record \in [Identities -> Record \cup {None}]
      /\ pc \in [Actors -> CallPlaces \cup SubscriberPlaces]
      /\ m.inFlight = None /\ ~m.outcomeUnknown /\ m.phase # "completed" /\ Exact(i, m)
      /\ provisions[i] \in {0, 1} /\ spawns[i] \in {0, 1} /\ prompts[i] \in {0, 1}
  BY RunnerFacts, ZenonT(40) DEF RunnerSound, RecordSound, MarkWorkspace, MarkAgent
<1>2. PICK f \in {"workspace", "agent"}, p \in {"provisioning", "creating"} :
        /\ Write(c, [m EXCEPT !.inFlight = f], p, "failing")
        /\ UNCHANGED <<effects, active>>
        /\ f = "workspace" => p = "provisioning" /\ ~m.workspace
        /\ f = "agent" => p = "creating" /\ ~m.agent
  BY DEF MarkWorkspace, MarkAgent, NeedsWorkspace, NeedsAgent
<1> DEFINE next == [m EXCEPT !.inFlight = f]
<1>3. /\ next \in Record /\ SameIds(next, m) /\ next.inFlight = f
      /\ next.phase = m.phase /\ next.outcomeUnknown = m.outcomeUnknown
      /\ next.workspace = m.workspace /\ next.agent = m.agent
  <2>1. next \in Record
    BY <1>1, UpdatesTyped
  <2>2. QED
    BY <1>1, <2>1 DEF SameIds, Record
<1>4. /\ mem' = [mem EXCEPT ![c] = next] /\ UNCHANGED <<legacy, claim, registered, effects>>
      /\ \/ record' = [record EXCEPT ![i] = next] /\ pc' = [pc EXCEPT ![c] = p]
         \/ record' = record /\ pc' = [pc EXCEPT ![c] = "failing"]
  BY <1>1, <1>2, WriteEffect
<1> HIDE DEF next
<1>5. f # None
  BY NoneAssumption
<1>6. Exact(i, m)' /\ Exact(i, next)' /\ Exact(i, next)
  BY <1>1, <1>3, <1>4 DEF Exact, Did, effects, SameIds
<1>7. IdentitySound(i)'
  <2>1. record'[i] \in {next, m} /\ SameIds(m, m)
    BY <1>1, <1>4 DEF SameIds
  <2>2. \A r \in {next, m} : /\ r \in Record /\ SameIds(r, record[i])
                             /\ r.phase # "completed" /\ Exact(i, r)'
    BY <1>1, <1>3, <1>6, <2>1
  <2>3. {provisions'[i], spawns'[i], prompts'[i]} \subseteq {0, 1}
    BY <1>1, <1>4 DEF effects
  <2>4. QED
    BY <1>0, <2>1, <2>2, <2>3, RunnerIdentity
<1>8. CallSound(c)'
  <2>1. CASE record' = [record EXCEPT ![i] = next] /\ pc' = [pc EXCEPT ![c] = p]
    <3>1. pc'[c] = p /\ mem'[c] = next /\ record'[i] = next
      BY <1>1, <1>4, <2>1
    <3>2. RunnerSound(c)'
      BY <1>1, <1>2, <1>3, <1>6, <3>1 DEF RunnerSound, SameIds, Exact
    <3>3. QED
      BY <1>2, <3>1, <3>2 DEF CallSound, Entered, Admitting
  <2>2. CASE record' = record /\ pc' = [pc EXCEPT ![c] = "failing"]
    <3>1. pc'[c] = "failing" /\ mem'[c] = next /\ record'[i] = m
      BY <1>1, <1>4, <2>2
    <3>2. RunnerSound(c)'
      BY <1>1, <1>2, <1>3, <1>6, <3>1 DEF RunnerSound, SameIds, Exact
    <3>3. QED
      BY <3>1, <3>2 DEF CallSound, Entered, Admitting
  <2>3. QED
    BY <1>4, <2>1, <2>2
<1>9. QED
  BY <1>7, <1>8

\* What a runner does to the world, before the journal says it was done.
LEMMA EffectSound ==
    ASSUME Founded, Journal, NEW c \in Calls, pc[c] \in Running,
           Provision(c) \/ Spawn(c) \/ Prompt(c)
    PROVE  IdentitySound(IdentityOf[c])' /\ CallSound(c)'
<1> DEFINE i == IdentityOf[c]
<1> PICK m \in Record : m = mem[c]
  BY RunnerFacts
<1>0. Step(c)
  BY DEF Step
<1>1. /\ Typed /\ c \in Actors /\ i \in Identities /\ m \in Record /\ m = record[i]
      /\ pc \in [Actors -> CallPlaces \cup SubscriberPlaces]
      /\ m.phase # "completed" /\ ~m.outcomeUnknown /\ m.workspace \in BOOLEAN
      /\ provisions[i] \in {0, 1} /\ spawns[i] \in {0, 1} /\ prompts[i] \in {0, 1}
      /\ provisions \in [Identities -> Nat] /\ spawns \in [Identities -> Nat]
      /\ prompts \in [Identities -> Nat]
      /\ RunnerSound(c) /\ RecordSound(i)
  <2>1. pc[c] \in {"provisioning", "creating", "started"}
    BY DEF Provision, Spawn, Prompt
  <2>2. RunnerSound(c) /\ RecordSound(i)
    BY RunnerFacts
  <2>3. m = record[i] /\ m.phase # "completed" /\ ~m.outcomeUnknown
    BY <2>1, <2>2 DEF RunnerSound
  <2>4. m.workspace \in BOOLEAN
    BY DEF Record
  <2>5. QED
    BY <2>2, <2>3, <2>4, RunnerFacts
<1>2. mem' = mem /\ record' = record
  BY DEF Provision, Spawn, Prompt, disk
<1>3. SameIds(m, m)
  BY DEF SameIds
<1>4. /\ {provisions'[i], spawns'[i], prompts'[i]} \subseteq {0, 1}
      /\ m.inFlight = None => Exact(i, m)'
      /\ CallSound(c)'
  <2>1. CASE Provision(c)
    <3>1. m.inFlight = "workspace" /\ ~m.workspace /\ Exact(i, m)
      BY <1>1, <2>1 DEF RunnerSound, Provision
    <3>2. \/ pc' = [pc EXCEPT ![c] = "refused"] /\ UNCHANGED effects
          \/ /\ \E p \in {"failing", "provisioned"} : pc' = [pc EXCEPT ![c] = p]
             /\ provisions' = [provisions EXCEPT ![i] = @ + 1] /\ UNCHANGED <<spawns, prompts>>
      BY <2>1 DEF Provision, effects
    <3>3. CASE pc' = [pc EXCEPT ![c] = "refused"] /\ UNCHANGED effects
      BY <1>1, <1>2, <1>3, <3>1, <3>3, NoneAssumption
      DEF CallSound, RunnerSound, Entered, Admitting, Exact, Did, effects
    <3>4. ASSUME NEW p \in {"failing", "provisioned"}, pc' = [pc EXCEPT ![c] = p],
                 provisions' = [provisions EXCEPT ![i] = @ + 1], UNCHANGED <<spawns, prompts>>
          PROVE  <1>4!1 /\ <1>4!2 /\ <1>4!3
      <4>1. provisions'[i] = 1 /\ Did(i, TRUE, m.agent, m.agent /\ m.request.hasPrompt)'
        BY <1>1, <3>1, <3>4 DEF Exact, Did, Done
      <4>2. OutcomeUnknown(m, FALSE)'
        BY <3>1 DEF OutcomeUnknown
      <4>3. QED
        BY <1>1, <1>2, <1>3, <3>1, <3>4, <4>1, <4>2, NoneAssumption
        DEF CallSound, RunnerSound, Entered, Admitting
    <3>5. QED
      BY <3>2, <3>3, <3>4
  <2>2. CASE Spawn(c)
    <3>1. m.inFlight = "agent" /\ ~m.agent /\ Exact(i, m)
      BY <1>1, <2>2 DEF RunnerSound, Spawn
    <3>2. CASE pc' = [pc EXCEPT ![c] = "failing"] /\ UNCHANGED effects
      BY <1>1, <1>2, <1>3, <3>1, <3>2, NoneAssumption
      DEF CallSound, RunnerSound, Entered, Admitting, Exact, Did, effects
    <3>3. CASE /\ pc' = [pc EXCEPT ![c] = "registered"]
               /\ spawns' = [spawns EXCEPT ![i] = @ + 1] /\ UNCHANGED <<provisions, prompts>>
               /\ registered' = registered \cup {m.agentId}
      <4>1. spawns'[i] = 1 /\ Did(i, m.workspace, TRUE, FALSE)'
        BY <1>1, <3>1, <3>3 DEF Exact, Did, Done
      <4>2. m.agentId \in registered'
        BY <3>3
      <4>3. QED
        BY <1>1, <1>2, <1>3, <3>1, <3>3, <4>1, <4>2, NoneAssumption
        DEF CallSound, RunnerSound, Entered, Admitting
    <3>4. QED
      BY <2>2, <3>2, <3>3 DEF Spawn, effects
  <2>3. CASE Prompt(c)
    <3>1. /\ m.inFlight = IF m.request.hasPrompt THEN "prompt" ELSE None
          /\ m.agent /\ Did(i, m.workspace, TRUE, FALSE)
      BY <1>1, <2>3 DEF RunnerSound, Prompt
    <3>2. CASE /\ m.request.hasPrompt /\ prompts' = [prompts EXCEPT ![i] = @ + 1]
               /\ UNCHANGED <<provisions, spawns>>
               /\ \E p \in {"returned", "failing"} : pc' = [pc EXCEPT ![c] = p]
      <4>1. prompts'[i] = 1 /\ Exact(i, m)'
        BY <1>1, <1>2, <3>1, <3>2 DEF Exact, Did, Done
      <4>2. OutcomeUnknown(m, FALSE)'
        BY <3>1, <3>2 DEF OutcomeUnknown
      <4>3. QED
        BY <1>1, <1>2, <1>3, <3>1, <3>2, <4>1, <4>2
        DEF CallSound, RunnerSound, Entered, Admitting
    <3>3. CASE /\ ~m.request.hasPrompt /\ UNCHANGED effects
               /\ \E p \in {"returned", "failing"} : pc' = [pc EXCEPT ![c] = p]
      <4>1. Exact(i, m)'
        BY <1>1, <1>2, <3>1, <3>3 DEF Exact, Did, Done, effects
      <4>2. QED
        BY <1>1, <1>2, <1>3, <3>1, <3>3, <4>1
        DEF CallSound, RunnerSound, Entered, Admitting, effects
    <3>4. CASE m.request.hasPrompt /\ UNCHANGED effects /\ pc' = [pc EXCEPT ![c] = "failing"]
      <4>1. OutcomeUnknown(m, FALSE)'
        BY <3>1, <3>4 DEF OutcomeUnknown
      <4>2. m.inFlight # None
        BY <3>1, <3>4, NoneAssumption
      <4>3. QED
        BY <1>1, <1>2, <1>3, <3>1, <3>4, <4>1, <4>2
        DEF CallSound, RunnerSound, Entered, Admitting, effects
    <3>5. QED
      BY <1>1, <2>3, <3>2, <3>3, <3>4 DEF Prompt, effects, Record, Request
  <2>4. QED
    BY <2>1, <2>2, <2>3
<1>5. IdentitySound(i)'
  BY <1>0, <1>1, <1>2, <1>3, <1>4, RunnerIdentity
<1>6. QED
  BY <1>4, <1>5

\* A publish of a runner that goes on: sound when what it says has happened, and
\* what it holds then, the written record or the one that could not be written.
LEMMA PublishSound ==
    ASSUME Founded, Journal, NEW c \in Calls, pc[c] \in Running, Step(c),
           UNCHANGED <<effects, active>>,
           NEW r \in Record, NEW p \in {"running", "started"}, Publish(c, r, p, "failing"),
           SameIds(r, mem[c]), r.phase # "completed", ~r.outcomeUnknown,
           mem[c] = record[IdentityOf[c]],
           r.inFlight = None => Exact(IdentityOf[c], r),
           p = "running" => r.inFlight = None,
           p = "started" => /\ Did(IdentityOf[c], r.workspace, TRUE, FALSE) /\ r.agent
                            /\ r.inFlight = IF r.request.hasPrompt THEN "prompt" ELSE None
    PROVE  IdentitySound(IdentityOf[c])' /\ CallSound(c)'
<1> DEFINE i == IdentityOf[c]
<1> PICK m \in Record : m = mem[c]
  BY RunnerFacts
<1>1. /\ Typed /\ c \in Actors /\ i \in Identities /\ m \in Record
      /\ mem \in [Actors -> Record \cup {None}] /\ record \in [Identities -> Record \cup {None}]
      /\ pc \in [Actors -> CallPlaces \cup SubscriberPlaces]
      /\ m.phase # "completed" /\ ~m.outcomeUnknown
      /\ provisions[i] \in {0, 1} /\ spawns[i] \in {0, 1} /\ prompts[i] \in {0, 1}
      /\ m.inFlight = None => Exact(i, m)
  <2>1. RunnerSound(c) /\ Typed /\ c \in Actors /\ i \in Identities
        /\ mem \in [Actors -> Record \cup {None}] /\ record \in [Identities -> Record \cup {None}]
        /\ pc \in [Actors -> CallPlaces \cup SubscriberPlaces]
        /\ provisions[i] \in {0, 1} /\ spawns[i] \in {0, 1} /\ prompts[i] \in {0, 1}
    BY RunnerFacts
  <2>2. m = record[i] /\ RecordSound(i)
    BY RunnerFacts
  <2>3. m.phase # "completed" /\ ~m.outcomeUnknown
    BY <2>1, <2>2 DEF RunnerSound
  <2>4. m.inFlight = None => Exact(i, m)
    BY <2>2, <2>3 DEF RecordSound
  <2>5. QED
    BY <2>1, <2>3, <2>4
<1>2. PICK next \in Record :
        /\ next = [r EXCEPT !.revision = r.revision + 1]
        /\ mem' = [mem EXCEPT ![c] = next]
        /\ UNCHANGED <<legacy, claim, registered>>
        /\ \/ record' = [record EXCEPT ![i] = next] /\ pc' = [pc EXCEPT ![c] = p]
           \/ record' = record /\ pc' = [pc EXCEPT ![c] = "failing"]
  BY <1>1, PublishEffect
<1>3. /\ SameIds(next, r) /\ next.phase = r.phase /\ next.outcomeUnknown = r.outcomeUnknown
      /\ next.inFlight = r.inFlight /\ next.workspace = r.workspace /\ next.agent = r.agent
  BY <1>2 DEF SameIds, Record
<1>4. /\ SameIds(next, m) /\ SameIds(m, m) /\ SameIds(next, next)
      /\ next.request.hasPrompt = r.request.hasPrompt
  BY <1>3 DEF SameIds
<1>5. /\ m.inFlight = None => Exact(i, m)'
      /\ next.inFlight = None => Exact(i, next)'
      /\ p = "started" => Did(i, next.workspace, TRUE, FALSE)'
  <2>1. UNCHANGED <<provisions, spawns, prompts>>
    BY DEF effects
  <2>2. m.inFlight = None => Exact(i, m)'
    BY <1>1, <2>1 DEF Exact, Did
  <2>3. next.inFlight = None => Exact(i, next)'
    BY <1>3, <1>4, <2>1 DEF Exact, Did
  <2>4. p = "started" => Did(i, next.workspace, TRUE, FALSE)'
    BY <1>3, <2>1 DEF Did
  <2>5. QED
    BY <2>2, <2>3, <2>4
<1>6. IdentitySound(i)'
  <2>1. record'[i] \in {next, m}
    BY <1>1, <1>2
  <2>2. \A s \in {next, m} : /\ s \in Record /\ SameIds(s, record[i]) /\ s.phase # "completed"
                             /\ s.inFlight = None => Exact(i, s)'
    BY <1>1, <1>3, <1>4, <1>5
  <2>3. {provisions'[i], spawns'[i], prompts'[i]} \subseteq {0, 1}
    BY <1>1 DEF effects
  <2>4. QED
    BY <2>1, <2>2, <2>3, RunnerIdentity
<1>7. CallSound(c)'
  <2>1. CASE record' = [record EXCEPT ![i] = next] /\ pc' = [pc EXCEPT ![c] = p]
    <3>1. pc'[c] = p /\ mem'[c] = next /\ record'[i] = next
      BY <1>1, <1>2, <2>1
    <3>2. RunnerSound(c)'
      BY <1>3, <1>4, <1>5, <3>1 DEF RunnerSound
    <3>3. QED
      BY <3>1, <3>2 DEF CallSound, Entered, Admitting
  <2>2. CASE record' = record /\ pc' = [pc EXCEPT ![c] = "failing"]
    <3>1. pc'[c] = "failing" /\ mem'[c] = next /\ record'[i] = m
      BY <1>1, <1>2, <2>2
    <3>2. OutcomeUnknown(next, FALSE)' \/ Exact(i, next)'
      <4>1. r.inFlight # None => r.inFlight = "prompt"
        OBVIOUS
      <4>2. QED
        BY <1>3, <1>5, <4>1 DEF OutcomeUnknown
    <3>3. RunnerSound(c)'
      BY <1>1, <1>4, <3>1, <3>2 DEF RunnerSound
    <3>4. QED
      BY <3>1, <3>3 DEF CallSound, Entered, Admitting
  <2>3. QED
    BY <1>2, <2>1, <2>2
<1>8. QED
  BY <1>6, <1>7

\* A runner that fails where it is, and may have left something behind.
LEMMA ThrowSound ==
    ASSUME Founded, Journal, NEW c \in Calls, pc[c] \in Running, Step(c), Throw(c),
           UNCHANGED <<effects, active>>,
           mem[c] = record[IdentityOf[c]], OutcomeUnknown(mem[c], FALSE)
    PROVE  IdentitySound(IdentityOf[c])' /\ CallSound(c)'
<1> DEFINE i == IdentityOf[c]
<1> PICK m \in Record : m = mem[c]
  BY RunnerFacts
<1>1. /\ Typed /\ c \in Actors /\ i \in Identities /\ m \in Record
      /\ pc \in [Actors -> CallPlaces \cup SubscriberPlaces]
      /\ m.phase # "completed" /\ ~m.outcomeUnknown
      /\ provisions[i] \in {0, 1} /\ spawns[i] \in {0, 1} /\ prompts[i] \in {0, 1}
      /\ m.inFlight = None => Exact(i, m)
  BY RunnerFacts, ZenonT(40) DEF RunnerSound, RecordSound
<1>2. pc' = [pc EXCEPT ![c] = "failing"] /\ UNCHANGED <<mem, record, registered, effects>>
  BY DEF Throw, disk
<1>3. SameIds(m, m) /\ OutcomeUnknown(m, FALSE)' /\ (m.inFlight = None => Exact(i, m)')
  BY <1>1, <1>2 DEF SameIds, OutcomeUnknown, Exact, Did, effects
<1>4. IdentitySound(i)'
  BY <1>1, <1>2, <1>3, RunnerIdentity DEF effects
<1>5. CallSound(c)'
  BY <1>1, <1>2, <1>3 DEF CallSound, RunnerSound, Entered, Admitting
<1>6. QED
  BY <1>4, <1>5

\* The journal records what a runner has reached.
LEMMA MilestoneSound ==
    ASSUME Founded, Journal, NEW c \in Calls, pc[c] \in Running,
           WorkspaceReady(c) \/ AgentReady(c) \/ AgentCreated(c)
    PROVE  IdentitySound(IdentityOf[c])' /\ CallSound(c)'
<1> DEFINE i == IdentityOf[c]
<1> PICK m \in Record : m = mem[c]
  BY RunnerFacts
<1>0. Step(c)
  BY DEF Step
<1>1. /\ Typed /\ c \in Actors /\ i \in Identities /\ m \in Record /\ m = record[i]
      /\ mem \in [Actors -> Record \cup {None}]
      /\ pc \in [Actors -> CallPlaces \cup SubscriberPlaces]
      /\ m.phase # "completed" /\ ~m.outcomeUnknown /\ RunnerSound(c) /\ Suits(pc[c], m)
      /\ m.workspace \in BOOLEAN /\ m.agent \in BOOLEAN /\ m.request.hasPrompt \in BOOLEAN
      /\ provisions[i] \in {0, 1} /\ spawns[i] \in {0, 1} /\ prompts[i] \in {0, 1}
  <2>1. /\ Typed /\ c \in Actors /\ i \in Identities /\ m \in Record /\ m = record[i]
        /\ m.phase # "completed" /\ ~m.outcomeUnknown /\ RunnerSound(c)
        /\ mem \in [Actors -> Record \cup {None}]
        /\ pc \in [Actors -> CallPlaces \cup SubscriberPlaces]
        /\ provisions[i] \in {0, 1} /\ spawns[i] \in {0, 1} /\ prompts[i] \in {0, 1}
    BY RunnerFacts, ZenonT(40) DEF RunnerSound, WorkspaceReady, AgentReady, AgentCreated
  <2>2. Suits(pc[c], m)
    BY <2>1 DEF Typed, Seats
  <2>3. QED
    BY <2>1, <2>2 DEF Record, Request
<1>2. CASE WorkspaceReady(c)
  <2> DEFINE r == [m EXCEPT !.inFlight = None, !.phase = "workspace_ready", !.workspace = TRUE]
  <2>1. m.inFlight = "workspace" /\ Did(i, TRUE, m.agent, m.agent /\ m.request.hasPrompt)
    BY <1>1, <1>2 DEF WorkspaceReady, RunnerSound
  <2>2. UNCHANGED <<effects, active>>
    BY <1>2 DEF WorkspaceReady
  <2>3. CASE Throw(c)
    <3>1. OutcomeUnknown(m, FALSE)
      BY <2>1 DEF OutcomeUnknown
    <3>2. QED
      BY <1>0, <1>1, <2>2, <2>3, <3>1, ThrowSound
  <2>4. CASE Publish(c, r, "running", "failing")
    <3>1. /\ r \in Record /\ SameIds(r, m) /\ r.phase # "completed" /\ ~r.outcomeUnknown
          /\ r.inFlight = None /\ r.workspace = TRUE /\ r.agent = m.agent
          /\ r.request = m.request
      <4>1. r \in Record
        BY <1>1, UpdatesTyped
      <4>2. QED
        BY <1>1, <4>1 DEF SameIds, Record
    <3> HIDE DEF r
    <3>2. Exact(i, r)
      BY <2>1, <3>1 DEF Exact
    <3>3. QED
      BY <1>0, <1>1, <2>2, <2>4, <3>1, <3>2, PublishSound
  <2>5. QED
    BY <1>2, <2>3, <2>4 DEF WorkspaceReady
<1>3. CASE AgentReady(c)
  <2> DEFINE f == IF m.request.hasPrompt THEN "prompt" ELSE None
             r == [m EXCEPT !.inFlight = f, !.phase = "agent_ready", !.agent = TRUE]
  <2>1. /\ m.inFlight = "agent" /\ Did(i, m.workspace, TRUE, FALSE) /\ m.agentId \in registered
        /\ m.request.hasAgent
    BY <1>1, <1>3 DEF AgentReady, RunnerSound, Suits
  <2>2. UNCHANGED <<effects, active>>
    BY <1>3 DEF AgentReady
  <2>3. CASE Throw(c)
    <3>1. m.agentId # None
      BY <1>1, <2>1 DEF Record
    <3>2. OutcomeUnknown(m, FALSE)
      BY <2>1, <3>1 DEF OutcomeUnknown
    <3>3. QED
      BY <1>0, <1>1, <2>2, <2>3, <3>2, ThrowSound
  <2>4. CASE Publish(c, r, "started", "failing")
    <3>1. /\ r \in Record /\ SameIds(r, m) /\ r.phase # "completed" /\ ~r.outcomeUnknown
          /\ r.inFlight = f /\ r.workspace = m.workspace /\ r.agent = TRUE
          /\ r.request = m.request
      <4>1. r \in Record
        BY <1>1, UpdatesTyped
      <4>2. QED
        BY <1>1, <4>1, SMTT(30) DEF SameIds, Record
    <3> HIDE DEF r
    <3>2. r.inFlight = None => Exact(i, r)
      BY <1>1, <2>1, <3>1, NoneAssumption DEF Exact, Did
    <3>3. QED
      BY <1>0, <1>1, <2>1, <2>2, <2>4, <3>1, <3>2, PublishSound
  <2>5. QED
    BY <1>3, <2>3, <2>4 DEF AgentReady
<1>4. CASE AgentCreated(c)
  <2>1. /\ m.inFlight = IF m.request.hasPrompt THEN "prompt" ELSE None
        /\ m.agent /\ Exact(i, m)
    BY <1>1, <1>4 DEF AgentCreated, RunnerSound
  <2>2. UNCHANGED <<effects, active>>
    BY <1>4 DEF AgentCreated
  <2> DEFINE r == [m EXCEPT !.inFlight = None]
             s == [r EXCEPT !.phase = "prompt_started"]
  <2>3. CASE r.request.hasPrompt /\ Publish(c, s, "running", "failing")
    <3>1. r \in Record /\ s \in Record
      BY <1>1, UpdatesTyped
    <3>2. /\ SameIds(s, m) /\ s.phase # "completed" /\ ~s.outcomeUnknown
          /\ s.inFlight = None /\ s.workspace = m.workspace /\ s.agent = m.agent
          /\ s.request = m.request
      BY <1>1, <3>1 DEF SameIds, Record
    <3> HIDE DEF r, s
    <3>3. Exact(i, s)
      BY <2>1, <3>2 DEF Exact
    <3>4. QED
      BY <1>0, <1>1, <2>2, <2>3, <3>1, <3>2, <3>3, PublishSound
  <2>4. CASE /\ ~r.request.hasPrompt /\ mem' = [mem EXCEPT ![c] = r]
             /\ pc' = [pc EXCEPT ![c] = "running"] /\ UNCHANGED disk
    <3>1. m.inFlight = None
      BY <1>1, <2>1, <2>4 DEF Record
    <3>2. r = m
      BY <1>1, <3>1 DEF Record
    <3>3. pc'[c] = "running" /\ mem'[c] = m /\ record'[i] = m /\ Exact(i, m)' /\ SameIds(m, m)
      BY <1>1, <2>1, <2>2, <2>4, <3>2 DEF disk, Exact, Did, effects, SameIds
    <3>4. CallSound(c)'
      BY <1>1, <3>1, <3>3 DEF CallSound, RunnerSound, Entered, Admitting
    <3>5. QED
      BY <1>0, <1>1, <2>2, <3>3, <3>4, RunnerIdentity DEF effects
  <2>5. QED
    BY <1>4, <2>3, <2>4 DEF AgentCreated
<1>5. QED
  BY <1>2, <1>3, <1>4

\* The last step of a runner: everything was made, or it failed.
LEMMA EndSound ==
    ASSUME Founded, Journal, NEW c \in Calls, pc[c] \in Running, Complete(c) \/ FailRun(c)
    PROVE  IdentitySound(IdentityOf[c])' /\ CallSound(c)'
<1> DEFINE i == IdentityOf[c]
<1> PICK m \in Record : m = mem[c]
  BY RunnerFacts
<1>0. Step(c)
  BY DEF Step
<1>1. /\ Typed /\ c \in Actors /\ i \in Identities /\ m \in Record /\ record[i] \in Record
      /\ mem \in [Actors -> Record \cup {None}] /\ record \in [Identities -> Record \cup {None}]
      /\ pc \in [Actors -> CallPlaces \cup SubscriberPlaces]
      /\ record[i].phase # "completed" /\ ~record[i].outcomeUnknown /\ RunnerSound(c)
      /\ SameIds(m, record[i])
      /\ {provisions[i], spawns[i], prompts[i]} \subseteq {0, 1}
      /\ record[i].inFlight = None => Exact(i, record[i])
  BY RunnerFacts DEF RunnerSound, RecordSound
<1>2. UNCHANGED effects
  BY DEF Complete, FailRun
<1>3. ASSUME record' = record PROVE IdentitySound(i)'
  <2>1. PICK old \in Record : old = record[i]
    BY <1>1
  <2>2. SameIds(old, old) /\ (old.inFlight = None => Exact(i, old)')
    BY <1>1, <1>2, <2>1 DEF SameIds, Exact, Did, effects
  <2>3. QED
    BY <1>0, <1>1, <1>2, <1>3, <2>1, <2>2, RunnerIdentity DEF effects
<1>4. ASSUME NEW s \in Record, SameIds(s, m), record' = [record EXCEPT ![i] = s],
             s.inFlight = None /\ ~s.outcomeUnknown => Exact(i, s),
             s.phase = "completed" =>
                s.inFlight = None /\ ~s.outcomeUnknown /\ ~NeedsWorkspace(s) /\ ~NeedsAgent(s)
      PROVE  IdentitySound(i)'
  <2>1. record'[i] = s /\ SameIds(s, record[i])
    BY <1>1, <1>4 DEF SameIds
  <2>2. Exact(i, s) => Exact(i, s)'
    BY <1>2 DEF Exact, Did, effects
  <2>3. QED
    BY <1>0, <1>1, <1>2, <1>4, <2>1, <2>2, RunnerIdentity DEF effects
<1>5. pc'[c] = "answered" => CallSound(c)'
  BY DEF CallSound, Entered, Admitting, Running
<1>6. CASE Complete(c)
  <2> DEFINE r == [m EXCEPT !.inFlight = None, !.phase = "completed"]
             s == [r EXCEPT !.revision = r.revision + 1]
  <2>1. /\ m = record[i] /\ m.inFlight = None /\ Exact(i, m)
        /\ ~NeedsWorkspace(m) /\ ~NeedsAgent(m)
    BY <1>1, <1>6 DEF Complete, RunnerSound
  <2>2. r \in Record /\ s \in Record
    BY <1>1, UpdatesTyped
  <2>3. /\ SameIds(s, m) /\ s.inFlight = None /\ ~s.outcomeUnknown /\ s.request = m.request
        /\ s.workspace = m.workspace /\ s.agent = m.agent
    BY <1>1, <2>1, <2>2 DEF SameIds, Record
  <2>4. \/ PublishLast(c, r)
        \/ record' = record /\ mem' = [mem EXCEPT ![c] = s] /\ pc' = [pc EXCEPT ![c] = "failing"]
    BY <1>6 DEF Complete, DiskFails, disk
  <2>5. PublishLast(c, r) => record' = [record EXCEPT ![i] = s] /\ pc'[c] = "answered"
    BY <1>1 DEF PublishLast, Settle
  <2> HIDE DEF r, s
  <2>6. Exact(i, s) /\ ~NeedsWorkspace(s) /\ ~NeedsAgent(s)
    BY <2>1, <2>3 DEF Exact, NeedsWorkspace, NeedsAgent
  <2>7. CASE record' = record /\ mem' = [mem EXCEPT ![c] = s] /\ pc' = [pc EXCEPT ![c] = "failing"]
    <3>1. pc'[c] = "failing" /\ mem'[c] = s /\ record'[i] = m /\ Exact(i, s)'
      BY <1>1, <1>2, <2>1, <2>6, <2>7 DEF Exact, Did, effects
    <3>2. CallSound(c)'
      BY <1>1, <2>1, <2>3, <3>1 DEF CallSound, RunnerSound, Entered, Admitting
    <3>3. QED
      BY <1>3, <2>7, <3>2
  <2>8. QED
    BY <1>4, <1>5, <2>2, <2>3, <2>4, <2>5, <2>6, <2>7
<1>7. CASE FailRun(c)
  <2> DEFINE unknown == OutcomeUnknown(m, pc[c] = "refused")
             f == IF unknown THEN m.inFlight ELSE None
             r == [m EXCEPT !.inFlight = f, !.phase = "failed", !.error = "thrown",
                            !.outcomeUnknown = unknown]
             s == [r EXCEPT !.revision = r.revision + 1]
  <2>1. unknown \in BOOLEAN /\ (~unknown => Exact(i, m))
    BY <1>1, <1>7 DEF FailRun, RunnerSound, OutcomeUnknown
  <2>2. f \in {None, "workspace", "agent", "prompt"}
    BY <1>1 DEF Record
  <2>3. \/ PublishLast(c, r)
        \/ record' = record /\ pc'[c] = "answered"
    BY <1>1, <1>7 DEF FailRun, DiskFails, disk, Settle
  <2> HIDE DEF f, unknown
  <2>4. r \in Record /\ s \in Record
    BY <1>1, <2>1, <2>2, UpdatesTyped
  <2>5. /\ SameIds(s, m) /\ s.request = m.request /\ s.phase = "failed"
        /\ s.workspace = m.workspace /\ s.agent = m.agent /\ s.outcomeUnknown = unknown
    BY <1>1, <2>4 DEF SameIds, Record
  <2>6. PublishLast(c, r) => record' = [record EXCEPT ![i] = s] /\ pc'[c] = "answered"
    BY <1>1 DEF PublishLast, Settle
  <2> HIDE DEF r, s
  <2>7. ~s.outcomeUnknown => Exact(i, s)
    BY <2>1, <2>5 DEF Exact
  <2>8. QED
    BY <1>3, <1>4, <1>5, <2>3, <2>4, <2>5, <2>6, <2>7
<1>8. QED
  BY <1>6, <1>7

LEMMA RunnerJournal ==
    ASSUME Founded, Journal, NEW c \in Calls, pc[c] \in Running, Step(c)
    PROVE  Journal'
<1>1. /\ Typed /\ c \in Actors /\ pc \in [Actors -> CallPlaces \cup SubscriberPlaces]
  BY RunnerFacts
<1>2. IdentitySound(IdentityOf[c])' /\ CallSound(c)'
  BY MarkSound, EffectSound, MilestoneSound, EndSound
  DEF Step, Running, Admit, Interrupted, RecordIdentity, Claim, Start, RejectReset
<1>3. pc'[c] # "interrupted"
  BY <1>1, StepPlaces DEF Running, Entered, Admitting, Founded
<1>4. QED
  BY <1>2, <1>3, HereSound

-----------------------------------------------------------------------------
\* What an admission past the queue can rely on.
LEMMA AdmissionFacts ==
    ASSUME Founded, Journal, NEW c \in Calls, pc[c] \in Entered
    PROVE  LET i == IdentityOf[c] IN
           /\ Typed /\ c \in Actors /\ i \in Identities
           /\ mem[c] \in Record /\ legacy[i] = None /\ active[i] = None
           /\ pc[c] \notin Running
           /\ record[i] = None <=> pc[c] = "recording"
           /\ mem \in [Actors -> Record \cup {None}] /\ record \in [Identities -> Record \cup {None}]
           /\ pc \in [Actors -> CallPlaces \cup SubscriberPlaces]
           /\ active \in [Identities -> Calls \cup {None}]
           /\ IdentitySound(i) /\ AdmissionSound(c)
<1> DEFINE i == IdentityOf[c]
<1>1. Typed /\ Ownership /\ Legacies /\ c \in Actors /\ i \in Identities
  BY ActorsDiffer DEF Founded
<1>2. mem[c] # None /\ legacy[i] = None
  BY <1>1 DEF Typed, Seats, Holding, Legacies
<1>3. pc[c] \notin Running
  BY DEF Entered, Admitting, Running
<1>4. IdentitySound(i) /\ AdmissionSound(c)
  BY <1>1 DEF Journal, CallSound
<1>5. QED
  BY <1>1, <1>2, <1>3, <1>4, PlacesType DEF Typed, TypeOK, Ownership

\* A creation whose record an admission leaves alone.
LEMMA SameIdentity ==
    ASSUME Founded, Journal, NEW c \in Calls, Step(c), pc[c] \notin Running,
           record'[IdentityOf[c]] = record[IdentityOf[c]],
           active'[IdentityOf[c]] # active[IdentityOf[c]] => ClaimsHeld(IdentityOf[c])
    PROVE  IdentitySound(IdentityOf[c])'
<1> DEFINE i == IdentityOf[c]
<1>1. Typed /\ i \in Identities /\ IdentitySound(i)
  BY ActorsDiffer DEF Founded, Journal
<1>2. /\ legacy' = legacy /\ UNCHANGED effects
      /\ \A id \in Ids : claim[id] \in Identities => claim'[id] = claim[id]
  BY <1>1, StepLocal DEF Local
<1>3. record[i] # None /\ ClaimsHeld(i) => ClaimsHeld(i)'
  BY <1>1, <1>2, ClaimsStay DEF SameIds
<1>4. Own(i)' => RecordSound(i)'
  <2>1. Own(i)' => Own(i) /\ RecordSound(i)
    BY <1>1, <1>2 DEF IdentitySound, Own
  <2>2. QED
    BY <1>2, <1>3, <2>1 DEF RecordSound, OffReceipts, Exact, Did, Own, effects
<1>5. QED
  BY <1>1, <1>2, <1>4 DEF IdentitySound, Did, effects

\* A creation whose record an admission writes.
LEMMA NewIdentity ==
    ASSUME Founded, Journal, NEW c \in Calls, Step(c), pc[c] \notin Running,
           NEW r \in Record, record'[IdentityOf[c]] = r,
           OffReceipts(r), r.phase # "completed",
           r.inFlight = None /\ ~r.outcomeUnknown => Exact(IdentityOf[c], r),
           active'[IdentityOf[c]] # None => ClaimsHeld(IdentityOf[c])'
    PROVE  IdentitySound(IdentityOf[c])'
<1> DEFINE i == IdentityOf[c]
<1>1. Typed /\ i \in Identities /\ IdentitySound(i) /\ r # None
  BY ActorsDiffer, NoneApart DEF Founded, Journal
<1>2. legacy' = legacy /\ UNCHANGED effects
  BY <1>1, StepLocal DEF Local
<1>3. RecordSound(i)'
  BY <1>1, <1>2 DEF RecordSound, OffReceipts, Exact, Did, effects
<1>4. QED
  BY <1>1, <1>2, <1>3 DEF IdentitySound, Did, effects

\* Whoever is about to record that a creation was cut off keeps reason to, when a
\* record that was in flight stays so.
LEMMA StillCutOff ==
    ASSUME Journal, NEW i \in Identities,
           record[i] # None /\ record[i].inFlight # None /\ record[i].phase # "completed" =>
                /\ record'[i].inFlight # None /\ record'[i].phase # "completed"
                /\ SameIds(record'[i], record[i])
    PROVE  \A s \in Subscribers : pc[s] = "flagging" /\ IdentityOf[s] = i =>
                /\ record'[i].inFlight # None /\ record'[i].phase # "completed"
                /\ SameIds(record'[i], record[i])
  BY ActorsDiffer DEF Journal, CutOffSound

LEMMA InterruptedJournal ==
    ASSUME Founded, Journal, NEW c \in Calls, Interrupted(c) PROVE Journal'
<1> DEFINE i == IdentityOf[c]
           m == mem[c]
           r == UnknownOutcome(m)
           next == [r EXCEPT !.revision = r.revision + 1]
<1>0. Step(c) /\ pc[c] \in Entered
  BY DEF Step, Interrupted, Entered, Admitting
<1>1. /\ Typed /\ c \in Actors /\ i \in Identities /\ m \in Record /\ legacy[i] = None
      /\ active[i] = None /\ pc[c] \notin Running /\ IdentitySound(i)
      /\ record \in [Identities -> Record \cup {None}]
      /\ pc \in [Actors -> CallPlaces \cup SubscriberPlaces]
      /\ record[i] # None /\ CutOffSound(c)
  BY <1>0, AdmissionFacts DEF Interrupted, Journal
<1>2. /\ active' = active /\ pc'[c] = "answered"
      /\ record' = record \/ record' = [record EXCEPT ![i] = next]
  BY <1>1 DEF Interrupted, Answer, DiskFails, disk
<1>3. r \in Record /\ next \in Record
  BY <1>1, UpdatesTyped
<1>4. SameIds(next, m) /\ next.inFlight = m.inFlight /\ next.phase = "failed" /\ next.outcomeUnknown
  BY <1>1, <1>3 DEF SameIds, Record, UnknownOutcome
<1> HIDE DEF next, r
<1>5. SameIds(next, record[i]) /\ next.inFlight # None /\ SameIds(record[i], record[i])
  BY <1>1, <1>4 DEF CutOffSound, SameIds
<1>6. IdentitySound(i)'
  <2>1. CASE record' = record
    BY <1>0, <1>1, <1>2, <2>1, SameIdentity
  <2>2. CASE record' = [record EXCEPT ![i] = next]
    <3>1. OffReceipts(next)
      BY <1>1, <1>5 DEF IdentitySound, RecordSound, OffReceipts, Own, SameIds
    <3>2. record'[i] = next
      BY <1>1, <2>2
    <3>3. QED
      BY <1>0, <1>1, <1>2, <1>3, <1>4, <1>5, <3>1, <3>2, NewIdentity
  <2>3. QED
    BY <1>2, <2>1, <2>2
<1>7. CallSound(c)' /\ pc'[c] # "interrupted"
  BY <1>2 DEF CallSound, Entered, Admitting, Running
<1>8. record'[i] \in {record[i], next}
  BY <1>1, <1>2
<1>9. QED
  BY <1>0, <1>1, <1>4, <1>5, <1>6, <1>7, <1>8, StillCutOff, HereSound

LEMMA RecordIdentityJournal ==
    ASSUME Founded, Journal, NEW c \in Calls, RecordIdentity(c) PROVE Journal'
<1> DEFINE i == IdentityOf[c]
           m == mem[c]
<1>0. Step(c) /\ pc[c] \in Entered
  BY DEF Step, RecordIdentity, Entered, Admitting
<1>1. /\ Typed /\ c \in Actors /\ i \in Identities /\ m \in Record /\ legacy[i] = None
      /\ active[i] = None /\ pc[c] \notin Running /\ IdentitySound(i)
      /\ record \in [Identities -> Record \cup {None}]
      /\ pc \in [Actors -> CallPlaces \cup SubscriberPlaces]
      /\ record[i] = None /\ AdmissionSound(c)
  BY <1>0, AdmissionFacts DEF RecordIdentity
<1>2. /\ active' = active
      /\ \/ record' = record /\ pc'[c] = "answered"
         \/ record' = [record EXCEPT ![i] = m] /\ pc'[c] = "claiming" /\ mem' = mem
  BY <1>1 DEF RecordIdentity, Answer, DiskFails, disk
<1>3. /\ OffReceipts(m) /\ m.phase = "accepted" /\ m.inFlight = None
      /\ ~m.outcomeUnknown /\ ~m.workspace /\ ~m.agent
  BY <1>1 DEF AdmissionSound, RecordIdentity
<1>4. Exact(i, m)
  BY <1>1, <1>3 DEF IdentitySound, Exact, Did, Done
<1>5. CASE record' = record /\ pc'[c] = "answered"
  <2>1. IdentitySound(i)'
    BY <1>0, <1>1, <1>2, <1>5, SameIdentity
  <2>2. CallSound(c)' /\ pc'[c] # "interrupted"
    BY <1>5 DEF CallSound, Entered, Admitting, Running
  <2>3. QED
    BY <1>0, <1>1, <1>5, <2>1, <2>2, StillCutOff, HereSound
<1>6. CASE record' = [record EXCEPT ![i] = m] /\ pc'[c] = "claiming" /\ mem' = mem
  <2>1. record'[i] = m
    BY <1>1, <1>6
  <2>2. IdentitySound(i)'
    BY <1>0, <1>1, <1>2, <1>3, <1>4, <2>1, NewIdentity
  <2>3. CallSound(c)' /\ pc'[c] # "interrupted"
    BY <1>3, <1>6, <2>1 DEF CallSound, AdmissionSound, Running, IsSettled
  <2>4. QED
    BY <1>0, <1>1, <2>2, <2>3, StillCutOff, HereSound
<1>7. QED
  BY <1>2, <1>5, <1>6

LEMMA ClaimJournal ==
    ASSUME Founded, Journal, NEW c \in Calls, Claim(c) \/ RejectReset(c) PROVE Journal'
<1> DEFINE i == IdentityOf[c]
<1>0. Step(c) /\ pc[c] \in Entered
  BY DEF Step, Claim, RejectReset, Entered, Admitting
<1>1. /\ Typed /\ c \in Actors /\ i \in Identities /\ active[i] = None /\ pc[c] \notin Running
      /\ pc \in [Actors -> CallPlaces \cup SubscriberPlaces]
      /\ mem \in [Actors -> Record \cup {None}]
      /\ record[i] # None /\ AdmissionSound(c)
  BY <1>0, AdmissionFacts DEF Claim, RejectReset
<1>2. /\ record' = record /\ active' = active
      /\ pc'[c] = "answered" \/ (pc'[c] = "claiming" /\ pc[c] = "claiming" /\ mem' = mem)
  BY <1>1 DEF Claim, RejectReset, Answer, disk
<1>3. IdentitySound(i)'
  BY <1>0, <1>1, <1>2, SameIdentity
<1>4. CallSound(c)' /\ pc'[c] # "interrupted"
  BY <1>1, <1>2 DEF CallSound, AdmissionSound, Entered, Admitting, Running
<1>5. QED
  BY <1>0, <1>1, <1>2, <1>3, <1>4, StillCutOff, HereSound DEF SameIds

\* A runner starts when everything is claimed.
LEMMA StartJournal ==
    ASSUME Founded, Journal, NEW c \in Calls, Start(c) PROVE Journal'
<1> DEFINE i == IdentityOf[c]
           m == mem[c]
<1>0. Step(c) /\ pc[c] \in Entered /\ pc[c] = "claiming"
  BY DEF Step, Start, Entered, Admitting
<1>1. /\ Typed /\ c \in Actors /\ i \in Identities /\ m \in Record /\ legacy[i] = None
      /\ active[i] = None /\ pc[c] \notin Running /\ IdentitySound(i)
      /\ mem \in [Actors -> Record \cup {None}] /\ record \in [Identities -> Record \cup {None}]
      /\ pc \in [Actors -> CallPlaces \cup SubscriberPlaces]
      /\ record[i] # None /\ m = record[i] /\ m.inFlight = None /\ ~IsSettled(m)
  BY <1>0, AdmissionFacts DEF AdmissionSound
<1>2. ClaimsHeld(i)
  <2>1. /\ m.request.kind = "workspace" => m.workspaceId # None
        /\ Unclaimed(c) = {}
    BY <1>1 DEF Record, Start
  <2>2. m.request.kind = "workspace" => claim[m.workspaceId] = i
    BY <2>1 DEF Unclaimed
  <2>3. m.agentId # None => claim[m.agentId] = i
    BY <2>1, <2>2 DEF Unclaimed
  <2>4. QED
    BY <1>1, <2>2, <2>3 DEF ClaimsHeld
<1>3. RecordSound(i) /\ m.phase # "completed" /\ ~m.outcomeUnknown /\ Exact(i, m)
  BY <1>1 DEF IdentitySound, Own, RecordSound, IsSettled
<1>4. UNCHANGED effects
  BY DEF Start
<1>5. record[i].inFlight = None
  BY <1>1
<1>6. ASSUME record' = record, mem' = mem, pc'[c] = "running" PROVE Journal'
  <2>1. IdentitySound(i)'
    BY <1>0, <1>1, <1>2, <1>6, SameIdentity
  <2>2. RunnerSound(c)'
    BY <1>1, <1>3, <1>6 DEF RunnerSound, SameIds
  <2>3. CallSound(c)' /\ pc'[c] # "interrupted"
    BY <1>6, <2>2 DEF CallSound, Entered, Admitting
  <2>4. QED
    BY <1>0, <1>1, <1>5, <2>1, <2>3, StillCutOff, HereSound
<1>7. ASSUME record' = record, active' = active, pc'[c] = "resetting" PROVE Journal'
  <2>1. IdentitySound(i)'
    BY <1>0, <1>1, <1>7, SameIdentity
  <2>2. CallSound(c)' /\ pc'[c] # "interrupted"
    BY <1>7 DEF CallSound, AdmissionSound, Entered, Admitting, Running
  <2>3. QED
    BY <1>0, <1>1, <1>5, <2>1, <2>2, StillCutOff, HereSound
<1>8. ASSUME NEW next \in Record, next = [Retried(m) EXCEPT !.revision = Retried(m).revision + 1],
             mem' = [mem EXCEPT ![c] = next], record' = [record EXCEPT ![i] = next],
             pc'[c] = "running", active'[i] = c
      PROVE  Journal'
  <2>1. Retried(m) \in Record
    BY <1>1, UpdatesTyped
  <2>2. /\ SameIds(next, m) /\ next.inFlight = None /\ next.phase # "completed"
        /\ ~next.outcomeUnknown /\ next.workspace = m.workspace /\ next.agent = m.agent
        /\ next.request = m.request /\ next.agentId = m.agentId
    BY <1>1, <1>8, <2>1, SMTT(30) DEF SameIds, Record, Retried
  <2>3. record'[i] = next /\ mem'[c] = next /\ next # None
    BY <1>1, <1>8, NoneApart
  <2>4. OffReceipts(next) /\ Exact(i, next)
    BY <1>1, <1>3, <2>2 DEF RecordSound, OffReceipts, Exact
  <2>5. ClaimsHeld(i)'
    <3>1. \A id \in Ids : claim[id] \in Identities => claim'[id] = claim[id]
      BY <1>0, <1>1, StepLocal DEF Local
    <3>2. QED
      BY <1>1, <1>2, <2>2, <2>3, <3>1, ClaimsStay
  <2>6. IdentitySound(i)'
    BY <1>0, <1>1, <2>2, <2>3, <2>4, <2>5, NewIdentity
  <2>7. RunnerSound(c)'
    BY <1>8, <2>2, <2>3 DEF RunnerSound, SameIds
  <2>8. CallSound(c)' /\ pc'[c] # "interrupted"
    BY <1>8, <2>7 DEF CallSound, Entered, Admitting
  <2>9. QED
    BY <1>0, <1>1, <1>5, <2>6, <2>8, StillCutOff, HereSound
<1>9. CASE m.phase # "failed"
  BY <1>1, <1>6, <1>9 DEF Start, disk
<1>10. CASE m.phase = "failed"
  <2>1. /\ Publish(c, Retried(m), "running", "resetting")
        /\ active' = IF pc'[c] = "running" THEN [active EXCEPT ![i] = c] ELSE active
    BY <1>10 DEF Start
  <2>2. Retried(m) \in Record /\ active \in [Identities -> Calls \cup {None}]
    BY <1>1, UpdatesTyped DEF Typed, TypeOK
  <2>3. PICK next \in Record :
           /\ next = [Retried(m) EXCEPT !.revision = Retried(m).revision + 1]
           /\ mem' = [mem EXCEPT ![c] = next]
           /\ \/ record' = [record EXCEPT ![i] = next] /\ pc' = [pc EXCEPT ![c] = "running"]
              \/ record' = record /\ pc' = [pc EXCEPT ![c] = "resetting"]
    BY <1>1, <2>1, <2>2, PublishEffect
  <2>4. CASE record' = [record EXCEPT ![i] = next] /\ pc' = [pc EXCEPT ![c] = "running"]
    <3>1. pc'[c] = "running" /\ active'[i] = c
      BY <1>1, <2>1, <2>2, <2>4
    <3>2. QED
      BY <1>8, <2>3, <2>4, <3>1
  <2>5. CASE record' = record /\ pc' = [pc EXCEPT ![c] = "resetting"]
    <3>1. pc'[c] = "resetting" /\ active' = active
      BY <1>1, <2>1, <2>5
    <3>2. QED
      BY <1>7, <2>5, <3>1
  <2>6. QED
    BY <2>3, <2>4, <2>5
<1>11. QED
  BY <1>9, <1>10

\* The first request of a key names no agent of an older daemon.
LEMMA BeginApart ==
    ASSUME ReceiptsApart, Typed, NEW c \in Calls, NEW m \in InitialRecords(Plan[c])
    PROVE  /\ OffReceipts(m) /\ m.phase = "accepted" /\ m.inFlight = None
           /\ ~m.outcomeUnknown /\ ~m.workspace /\ ~m.agent
<1>1. PICK w, a : /\ m = InitialRecord(Plan[c], w, a)
                  /\ a = None \/ a = Plan[c].agent \/ a \in Generated(Agents)
  BY DEF InitialRecords
<1>2. /\ m.agentId = a /\ m.phase = "accepted" /\ m.inFlight = None
      /\ ~m.outcomeUnknown /\ ~m.workspace /\ ~m.agent
  BY <1>1 DEF InitialRecord
<1>3. ASSUME NEW j \in Identities, legacy[j] # None PROVE a # legacy[j].agent
  <2>1. legacy \in Receipts /\ legacy[j].agent \in Agents
    BY <1>3, CreationAssumption DEF Typed, TypeOK
  <2>2. Plan[c].agent # legacy[j].agent
    BY <1>3, <2>1 DEF ReceiptsApart
  <2>3. a \in Generated(Agents) => a # legacy[j].agent
    BY <1>3 DEF Generated
  <2>4. None # legacy[j].agent
    BY <2>1, NoneAssumption
  <2>5. QED
    BY <1>1, <2>2, <2>3, <2>4
<1>4. QED
  BY <1>2, <1>3 DEF OffReceipts

LEMMA AdmitJournal ==
    ASSUME ReceiptsApart, Founded, Journal, NEW c \in Calls, Admit(c) PROVE Journal'
<1> DEFINE i == IdentityOf[c]
           r == record[i]
<1>0. Step(c) /\ pc[c] = "queued" /\ pc[c] \notin Running
  BY DEF Step, Admit, Running
<1>1. /\ Typed /\ Ownership /\ Legacies /\ c \in Actors /\ i \in Identities /\ active' = active
      /\ pc \in [Actors -> CallPlaces \cup SubscriberPlaces] /\ IdentitySound(i)
      /\ mem \in [Actors -> Record \cup {None}] /\ record \in [Identities -> Record \cup {None}]
  BY ActorsDiffer, PlacesType DEF Founded, Typed, TypeOK, Admit, Journal
<1>2. CASE legacy[i] # None
  <2>1. pc'[c] \notin Holding /\ LegacySound(i)' /\ legacy' = legacy
    BY <1>0, <1>1, <1>2, AdmitLegacies, StepLocal DEF Local
  <2>2. IdentitySound(i)'
    BY <1>2, <2>1 DEF IdentitySound, LegacySound, Own, Did, Done
  <2>3. CallSound(c)' /\ pc'[c] # "interrupted"
    BY <2>1 DEF CallSound, Holding, Entered, Admitting
  <2>4. LegacySound(i)
    BY <1>1, <1>2 DEF Legacies
  <2>5. r # None => r.inFlight = None
    BY <2>4 DEF LegacySound
  <2>6. QED
    BY <1>0, <1>1, <2>2, <2>3, <2>5, StillCutOff, HereSound
<1>3. CASE legacy[i] = None
  <2>1. /\ record' = record
        /\ \/ pc'[c] \in {"answered", "joined"}
           \/ /\ r # None /\ active[i] = None /\ ~IsSettled(r) /\ mem'[c] = r
              /\ pc'[c] = IF r.inFlight # None THEN "interrupted" ELSE "claiming"
           \/ /\ r = None /\ pc'[c] = "recording"
              /\ \E m \in InitialRecords(Plan[c]) : mem'[c] = m
    BY <1>1, <1>3 DEF Admit, KeyConflict, Join, Replay, Begin, Answer, DiskFails, disk
  <2>2. IdentitySound(i)' /\ legacy' = legacy
    BY <1>0, <1>1, <2>1, SameIdentity, StepLocal DEF Local
  <2>3. CallSound(c)' /\ (pc'[c] = "interrupted" => CutOffSound(c)')
    <3>1. CASE pc'[c] \in {"answered", "joined"}
      BY <3>1 DEF CallSound, Entered, Admitting, Running
    <3>2. CASE /\ r # None /\ active[i] = None /\ ~IsSettled(r) /\ mem'[c] = r
               /\ pc'[c] = IF r.inFlight # None THEN "interrupted" ELSE "claiming"
      BY <1>1, <2>1, <3>2
      DEF CallSound, AdmissionSound, CutOffSound, IsSettled, Running, SameIds
    <3>3. CASE /\ r = None /\ pc'[c] = "recording"
               /\ \E m \in InitialRecords(Plan[c]) : mem'[c] = m
      <4>1. PICK m \in InitialRecords(Plan[c]) : mem'[c] = m
        BY <3>3
      <4>2. /\ OffReceipts(m)' /\ m.phase = "accepted" /\ m.inFlight = None
            /\ ~m.outcomeUnknown /\ ~m.workspace /\ ~m.agent
        BY <1>1, <2>2, BeginApart DEF OffReceipts
      <4>3. QED
        BY <3>3, <4>1, <4>2 DEF CallSound, AdmissionSound, OffReceipts, Running
    <3>4. QED
      BY <2>1, <3>1, <3>2, <3>3
  <2>4. QED
    BY <1>0, <1>1, <2>1, <2>2, <2>3, StillCutOff, HereSound DEF SameIds
<1>4. QED
  BY <1>2, <1>3

LEMMA StepJournal ==
    ASSUME ReceiptsApart, Founded, Journal, NEW c \in Calls, Step(c) PROVE Journal'
<1>1. CASE pc[c] \in Running
  BY <1>1, RunnerJournal
<1>2. CASE pc[c] \notin Running
  BY <1>2, AdmitJournal, InterruptedJournal, RecordIdentityJournal, ClaimJournal, StartJournal
  DEF Step, Running, MarkWorkspace, Provision, WorkspaceReady, MarkAgent, Spawn,
      AgentReady, Prompt, AgentCreated, Complete, FailRun
<1>3. QED
  BY <1>1, <1>2

\* Nothing a runner works on is deleted: what a completed creation made has an
\* id of its own.
LEMMA DeleteJournal ==
    ASSUME Founded, Journal, NEW i \in Identities, Delete(i) PROVE Journal'
<1>1. PICK id \in {record[i].workspaceId, record[i].agentId} \cap registered :
        registered' = registered \ {id}
  BY DEF Delete
<1>2. /\ UNCHANGED <<record, legacy, claim, pc, mem, active, effects>>
      /\ record[i] # None /\ record[i].phase = "completed"
  BY DEF Delete
<1>3. Typed /\ Legacies /\ record[i] \in Record /\ id \in Ids /\ IdentitySound(i)
  BY <1>1, <1>2 DEF Founded, Typed, TypeOK, Journal
<1>4. ASSUME NEW c \in Calls, pc[c] \in Running, mem[c].agentId \in registered
      PROVE  mem[c].agentId \in registered'
  <2> DEFINE j == IdentityOf[c]
  <2>1. /\ j \in Identities /\ mem[c] \in Record /\ legacy[j] = None /\ record[j] # None
        /\ RecordSound(j) /\ RunnerSound(c) /\ ClaimsHeld(j)
    BY <1>4, RunnerFacts
  <2>2. mem[c].agentId = record[j].agentId /\ j # i
    BY <1>2, <2>1 DEF RunnerSound, SameIds
  <2>3. mem[c].agentId \in Agents /\ claim[mem[c].agentId] = j
    <3>1. mem[c].agentId # None
      BY <1>3, <1>4, NoneAssumption DEF Typed, TypeOK, Ids
    <3>2. QED
      BY <2>1, <2>2, <3>1 DEF Record, ClaimsHeld
  <2>4. mem[c].agentId # record[i].workspaceId
    BY <1>3, <2>3, CreationAssumption, NoneAssumption DEF Record
  <2>5. mem[c].agentId # record[i].agentId
    <3>1. CASE legacy[i] = None
      <4>1. record[i].agentId # None => claim[record[i].agentId] = i
        BY <1>2, <1>3, <3>1 DEF IdentitySound, Own, RecordSound, ClaimsHeld
      <4>2. QED
        BY <2>2, <2>3, <4>1, NoneAssumption
    <3>2. CASE legacy[i] # None
      <4>1. record[i].agentId = legacy[i].agent
        BY <1>2, <1>3, <3>2 DEF Legacies, LegacySound
      <4>2. QED
        BY <2>1, <2>2, <3>2, <4>1 DEF RecordSound, OffReceipts
    <3>3. QED
      BY <3>1, <3>2
  <2>6. QED
    BY <1>1, <1>4, <2>4, <2>5
<1>5. \A j \in Identities : IdentitySound(j)'
  BY <1>2 DEF Journal, IdentitySound, Own, RecordSound, OffReceipts, Exact, Did, ClaimsHeld, effects
<1>6. ASSUME NEW c \in Calls PROVE CallSound(c)'
  <2>1. CallSound(c)
    BY DEF Journal
  <2>2. pc[c] \in Running /\ OutcomeUnknown(mem[c], FALSE) => OutcomeUnknown(mem[c], FALSE)'
    BY <1>2, <1>4 DEF OutcomeUnknown
  <2>3. pc[c] \in Running => RunnerSound(c)'
    BY <1>2, <1>4, <2>1, <2>2 DEF CallSound, RunnerSound, Exact, Did, effects
  <2>4. AdmissionSound(c) => AdmissionSound(c)'
    BY <1>2 DEF AdmissionSound, OffReceipts
  <2>5. QED
    BY <1>2, <2>1, <2>3, <2>4 DEF CallSound
<1>7. QED
  BY <1>2, <1>5, <1>6 DEF Journal, CutOffSound

\* Steps that change no record and start nothing.
LEMMA UndisturbedJournal ==
    ASSUME Journal, UNCHANGED <<record, legacy, claim, registered, active, effects>>,
           \A a \in Actors : \/ pc'[a] = pc[a] /\ mem'[a] = mem[a]
                             \/ pc'[a] \notin Holding
                             \/ pc'[a] = "flagging" /\ a \in Subscribers /\ CutOffSound(a)'
    PROVE  Journal'
<1>1. \A j \in Identities : IdentitySound(j)'
  BY DEF Journal, IdentitySound, Own, RecordSound, OffReceipts, Exact, Did, ClaimsHeld, effects
<1>2. ASSUME NEW c \in Calls PROVE CallSound(c)'
  <2>1. c \in Actors /\ CallSound(c) /\ c \notin Subscribers
    BY ActorsDiffer DEF Journal
  <2>2. CASE pc'[c] = pc[c] /\ mem'[c] = mem[c]
    <3>1. RunnerSound(c) => RunnerSound(c)'
      BY <2>2 DEF RunnerSound, OutcomeUnknown, Exact, Did, effects
    <3>2. AdmissionSound(c) => AdmissionSound(c)'
      BY <2>2 DEF AdmissionSound, OffReceipts
    <3>3. QED
      BY <2>1, <2>2, <3>1, <3>2 DEF CallSound
  <2>3. CASE pc'[c] \notin Holding
    BY <2>3 DEF CallSound, Holding
  <2>4. QED
    BY <2>1, <2>2, <2>3
<1>3. ASSUME NEW a \in Actors, pc'[a] \in {"flagging", "interrupted"} PROVE CutOffSound(a)'
  <2>1. pc'[a] \in Holding
    BY <1>3 DEF Holding, Entered, Admitting
  <2>2. pc'[a] = pc[a] /\ mem'[a] = mem[a] => CutOffSound(a)'
    BY <1>3 DEF Journal, CutOffSound
  <2>3. QED
    BY <2>1, <2>2
<1>4. QED
  BY <1>1, <1>2, <1>3 DEF Journal

LEMMA LookJournal ==
    ASSUME Founded, Journal, NEW s \in Subscribers,
           Subscribe(s) \/ Look(s) \/ Unsubscribe(s)
    PROVE  Journal'
<1> DEFINE i == IdentityOf[s]
           r == record[i]
<1>1. /\ Typed /\ Legacies /\ s \in Actors /\ i \in Identities
      /\ pc \in [Actors -> CallPlaces \cup SubscriberPlaces]
      /\ mem \in [Actors -> Record \cup {None}] /\ IdentitySound(i)
  BY ActorsDiffer, PlacesType DEF Founded, Typed, TypeOK, Journal
<1>2. UNCHANGED <<record, legacy, claim, registered, active, effects>>
  BY DEF Subscribe, Look, Unsubscribe, DiskFails, disk
<1>3. /\ \A a \in Actors : a # s => pc'[a] = pc[a] /\ mem'[a] = mem[a]
      /\ \/ pc'[s] \in {"waiting", "watching", "answered"}
         \/ /\ pc'[s] = "flagging" /\ mem'[s] = r
            /\ r # None /\ r.inFlight # None /\ active[i] = None
  BY <1>1 DEF Subscribe, Look, Unsubscribe
<1>4. r # None /\ r.inFlight # None => r.phase # "completed"
  BY <1>1 DEF IdentitySound, Own, RecordSound, Legacies, LegacySound
<1>5. pc'[s] \notin Holding \/ (pc'[s] = "flagging" /\ CutOffSound(s)')
  <2>1. {"waiting", "watching", "answered"} \cap Holding = {}
    BY DEF Holding, Entered, Admitting, Running
  <2>2. QED
    BY <1>2, <1>3, <1>4, <2>1 DEF CutOffSound, SameIds
<1>6. QED
  BY <1>1, <1>2, <1>3, <1>5, UndisturbedJournal

\* That a creation was cut off is recorded, and stays so.
LEMMA FlagJournal ==
    ASSUME Founded, Journal, NEW s \in Subscribers, Flag(s) PROVE Journal'
<1> DEFINE i == IdentityOf[s]
           m == mem[s]
           r == UnknownOutcome(m)
<1>1. /\ Typed /\ Ownership /\ Legacies /\ s \in Actors /\ i \in Identities /\ m \in Record
      /\ legacy[i] = None /\ IdentitySound(i) /\ CutOffSound(s) /\ s \notin Calls
      /\ record[i] # None /\ record[i].inFlight # None /\ active[i] = None
      /\ mem \in [Actors -> Record \cup {None}] /\ record \in [Identities -> Record \cup {None}]
      /\ pc \in [Actors -> CallPlaces \cup SubscriberPlaces]
      /\ UNCHANGED <<active, effects>>
  <2>1. pc[s] = "flagging" /\ pc[s] \in Holding /\ s \in Actors /\ i \in Identities
    BY ActorsDiffer DEF Flag, Holding
  <2>2. m # None /\ legacy[i] = None /\ CutOffSound(s)
    BY <2>1 DEF Founded, Typed, Seats, Legacies, Journal
  <2>3. QED
    BY <2>1, <2>2, ActorsDiffer, PlacesType DEF Founded, Typed, TypeOK, Journal, CutOffSound, Flag
<1>2. r \in Record
  BY <1>1, UpdatesTyped
<1>3. PICK next \in Record :
        /\ next = [r EXCEPT !.revision = r.revision + 1]
        /\ mem' = [mem EXCEPT ![s] = next]
        /\ UNCHANGED <<legacy, claim, registered>>
        /\ \/ record' = [record EXCEPT ![i] = next] /\ pc' = [pc EXCEPT ![s] = "watching"]
           \/ record' = record /\ pc' = [pc EXCEPT ![s] = "answered"]
  BY <1>1, <1>2, PublishEffect DEF Flag
<1>4. SameIds(next, m) /\ next.inFlight = m.inFlight /\ next.phase = "failed" /\ next.outcomeUnknown
  BY <1>1, <1>2, <1>3 DEF SameIds, Record, UnknownOutcome
<1> HIDE DEF r
<1>5. SameIds(next, record[i]) /\ next.inFlight # None
  BY <1>1, <1>4 DEF CutOffSound, SameIds
<1>6. \A a \in Actors : a # s => pc'[a] = pc[a] /\ mem'[a] = mem[a]
  BY <1>1, <1>3
<1>7. pc'[s] \notin Holding
  BY <1>1, <1>3 DEF Holding, Entered, Admitting, Running
<1>8. CASE record' = record
  BY <1>1, <1>3, <1>6, <1>7, <1>8, UndisturbedJournal
<1>9. CASE record' = [record EXCEPT ![i] = next]
  <2>1. record'[i] = next /\ next # None /\ \A j \in Identities : j # i => record'[j] = record[j]
    BY <1>1, <1>9, NoneApart
  <2>2. \A j \in Identities : IdentitySound(j)'
    <3>1. IdentitySound(i)'
      <4>1. OffReceipts(record[i])
        BY <1>1 DEF IdentitySound, RecordSound, Own
      <4>2. RecordSound(i)'
        BY <1>1, <1>3, <1>4, <1>5, <2>1, <4>1, NoneApart DEF RecordSound, OffReceipts, SameIds
      <4>3. QED
        BY <1>1, <2>1, <4>2 DEF IdentitySound, effects
    <3>2. ASSUME NEW j \in Identities, j # i PROVE IdentitySound(j)'
      <4>1. IdentitySound(j) /\ record'[j] = record[j]
        BY <2>1, <3>2 DEF Journal
      <4>2. QED
        BY <1>1, <1>3, <4>1
        DEF IdentitySound, Own, RecordSound, OffReceipts, Exact, Did, ClaimsHeld, effects
    <3>3. QED
      BY <3>1, <3>2
  <2>3. ASSUME NEW c \in Calls PROVE CallSound(c)'
    <3> DEFINE j == IdentityOf[c]
    <3>1. /\ c \in Actors /\ j \in Identities /\ pc'[c] = pc[c] /\ mem'[c] = mem[c]
          /\ CallSound(c) /\ c # None
      BY <1>1, <1>6, ActorsDiffer, NoneApart DEF Journal
    <3>2. CASE j # i
      <4>1. record'[j] = record[j]
        BY <2>1, <3>1, <3>2
      <4>2. RunnerSound(c) => RunnerSound(c)'
        BY <1>1, <1>3, <3>1, <4>1 DEF RunnerSound, OutcomeUnknown, Exact, Did, effects
      <4>3. AdmissionSound(c) => AdmissionSound(c)'
        BY <1>3, <3>1, <4>1 DEF AdmissionSound, OffReceipts
      <4>4. QED
        BY <3>1, <4>2, <4>3 DEF CallSound
    <3>3. CASE j = i
      <4>1. pc[c] \notin Running
        BY <1>1, <3>1, <3>3 DEF Ownership, OneRunner
      <4>2. pc[c] \in Entered => pc[c] \notin {"recording", "claiming"}
        BY <1>1, <3>1, <3>3 DEF Ownership, CallSound, AdmissionSound
      <4>3. QED
        BY <3>1, <4>1, <4>2 DEF CallSound, AdmissionSound
    <3>4. QED
      BY <3>2, <3>3
  <2>4. ASSUME NEW a \in Actors, pc'[a] \in {"flagging", "interrupted"} PROVE CutOffSound(a)'
    <3>1. pc'[a] \in Holding
      BY <2>4 DEF Holding, Entered, Admitting
    <3>2. /\ pc[a] \in {"flagging", "interrupted"} /\ mem'[a] = mem[a] /\ CutOffSound(a)
          /\ IdentityOf[a] \in Identities
      BY <1>6, <1>7, <2>4, <3>1, ActorsDiffer DEF Journal
    <3>3. CASE IdentityOf[a] = i
      BY <1>1, <1>4, <1>5, <2>1, <3>2, <3>3 DEF CutOffSound, SameIds
    <3>4. CASE IdentityOf[a] # i
      BY <1>1, <2>1, <3>2, <3>4 DEF CutOffSound
    <3>5. QED
      BY <3>3, <3>4
  <2>5. QED
    BY <2>2, <2>3, <2>4 DEF Journal
<1>10. QED
  BY <1>3, <1>8, <1>9

\* The daemon dies: nobody works on anything, and the journal is what it was.
LEMMA CrashJournal ==
    ASSUME Founded, Journal, Crash PROVE Journal'
<1>1. /\ UNCHANGED <<record, legacy, claim, registered, effects>>
      /\ active' = [i \in Identities |-> None]
      /\ \A a \in Actors : pc'[a] \in {"idle", "answered", "lost"}
  BY DEF Crash, disk, Answered
<1>2. ASSUME NEW i \in Identities PROVE IdentitySound(i)'
  <2>1. IdentitySound(i) /\ active'[i] = None
    BY <1>1 DEF Journal
  <2>2. QED
    BY <1>1, <2>1
    DEF IdentitySound, Own, RecordSound, OffReceipts, Exact, Did, ClaimsHeld, effects
<1>3. \A c \in Calls : CallSound(c)'
  BY <1>1, ActorsDiffer DEF CallSound, Entered, Admitting, Running
<1>4. QED
  BY <1>1, <1>2, <1>3 DEF Journal

LEMMA NextJournal ==
    ASSUME ReceiptsApart, Founded, Journal, [Next]_vars PROVE Journal'
<1>1. ASSUME NEW c \in Calls, Create(c) PROVE Journal'
  <2>1. /\ pc \in [Actors -> CallPlaces \cup SubscriberPlaces] /\ "queued" \notin Holding
    BY PlacesType DEF Founded, Typed, TypeOK, Holding, Entered, Running
  <2>2. UNCHANGED <<record, legacy, claim, registered, active, effects, mem>>
    BY <1>1 DEF Create, disk
  <2>3. \A a \in Actors : pc'[a] = pc[a] \/ pc'[a] \notin Holding
    BY <1>1, <2>1 DEF Create
  <2>4. QED
    BY <2>2, <2>3, UndisturbedJournal
<1>2. CASE UNCHANGED vars
  BY <1>2, UndisturbedJournal DEF vars, effects
<1>3. QED
  BY <1>1, <1>2, StepJournal, LookJournal, FlagJournal, DeleteJournal, CrashJournal DEF Next

LEMMA InitJournal == Init => Journal
<1> SUFFICES ASSUME Init PROVE Journal
  OBVIOUS
<1>1. \A i \in Identities : IdentitySound(i)
  BY DEF Init, IdentitySound, Did, Done, Own
<1>2. \A c \in Calls : CallSound(c)
  BY ActorsDiffer DEF Init, CallSound, Entered, Admitting, Running
<1>3. QED
  BY <1>1, <1>2 DEF Init, Journal

LEMMA AlwaysJournal == ASSUME ReceiptsApart PROVE Spec => [](Founded /\ Journal)
<1>1. Founded /\ Journal /\ [Next]_vars => Journal'
  BY NextJournal
<1>2. Init => Journal
  BY InitJournal
<1>3. Spec => []Founded
  BY AlwaysFounded DEF Founded
<1>4. QED
  BY <1>1, <1>2, <1>3, PTL DEF Spec

\* Nothing is made twice for one key, whatever fails, dies or is retried, when
\* nobody asks for an agent that a receipt of an older daemon names.
THEOREM MadeOnce == ASSUME ReceiptsApart PROVE Spec => []AtMostOnce
<1>1. ASSUME Journal PROVE AtMostOnce
  <2>1. ASSUME NEW i \in Identities
        PROVE  provisions[i] \in {0, 1} /\ spawns[i] \in {0, 1} /\ prompts[i] \in {0, 1}
    BY <1>1 DEF Journal, IdentitySound
  <2>2. QED
    BY <2>1 DEF AtMostOnce
<1>2. QED
  BY <1>1, AlwaysJournal, PTL

\* A record with a known outcome has exactly the milestones that really happened,
\* under the same hypothesis.
THEOREM TellsTruth == ASSUME ReceiptsApart PROVE Spec => []JournalTellsTruth
<1>1. ASSUME Founded, Journal PROVE JournalTellsTruth
  <2>1. ASSUME NEW i \in Identities, Own(i)
        PROVE  LET r == record[i] IN
               /\ r.inFlight = None /\ ~r.outcomeUnknown =>
                    /\ r.workspace <=> provisions[i] > 0
                    /\ r.agent <=> spawns[i] > 0
                    /\ r.agent /\ r.request.hasPrompt <=> prompts[i] > 0
               /\ r.phase = "completed" =>
                    /\ r.request.kind = "workspace" => r.workspace
                    /\ r.request.hasAgent => r.agent
    <3>1. RecordSound(i)
      BY <1>1, <2>1 DEF Journal, IdentitySound
    <3>2. QED
      BY <3>1 DEF RecordSound, Exact, Did, Done, NeedsWorkspace, NeedsAgent
  <2>2. QED
    BY <2>1 DEF JournalTellsTruth
<1>2. QED
  BY <1>1, AlwaysJournal, PTL

-----------------------------------------------------------------------------
(***************************************************************************)
(* The history of a record: it only grows, whoever observes a creation has *)
(* been told its latest revision, and no id belongs to two creations.      *)
(* This builds on the first four layers and needs no hypothesis about the  *)
(* receipts of older daemons.                                              *)
(***************************************************************************)

Published(r) == [r EXCEPT !.revision = r.revision + 1]

CutOff(r) == Published(UnknownOutcome(r))

\* A later version of a record: later revision, same ids, no milestone less.
Ahead(s, r) ==
    /\ SameIds(s, r)
    /\ s.revision >= r.revision
    /\ r.workspace => s.workspace
    /\ r.agent => s.agent

Pending == {"flagging", "interrupted"}

\* What someone at work on a creation holds, compared with what is on disk.  The
\* copy of a runner whose write failed is ahead of the file; one who records that
\* the creation was cut off may have been overtaken by another who did.
HolderSound(a) ==
    LET r == record[IdentityOf[a]]
        m == mem[a]
    IN
    /\ pc[a] = "recording" =>
        m.revision = 0 /\ m.phase = "accepted" /\ m.inFlight = None /\ ~m.outcomeUnknown
    /\ pc[a] = "claiming" => m = r /\ m.inFlight = None /\ ~IsSettled(m)
    /\ pc[a] \in Running =>
        /\ r.phase # "completed"
        /\ Ahead(m, r)
        /\ pc[a] # "failing" => m = r
    /\ pc[a] \in {"started", "returned"} =>
        m.inFlight = IF m.request.hasPrompt THEN "prompt" ELSE None
    /\ pc[a] \in Pending =>
        /\ active[IdentityOf[a]] = None
        /\ r.inFlight # None /\ r.phase # "completed"
        /\ m = r \/ r = CutOff(m)

AtRest(i) ==
    record[i] # None /\ record[i].phase = "completed" => record[i].inFlight = None

Watched == {"watching", "joined"} \cup Running

\* An observer has been told what is on disk, or came before it was there.
Current(a) ==
    LET r == record[IdentityOf[a]] IN
    /\ r = None => told[a] = -1
    /\ pc[a] \in Watched /\ r # None =>
        told[a] = r.revision \/ (told[a] = -1 /\ r.revision = 0)

Growth ==
    /\ \A i \in Identities : AtRest(i)
    /\ \A a \in Actors : HolderSound(a) /\ Current(a)

-----------------------------------------------------------------------------
\* What a step of an actor may do to the record of its creation, and what it
\* tells others: nothing; record the creation; mark what is in flight; publish.
Untold(a) == \A b \in Actors : b # a => told'[b] = told[b]

Kept(a) == record'[IdentityOf[a]] = record[IdentityOf[a]] /\ Untold(a)

Recorded(a) ==
    LET i == IdentityOf[a] IN
    /\ record[i] = None /\ record'[i] # None /\ record'[i].revision = 0
    /\ Untold(a)

Marked(a) ==
    LET i == IdentityOf[a] IN
    /\ pc[a] \in Running /\ record[i] # None /\ record[i].phase # "completed"
    /\ \E f \in {"workspace", "agent"} : record'[i] = [record[i] EXCEPT !.inFlight = f]
    /\ told' = told

Grows(s, r) ==
    /\ Ahead(s, r)
    /\ s.revision = r.revision => s = r
    /\ r.phase # "completed"

Told(a) ==
    LET i == IdentityOf[a] IN
    /\ record[i] # None /\ record'[i] # None /\ Grows(record'[i], record[i])
    /\ \A b \in Observers(i) : told'[b] = record'[i].revision
    /\ \A b \in Actors \ Observers(i) : told'[b] = told[b]
    /\ \/ pc[a] \in Running \cup {"claiming"}
       \/ pc[a] \in Pending /\ FirstToRecord(a) /\ record'[i] = CutOff(mem[a])

\* A step of one actor leaves other creations alone, and other actors but for
\* those whom a runner answers.
Apart(a) ==
    LET i == IdentityOf[a] IN
    /\ \A j \in Identities : j # i => record'[j] = record[j] /\ active'[j] = active[j]
    /\ \A b \in Actors : b # a => mem'[b] = mem[b] /\ pc'[b] \in {pc[b], "answered"}
    /\ active'[i] = active[i] \/ pc[a] \in Running \cup {"claiming"}

\* What the actor was told itself, when the record was not published.
Heard(a) ==
    \/ Told(a) /\ pc'[a] \notin {"idle"}
    \/ told'[a] = told[a] /\ (pc'[a] \in Watched => pc[a] \in Watched \/ record'[IdentityOf[a]] = None)
    \/ record'[IdentityOf[a]] # None /\ (pc'[a] \in Watched => told'[a] = record'[IdentityOf[a]].revision)

Advance(a) ==
    /\ Apart(a)
    /\ Kept(a) \/ Recorded(a) \/ Marked(a) \/ Told(a)
    /\ AtRest(IdentityOf[a])'
    /\ HolderSound(a)'
    /\ Heard(a)

-----------------------------------------------------------------------------
LEMMA PublishedFacts ==
    ASSUME NEW r \in Record
    PROVE  /\ Published(r) \in Record /\ Published(r) # None
           /\ Published(r).revision = r.revision + 1 /\ Published(r).revision > r.revision
           /\ Published(r).inFlight = r.inFlight /\ Published(r).phase = r.phase
           /\ SameIds(Published(r), r)
           /\ Published(r).workspace = r.workspace /\ Published(r).agent = r.agent
<1>1. Published(r) \in Record
  BY DEF Published, Record
<1>2. QED
  BY <1>1, NoneApart DEF Published, SameIds, Record

LEMMA CutOffFacts ==
    ASSUME NEW r \in Record
    PROVE  /\ CutOff(r) \in Record /\ CutOff(r).revision = r.revision + 1
           /\ CutOff(r).inFlight = r.inFlight /\ CutOff(r).phase = "failed"
           /\ Ahead(CutOff(r), r)
<1> DEFINE u == UnknownOutcome(r)
<1>1. u \in Record
  BY UpdatesTyped
<1>2. /\ u.revision = r.revision /\ u.inFlight = r.inFlight /\ u.phase = "failed"
      /\ SameIds(u, r) /\ u.workspace = r.workspace /\ u.agent = r.agent /\ r.revision \in Nat
  BY DEF UnknownOutcome, Record, SameIds
<1> HIDE DEF u
<1>3. QED
  BY <1>1, <1>2, PublishedFacts DEF CutOff, Ahead, SameIds, u

\* Who records that a creation was cut off may come after another who does.
LEMMA PendingHolds ==
    ASSUME Founded, Growth, NEW a \in Actors, Apart(a),
           Kept(a) \/ Recorded(a) \/ Marked(a) \/ Told(a),
           a \in Subscribers => pc[a] \notin Running \cup Entered,
           NEW b \in Actors, b # a, pc[b] \in Pending, pc'[b] = pc[b],
           IdentityOf[b] = IdentityOf[a], record[IdentityOf[b]] # None
    PROVE  HolderSound(b)'
<1> DEFINE i == IdentityOf[a]
<1>1. /\ Typed /\ Ownership /\ i \in Identities /\ mem'[b] = mem[b]
      /\ record[i] \in Record /\ active[i] = None
      /\ record[i].inFlight # None /\ record[i].phase # "completed"
      /\ mem[b] \in Record
      /\ mem[b] = record[i] \/ record[i] = CutOff(mem[b])
  BY ActorsDiffer DEF Founded, Growth, Apart, HolderSound, Pending, Typed, TypeOK, Seats, Holding,
     Entered, Admitting
<1>2. pc[a] \notin Running
  BY <1>1, ActorsDiffer, NoneApart DEF Actors, Ownership, OneRunner
<1>3. pc[a] # "claiming"
  BY <1>1 DEF Growth, HolderSound
<1>4. active'[i] = None
  BY <1>1, <1>2, <1>3 DEF Apart
<1>5. ASSUME record'[i] # record[i]
      PROVE  /\ record'[i].inFlight # None /\ record'[i].phase # "completed"
             /\ record'[i] = CutOff(mem[b])
  <2>1. /\ pc[a] \in Pending /\ FirstToRecord(a) /\ record'[i] = CutOff(mem[a])
        /\ mem[a] = record[i] \/ record[i] = CutOff(mem[a])
    BY <1>1, <1>2, <1>3, <1>5 DEF Kept, Recorded, Marked, Told, Growth, HolderSound
  <2>2. mem[a] = record[i]
    BY <1>5, <2>1
  <2>3. mem[a].revision <= mem[b].revision
    BY <2>1 DEF FirstToRecord, Pending
  <2>4. record[i] # CutOff(mem[b])
    BY <1>1, <2>2, <2>3, CutOffFacts DEF Record
  <2>5. QED
    BY <1>1, <2>1, <2>2, <2>4, CutOffFacts
<1>6. QED
  BY <1>1, <1>4, <1>5 DEF HolderSound, Pending, Running

\* What others hold survives the step of an actor.
LEMMA OthersHold ==
    ASSUME Founded, Growth, NEW a \in Actors, Apart(a),
           Kept(a) \/ Recorded(a) \/ Marked(a) \/ Told(a),
           pc[a] = "claiming" => HolderSound(a),
           Recorded(a) => a \in Calls /\ (pc[a] = "recording" \/ legacy[IdentityOf[a]] # None),
           a \in Subscribers => pc[a] \notin Running \cup Entered,
           NEW b \in Actors, b # a
    PROVE  HolderSound(b)'
<1> DEFINE i == IdentityOf[a]
           j == IdentityOf[b]
<1>0. /\ Typed /\ Turns /\ Ownership /\ Legacies
      /\ i \in Identities /\ j \in Identities
      /\ mem'[b] = mem[b] /\ pc'[b] \in {pc[b], "answered"} /\ HolderSound(b)
      /\ pc[a] \in CallPlaces => pc[a] # "flagging"
      /\ record[j] \in Record \cup {None}
  BY ActorsDiffer DEF Founded, Growth, Apart, CallPlaces, Admitting, Running, Answered, Typed, TypeOK
<1>1. CASE pc'[b] = "answered"
  BY <1>1 DEF HolderSound, Running, Pending
<1>2. CASE pc'[b] = pc[b] /\ record'[j] = record[j] /\ active'[j] = active[j]
  BY <1>0, <1>2 DEF HolderSound
<1>3. ASSUME pc'[b] = pc[b], j = i, pc[b] \in Holding,
             record'[j] # record[j] \/ active'[j] # active[j]
      PROVE  HolderSound(b)'
  <2>1. b \in Calls \/ (b \in Subscribers /\ pc[b] = "flagging")
    BY <1>0, <1>3 DEF Actors, Typed, Seats, SubscriberPlaces, Holding, Entered, Admitting, Running,
       Answered, Observing
  <2>2. record[j] = None <=> pc[b] = "recording"
    <3>1. pc[b] \in Running => record[j] # None
      BY <1>0, <2>1, NoneApart DEF Ownership, OneRunner, Running, Typed, TypeOK
    <3>2. pc[b] = "flagging" => b \in Subscribers /\ record[j] # None
      BY <1>0, <2>1 DEF Ownership, Typed, Seats, CallPlaces, Admitting, Running, Answered
    <3>3. pc[b] \in Entered => b \in Calls /\ (record[j] = None <=> pc[b] = "recording")
      BY <1>0, <2>1 DEF Ownership, Entered, Admitting
    <3>4. "recording" \notin Running /\ "flagging" # "recording"
      BY DEF Running
    <3>5. QED
      BY <1>3, <3>1, <3>2, <3>3, <3>4 DEF Holding
  <2>3. legacy[j] = None
    BY <1>0, <1>3 DEF Legacies
  <2>4. CASE pc[b] \in Running
    <3>1. b \in Calls /\ active[j] = b /\ b # None
      BY <1>0, <2>1, <2>4, NoneApart DEF Running, Ownership, OneRunner
    <3>2. ~(pc[a] \in Running /\ a \in Calls)
      BY <1>0, <1>3, <3>1 DEF Ownership, OneRunner
    <3>3. pc[a] \notin Running
      BY <3>2, <1>0, ActorsDiffer DEF Actors
    <3>4. pc[a] \notin Entered
      BY <1>0, <1>3, <3>1, ActorsDiffer DEF Actors, Ownership
    <3>5. pc[a] # "flagging"
      BY <1>0, <1>3, <3>1 DEF Growth, HolderSound, Pending
    <3>6. Kept(a)
      BY <1>3, <2>2, <2>4, <3>3, <3>4, <3>5 DEF Recorded, Marked, Told, Entered, Admitting, Pending, Running
    <3>7. QED
      BY <1>0, <1>3, <3>3, <3>4, <3>6 DEF Kept, Apart, Entered, Admitting
  <2>5. CASE pc[b] \in Entered
    <3>1. b \in Calls
      BY <1>0, <2>1, <2>5 DEF Entered, Admitting
    <3>2. active[j] = None
      BY <1>0, <2>5, <3>1 DEF Ownership
    <3>3. pc[a] \notin Running
      BY <1>0, <1>3, <3>2, ActorsDiffer, NoneApart DEF Actors, Ownership, OneRunner
    <3>4. pc[a] \notin Entered
      <4>1. pc[a] \in Entered => a \in Calls
        BY ActorsDiffer DEF Actors
      <4>2. QED
        BY <1>0, <2>5, <3>1, <4>1, TurnsSerial DEF OneAdmission
    <3>5. Recorded(a) => FALSE
      BY <1>3, <2>3, <3>4 DEF Entered, Admitting
    <3>6. pc[a] # "claiming"
      BY <3>4 DEF Entered, Admitting
    <3>7. Told(a) /\ pc[a] = "flagging" /\ active'[j] = active[j]
      BY <1>0, <1>3, <3>3, <3>4, <3>5, <3>6 DEF Kept, Marked, Told, Apart, Pending, Entered, Admitting
    <3>8. record[i].inFlight # None /\ record[i].phase # "completed"
      BY <3>7 DEF Growth, HolderSound, Pending
    <3>9. pc[b] \notin {"claiming", "recording"}
      BY <1>0, <1>3, <2>2, <3>7, <3>8 DEF HolderSound, Told
    <3>10. CASE pc[b] = "interrupted"
      BY <1>0, <1>3, <2>2, <3>10, PendingHolds DEF Pending
    <3>11. QED
      BY <1>0, <1>3, <3>9, <3>10, <2>5 DEF HolderSound, Pending, Running, Entered, Admitting
  <2>6. CASE pc[b] = "flagging"
    BY <1>0, <1>3, <2>2, <2>6, PendingHolds DEF Pending
  <2>7. QED
    BY <1>3, <2>4, <2>5, <2>6 DEF Holding
<1>4. CASE pc'[b] = pc[b] /\ pc[b] \notin Holding
  BY <1>0, <1>4 DEF HolderSound, Holding, Pending, Running, Entered, Admitting
<1>5. QED
  BY <1>0, <1>1, <1>2, <1>3, <1>4 DEF Apart

LEMMA MarkedFacts ==
    ASSUME Typed, NEW a \in Actors, Marked(a)
    PROVE  LET i == IdentityOf[a] IN
           /\ record[i] # None /\ record'[i] \in Record /\ record'[i] # None
           /\ record'[i].revision = record[i].revision /\ record'[i].phase = record[i].phase
           /\ SameIds(record'[i], record[i])
           /\ Snapshot(record'[i]) = Snapshot(record[i])
           /\ record'[i].workspace = record[i].workspace /\ record'[i].agent = record[i].agent
<1> DEFINE i == IdentityOf[a]
<1>1. record[i] \in Record /\ record[i] # None
  BY ActorsDiffer DEF Typed, TypeOK, Marked
<1>2. PICK f \in {"workspace", "agent"} : record'[i] = [record[i] EXCEPT !.inFlight = f]
  BY DEF Marked
<1>3. record'[i] \in Record
  BY <1>1, <1>2 DEF Record
<1>4. QED
  BY <1>1, <1>2, <1>3, NoneApart DEF Record, SameIds, Snapshot

\* Whoever observes a creation stays informed of it.
LEMMA AdvanceCurrent ==
    ASSUME Founded, Growth, NEW a \in Actors, Advance(a), NEW b \in Actors
    PROVE  Current(b)'
<1> DEFINE i == IdentityOf[a]
           j == IdentityOf[b]
<1>0. /\ Typed /\ i \in Identities /\ j \in Identities /\ Current(b)
      /\ record \in [Identities -> Record \cup {None}]
  BY ActorsDiffer DEF Founded, Growth, Typed, TypeOK
<1>1. Watched \cap ({"idle"} \cup Answered) = {} /\ "answered" \notin Watched
  BY DEF Watched, Running, Answered
<1>2. CASE j # i
  <2>1. b # a /\ record'[j] = record[j] /\ pc'[b] \in {pc[b], "answered"}
    BY <1>0, <1>2 DEF Advance, Apart
  <2>2. told'[b] = told[b]
    BY <1>2, <2>1 DEF Advance, Kept, Recorded, Marked, Told, Untold, Observers
  <2>3. QED
    BY <1>0, <1>1, <2>1, <2>2 DEF Current
<1>3. ASSUME j = i, pc'[b] \in Watched => pc[b] \in Watched, told'[b] = told[b] \/ Told(a)
      PROVE  Current(b)'
  <2>1. CASE Kept(a) /\ ~Told(a)
    BY <1>0, <1>3, <2>1 DEF Kept, Current
  <2>2. CASE Recorded(a) /\ ~Told(a)
    BY <1>0, <1>3, <2>2 DEF Recorded, Current
  <2>3. CASE Marked(a) /\ ~Told(a)
    <3>1. record[i] # None /\ record'[i] # None /\ record'[i].revision = record[i].revision
      BY <1>0, <2>3, MarkedFacts
    <3>2. told'[b] = told[b]
      BY <2>3 DEF Marked
    <3>3. QED
      BY <1>0, <1>3, <3>1, <3>2 DEF Current
  <2>4. CASE Told(a)
    <3>1. record'[i] # None
      BY <2>4 DEF Told
    <3>2. pc[b] \in Watched => b \in Observers(i)
      BY <1>1, <1>3 DEF Observers
    <3>3. QED
      BY <1>3, <2>4, <3>1, <3>2 DEF Current, Told
  <2>5. QED
    BY <2>1, <2>2, <2>3, <2>4 DEF Advance
<1>4. CASE j = i /\ b # a
  <2>1. pc'[b] \in Watched => pc[b] \in Watched
    BY <1>1, <1>4 DEF Advance, Apart
  <2>2. told'[b] = told[b] \/ Told(a)
    BY <1>4 DEF Advance, Kept, Recorded, Marked, Untold
  <2>3. QED
    BY <1>3, <1>4, <2>1, <2>2
<1>5. CASE b = a
  <2>1. CASE Told(a)
    <3>1. a \in Observers(i)
      BY <2>1 DEF Told, Observers, Running, Pending, Answered
    <3>2. QED
      BY <1>5, <2>1, <3>1 DEF Told, Current
  <2>2. CASE /\ ~Told(a) /\ told'[a] = told[a]
             /\ pc'[a] \in Watched => pc[a] \in Watched \/ record'[i] = None
    <3>1. CASE record'[i] = None
      <4>1. record[i] = None
        BY <1>0, <2>2, <3>1, MarkedFacts DEF Advance, Kept, Recorded
      <4>2. QED
        BY <1>0, <1>5, <2>2, <3>1, <4>1 DEF Current
    <3>2. QED
      BY <1>3, <1>5, <2>2, <3>1
  <2>3. CASE record'[i] # None /\ (pc'[a] \in Watched => told'[a] = record'[i].revision)
    BY <1>5, <2>3 DEF Current
  <2>4. QED
    BY <2>1, <2>2, <2>3 DEF Advance, Heard
<1>6. QED
  BY <1>2, <1>4, <1>5

\* So that it is enough to look at the actor and its creation.
LEMMA AdvanceGrowth ==
    ASSUME Founded, Growth, NEW a \in Actors, Advance(a),
           Recorded(a) => a \in Calls /\ (pc[a] = "recording" \/ legacy[IdentityOf[a]] # None),
           a \in Subscribers => pc[a] \notin Running \cup Entered
    PROVE  Growth'
<1>1. ASSUME NEW j \in Identities PROVE AtRest(j)'
  <2>1. CASE j = IdentityOf[a]
    BY <2>1 DEF Advance
  <2>2. CASE j # IdentityOf[a]
    BY <2>2 DEF Advance, Apart, Growth, AtRest
  <2>3. QED
    BY <2>1, <2>2
<1>2. ASSUME NEW b \in Actors PROVE HolderSound(b)'
  <2>1. CASE b = a
    BY <2>1 DEF Advance
  <2>2. CASE b # a
    BY <2>2, OthersHold DEF Advance, Growth
  <2>3. QED
    BY <2>1, <2>2
<1>3. \A b \in Actors : Current(b)'
  BY AdvanceCurrent
<1>4. QED
  BY <1>1, <1>2, <1>3 DEF Growth

-----------------------------------------------------------------------------
\* The steps of a call.
LEMMA StepApart ==
    ASSUME Founded, NEW c \in Calls, Step(c) PROVE Apart(c)
<1> DEFINE i == IdentityOf[c]
<1>1. Typed /\ Ownership /\ Turns /\ c \in Actors /\ i \in Identities
  BY ActorsDiffer DEF Founded
<1>2. Local(c) /\ Owned(c)
  BY <1>1, StepLocal, StepOwned
<1>3. \A b \in Actors : b # c => pc'[b] \in {pc[b], "answered"}
  BY <1>1, StepPlaces
<1>4. active'[i] = active[i] \/ pc[c] \in Running \cup {"claiming"}
  <2>1. CASE pc'[c] \in Running /\ pc[c] \notin Running
    BY <1>1, <2>1, RunsFromClaiming DEF Start
  <2>2. CASE pc'[c] \notin Running
    BY <1>2, <2>2 DEF Owned
  <2>3. QED
    BY <2>1, <2>2
<1>5. QED
  BY <1>1, <1>2, <1>3, <1>4 DEF Apart, Local, Owned

LEMMA RunnerHere ==
    ASSUME Founded, Growth, NEW c \in Calls, pc[c] \in Running
    PROVE  LET i == IdentityOf[c] IN
           /\ Typed /\ c \in Actors /\ i \in Identities
           /\ mem[c] \in Record /\ record[i] \in Record /\ record[i] # None /\ active[i] = c
           /\ record \in [Identities -> Record \cup {None}] /\ mem \in [Actors -> Record \cup {None}]
           /\ pc \in [Actors -> CallPlaces \cup SubscriberPlaces]
           /\ record[i].phase # "completed" /\ Ahead(mem[c], record[i])
           /\ pc[c] # "failing" => mem[c] = record[i]
           /\ pc[c] \in {"started", "returned"} =>
                mem[c].inFlight = IF mem[c].request.hasPrompt THEN "prompt" ELSE None
<1> DEFINE i == IdentityOf[c]
<1>1. Typed /\ Ownership /\ c \in Actors /\ i \in Identities /\ c # None
  BY ActorsDiffer, NoneApart DEF Founded
<1>2. mem[c] # None /\ record[i] # None /\ active[i] = c
  BY <1>1 DEF Ownership, OneRunner, Typed, Seats, Holding
<1>3. HolderSound(c)
  BY <1>1 DEF Growth
<1>4. QED
  BY <1>1, <1>2, <1>3, PlacesType DEF HolderSound, Typed, TypeOK

LEMMA AheadOfItself ==
    ASSUME NEW r \in Record PROVE Ahead(r, r)
  BY DEF Ahead, SameIds, Record

\* A runner publishes.
LEMMA RunnerTells ==
    ASSUME Founded, Growth, NEW c \in Calls, pc[c] \in Running, Step(c),
           NEW s \in Record, NEW then \in {"running", "started"}, Publish(c, s, then, "failing"),
           s.phase # "completed", Ahead(s, mem[c]),
           then = "started" => s.inFlight = IF s.request.hasPrompt THEN "prompt" ELSE None
    PROVE  Advance(c)
<1> DEFINE i == IdentityOf[c]
           r == record[i]
<1>0. /\ Typed /\ c \in Actors /\ i \in Identities /\ mem[c] \in Record /\ r \in Record /\ r # None
      /\ record \in [Identities -> Record \cup {None}] /\ mem \in [Actors -> Record \cup {None}]
      /\ pc \in [Actors -> CallPlaces \cup SubscriberPlaces]
      /\ r.phase # "completed" /\ Ahead(mem[c], r)
  BY RunnerHere
<1>1. PICK next \in Record :
        /\ next = Published(s)
        /\ mem' = [mem EXCEPT ![c] = next]
        /\ \/ /\ record' = [record EXCEPT ![i] = next]
              /\ pc' = [pc EXCEPT ![c] = then]
              /\ told' = [o \in Actors |-> IF o \in Observers(i) THEN next.revision ELSE told[o]]
           \/ record' = record /\ pc' = [pc EXCEPT ![c] = "failing"] /\ told' = told
  BY <1>0, PublishEffect DEF Published
<1>2. /\ next # None /\ Ahead(next, r) /\ Ahead(next, next) /\ next.revision > r.revision
      /\ next.phase # "completed" /\ next.inFlight = s.inFlight /\ next.request = s.request
  <2>1. /\ next # None /\ next.revision > s.revision /\ SameIds(next, s)
        /\ next.workspace = s.workspace /\ next.agent = s.agent
        /\ next.phase # "completed" /\ next.inFlight = s.inFlight
    BY <1>1, PublishedFacts
  <2>2. {next.revision, s.revision, r.revision, mem[c].revision} \subseteq Nat
    BY <1>0, <1>1 DEF Record
  <2>3. QED
    BY <1>0, <1>1, <2>1, <2>2, AheadOfItself DEF Ahead, SameIds
<1>3. Apart(c)
  BY StepApart
<1>4. mem'[c] = next
  BY <1>0, <1>1
<1>5. CASE /\ record' = [record EXCEPT ![i] = next]
           /\ pc' = [pc EXCEPT ![c] = then]
           /\ told' = [o \in Actors |-> IF o \in Observers(i) THEN next.revision ELSE told[o]]
  <2>1. record'[i] = next /\ pc'[c] = then
    BY <1>0, <1>5
  <2>2. Told(c)
    BY <1>0, <1>2, <1>5, <2>1 DEF Told, Grows, Observers, Record
  <2>3. HolderSound(c)'
    BY <1>2, <1>4, <2>1 DEF HolderSound, Running, Pending
  <2>4. QED
    BY <1>2, <1>3, <2>1, <2>2, <2>3 DEF Advance, Heard, AtRest
<1>6. CASE record' = record /\ pc' = [pc EXCEPT ![c] = "failing"] /\ told' = told
  <2>1. pc'[c] = "failing"
    BY <1>0, <1>6
  <2>2. HolderSound(c)'
    BY <1>0, <1>2, <1>4, <1>6, <2>1 DEF HolderSound, Running, Pending
  <2>3. QED
    BY <1>0, <1>3, <1>6, <2>1, <2>2 DEF Advance, Heard, AtRest, Kept, Untold, Watched
<1>7. QED
  BY <1>1, <1>5, <1>6

\* A step that leaves the record alone, and tells nobody.
LEMMA SilentAdvance ==
    ASSUME Founded, Growth, NEW c \in Calls, Step(c), record'[IdentityOf[c]] = record[IdentityOf[c]],
           told' = told, HolderSound(c)', pc'[c] \in Watched => pc[c] \in Watched
    PROVE  Advance(c)
<1>1. IdentityOf[c] \in Identities
  BY ActorsDiffer
<1>2. AtRest(IdentityOf[c])'
  BY <1>1 DEF Growth, AtRest
<1>3. QED
  BY <1>2, StepApart DEF Advance, Kept, Untold, Heard

\* An answer that tells nobody else.
LEMMA AnswerAdvance ==
    ASSUME Founded, Growth, NEW c \in Calls, Step(c), record'[IdentityOf[c]] = record[IdentityOf[c]],
           \A b \in Actors : b # c => told'[b] = told[b],
           told'[c] = told[c] \/ record[IdentityOf[c]] # None, pc'[c] = "answered"
    PROVE  Advance(c)
<1>1. c \in Actors /\ IdentityOf[c] \in Identities /\ "answered" \notin Watched
  BY ActorsDiffer DEF Watched, Running
<1>2. AtRest(IdentityOf[c])'
  BY <1>1 DEF Growth, AtRest
<1>3. HolderSound(c)'
  BY DEF HolderSound, Running, Pending
<1>4. QED
  BY <1>1, <1>2, <1>3, StepApart DEF Advance, Kept, Untold, Heard

LEMMA MarkAdvance ==
    ASSUME Founded, Growth, NEW c \in Calls, MarkWorkspace(c) \/ MarkAgent(c)
    PROVE  Advance(c)
<1> DEFINE i == IdentityOf[c]
           r == record[i]
<1>0. pc[c] = "running" /\ pc[c] \in Running /\ pc[c] \in Watched /\ Step(c) /\ told' = told
  BY DEF MarkWorkspace, MarkAgent, Running, Watched, Step
<1>1. /\ Typed /\ c \in Actors /\ i \in Identities /\ r \in Record /\ r # None /\ mem[c] = r
      /\ record \in [Identities -> Record \cup {None}] /\ mem \in [Actors -> Record \cup {None}]
      /\ pc \in [Actors -> CallPlaces \cup SubscriberPlaces]
      /\ r.phase # "completed"
  BY <1>0, RunnerHere
<1>2. PICK f \in {"workspace", "agent"}, then \in {"provisioning", "creating"} :
        Write(c, [mem[c] EXCEPT !.inFlight = f], then, "failing")
  BY DEF MarkWorkspace, MarkAgent
<1> DEFINE s == [r EXCEPT !.inFlight = f]
<1>3. s \in Record /\ Ahead(s, r) /\ Ahead(s, s) /\ s.phase # "completed"
  <2>1. s \in Record
    BY <1>1 DEF Record
  <2>2. QED
    BY <1>1, <2>1, AheadOfItself DEF Ahead, SameIds, Record
<1>4. /\ mem'[c] = s
      /\ \/ record' = [record EXCEPT ![i] = s] /\ pc'[c] = then
         \/ record' = record /\ pc'[c] = "failing"
  BY <1>1, <1>2, WriteEffect
<1>5. CASE record' = [record EXCEPT ![i] = s] /\ pc'[c] = then
  <2>1. record'[i] = s
    BY <1>1, <1>5
  <2>2. Marked(c)
    BY <1>0, <1>1, <2>1 DEF Marked
  <2>3. HolderSound(c)'
    BY <1>3, <1>4, <1>5, <2>1 DEF HolderSound, Running, Pending
  <2>4. QED
    BY <1>0, <1>3, <2>1, <2>2, <2>3, StepApart DEF Advance, Heard, AtRest
<1>6. CASE record' = record /\ pc'[c] = "failing"
  <2>1. HolderSound(c)'
    BY <1>1, <1>3, <1>4, <1>6 DEF HolderSound, Running, Pending
  <2>2. QED
    BY <1>0, <1>6, <2>1, SilentAdvance
<1>7. QED
  BY <1>4, <1>5, <1>6

\* The steps of a runner between its writes.
LEMMA WorkAdvance ==
    ASSUME Founded, Growth, NEW c \in Calls,
           Provision(c) \/ Spawn(c) \/ Prompt(c) \/ (Throw(c) /\ Step(c) /\ pc[c] \in Running)
    PROVE  Advance(c)
<1> DEFINE i == IdentityOf[c]
<1>0. pc[c] \in Running /\ Step(c)
  BY DEF Provision, Spawn, Prompt, Running, Step
<1>1. pc[c] \in Watched /\ UNCHANGED <<record, mem, told>>
  BY <1>0 DEF Provision, Spawn, Prompt, Throw, Watched, disk
<1>2. /\ c \in Actors /\ pc \in [Actors -> CallPlaces \cup SubscriberPlaces]
      /\ record[i].phase # "completed" /\ Ahead(mem[c], record[i])
      /\ pc[c] # "failing" => mem[c] = record[i]
      /\ pc[c] \in {"started", "returned"} =>
            mem[c].inFlight = IF mem[c].request.hasPrompt THEN "prompt" ELSE None
  BY <1>0, RunnerHere
<1>3. \/ pc'[c] = "failing"
      \/ /\ pc'[c] \in {"refused", "provisioned", "registered", "returned"} /\ pc[c] # "failing"
         /\ pc'[c] = "returned" => pc[c] = "started"
  BY <1>2 DEF Provision, Spawn, Prompt, Throw
<1>4. HolderSound(c)'
  <2>1. CASE pc'[c] = "failing"
    BY <1>1, <1>2, <2>1 DEF HolderSound, Running, Pending
  <2>2. CASE pc'[c] \in {"refused", "provisioned", "registered", "returned"} /\ pc[c] # "failing"
             /\ (pc'[c] = "returned" => pc[c] = "started")
    BY <1>1, <1>2, <2>2 DEF HolderSound, Running, Pending
  <2>3. QED
    BY <1>3, <2>1, <2>2
<1>5. QED
  BY <1>0, <1>1, <1>4, SilentAdvance

\* The milestones.
LEMMA MilestoneAdvance ==
    ASSUME Founded, Growth, NEW c \in Calls, WorkspaceReady(c) \/ AgentReady(c) \/ AgentCreated(c)
    PROVE  Advance(c)
<1> PICK m \in Record : m = mem[c]
  BY RunnerHere DEF WorkspaceReady, AgentReady, AgentCreated, Running
<1>0. /\ pc[c] \in Running /\ pc[c] # "failing" /\ Step(c) /\ pc[c] \in Watched
  BY DEF WorkspaceReady, AgentReady, AgentCreated, Running, Step, Watched
<1>1. /\ c \in Actors /\ m = record[IdentityOf[c]] /\ m.phase # "completed" /\ IdentityOf[c] \in Identities
      /\ mem \in [Actors -> Record \cup {None}] /\ pc \in [Actors -> CallPlaces \cup SubscriberPlaces]
      /\ pc[c] = "returned" => m.inFlight = IF m.request.hasPrompt THEN "prompt" ELSE None
  BY <1>0, RunnerHere
<1>2. CASE Throw(c)
  BY <1>0, <1>2, WorkAdvance
<1>3. ASSUME NEW s \in Record, NEW then \in {"running", "started"}, Publish(c, s, then, "failing"),
             s.phase # "completed", SameIds(s, m), s.revision = m.revision,
             m.workspace => s.workspace, m.agent => s.agent,
             then = "started" => s.inFlight = IF s.request.hasPrompt THEN "prompt" ELSE None
      PROVE  Advance(c)
  <2>1. Ahead(s, m)
    BY <1>3 DEF Ahead, Record
  <2>2. QED
    BY <1>0, <1>3, <2>1, RunnerTells
<1>4. CASE WorkspaceReady(c)
  <2> DEFINE s == [m EXCEPT !.inFlight = None, !.phase = "workspace_ready", !.workspace = TRUE]
  <2>1. /\ s \in Record /\ s.phase # "completed" /\ SameIds(s, m) /\ s.revision = m.revision
        /\ s.workspace /\ s.agent = m.agent
    <3>1. s \in Record
      BY UpdatesTyped
    <3>2. QED
      BY <3>1 DEF Record, SameIds
  <2>2. Throw(c) \/ Publish(c, s, "running", "failing")
    BY <1>4 DEF WorkspaceReady
  <2> HIDE DEF s
  <2>3. QED
    BY <1>2, <1>3, <2>1, <2>2
<1>5. CASE AgentReady(c)
  <2> DEFINE f == IF m.request.hasPrompt THEN "prompt" ELSE None
             s == [m EXCEPT !.inFlight = f, !.phase = "agent_ready", !.agent = TRUE]
  <2>1. /\ s \in Record /\ s.phase # "completed" /\ SameIds(s, m) /\ s.revision = m.revision
        /\ s.workspace = m.workspace /\ s.agent /\ s.inFlight = f /\ s.request = m.request
    <3>1. f \in {None, "prompt"}
      OBVIOUS
    <3> HIDE DEF f
    <3>2. s \in Record
      BY <3>1, UpdatesTyped
    <3>3. QED
      BY <3>2 DEF Record, SameIds
  <2>2. Throw(c) \/ Publish(c, s, "started", "failing")
    BY <1>5 DEF AgentReady
  <2> HIDE DEF s
  <2>3. QED
    BY <1>2, <1>3, <2>1, <2>2
<1>6. CASE AgentCreated(c)
  <2> DEFINE r == [m EXCEPT !.inFlight = None]
             s == [r EXCEPT !.phase = "prompt_started"]
  <2>1. /\ r \in Record /\ r.request.hasPrompt = m.request.hasPrompt
        /\ s \in Record /\ s.phase # "completed" /\ SameIds(s, m) /\ s.revision = m.revision
        /\ s.workspace = m.workspace /\ s.agent = m.agent
    <3>1. r \in Record
      BY UpdatesTyped
    <3>2. s \in Record
      BY <3>1, UpdatesTyped
    <3>3. QED
      BY <3>1, <3>2 DEF Record, SameIds
  <2>2. \/ Publish(c, s, "running", "failing")
        \/ /\ ~r.request.hasPrompt
           /\ mem' = [mem EXCEPT ![c] = r]
           /\ pc' = [pc EXCEPT ![c] = "running"]
           /\ UNCHANGED <<disk, failures, told>>
    BY <1>6 DEF AgentCreated
  <2>3. CASE /\ ~r.request.hasPrompt
             /\ mem' = [mem EXCEPT ![c] = r]
             /\ pc' = [pc EXCEPT ![c] = "running"]
             /\ UNCHANGED <<disk, failures, told>>
    <3>1. m.inFlight = None /\ r = m
      <4>1. m.inFlight = None
        BY <1>1, <1>6, <2>1, <2>3 DEF AgentCreated
      <4>2. QED
        BY <4>1 DEF Record
    <3> HIDE DEF r
    <3>2. mem'[c] = m /\ pc'[c] = "running" /\ UNCHANGED <<record, told>>
      BY <1>1, <2>3, <3>1 DEF disk
    <3>3. HolderSound(c)'
      BY <1>1, <3>2, AheadOfItself DEF HolderSound, Running, Pending
    <3>4. QED
      BY <1>0, <3>2, <3>3, SilentAdvance
  <2> HIDE DEF s
  <2>4. QED
    BY <1>3, <2>1, <2>2, <2>3
<1>7. QED
  BY <1>4, <1>5, <1>6

\* The end of a runner.
LEMMA EndAdvance ==
    ASSUME Founded, Growth, NEW c \in Calls, Complete(c) \/ FailRun(c)
    PROVE  Advance(c)
<1> DEFINE i == IdentityOf[c]
           r == record[i]
<1> PICK m \in Record : m = mem[c]
  BY RunnerHere DEF Complete, FailRun, Running
<1>0. pc[c] \in Running /\ Step(c) /\ pc[c] \in Watched
  BY DEF Complete, FailRun, Running, Step, Watched
<1>1. /\ Typed /\ c \in Actors /\ i \in Identities /\ r \in Record /\ r # None
      /\ record \in [Identities -> Record \cup {None}] /\ mem \in [Actors -> Record \cup {None}]
      /\ pc \in [Actors -> CallPlaces \cup SubscriberPlaces]
      /\ r.phase # "completed" /\ Ahead(m, r)
  BY <1>0, RunnerHere
<1>2. ASSUME NEW s \in Record, SameIds(s, m), s.revision = m.revision,
             s.workspace = m.workspace, s.agent = m.agent
      PROVE  /\ Published(s) \in Record /\ Published(s) # None /\ Ahead(Published(s), r)
             /\ Published(s).revision > r.revision
  <2>1. {s.revision, m.revision, r.revision} \subseteq Nat
    BY <1>1, <1>2 DEF Record
  <2>2. QED
    BY <1>1, <1>2, <2>1, PublishedFacts DEF Ahead, SameIds
<1>3. ASSUME NEW s \in Record, SameIds(s, m), s.revision = m.revision,
             s.workspace = m.workspace, s.agent = m.agent, PublishLast(c, s),
             s.phase = "completed" => s.inFlight = None
      PROVE  Advance(c)
  <2> DEFINE next == Published(s)
  <2>1. /\ record' = [record EXCEPT ![i] = next]
        /\ told' = [o \in Actors |-> IF o \in Observers(i) THEN next.revision ELSE told[o]]
        /\ pc'[c] = "answered"
    BY <1>1, <1>3 DEF PublishLast, Settle, Published
  <2>2. /\ next # None /\ Ahead(next, r) /\ next.revision > r.revision /\ next \in Record
        /\ next.inFlight = s.inFlight /\ next.phase = s.phase
    BY <1>2, <1>3, PublishedFacts
  <2> HIDE DEF next
  <2>3. record'[i] = next
    BY <1>1, <2>1
  <2>4. Told(c)
    BY <1>0, <1>1, <2>1, <2>2, <2>3 DEF Told, Grows, Observers, Record
  <2>5. HolderSound(c)'
    BY <2>1 DEF HolderSound, Running, Pending
  <2>6. QED
    BY <1>0, <1>3, <2>1, <2>2, <2>3, <2>4, <2>5, StepApart DEF Advance, Heard, AtRest
<1>4. CASE Complete(c)
  <2> DEFINE s == [m EXCEPT !.inFlight = None, !.phase = "completed"]
  <2>1. /\ s \in Record /\ SameIds(s, m) /\ s.revision = m.revision /\ s.inFlight = None
        /\ s.workspace = m.workspace /\ s.agent = m.agent
    <3>1. s \in Record
      BY UpdatesTyped
    <3>2. QED
      BY <3>1 DEF Record, SameIds
  <2>2. \/ PublishLast(c, s)
        \/ /\ DiskFails
           /\ mem' = [mem EXCEPT ![c] = Published(s)]
           /\ pc' = [pc EXCEPT ![c] = "failing"]
           /\ UNCHANGED <<active, result, told>>
    BY <1>4 DEF Complete, Published
  <2> HIDE DEF s
  <2>3. CASE /\ DiskFails
             /\ mem' = [mem EXCEPT ![c] = Published(s)]
             /\ pc' = [pc EXCEPT ![c] = "failing"]
             /\ UNCHANGED <<active, result, told>>
    <3>1. mem'[c] = Published(s) /\ pc'[c] = "failing" /\ UNCHANGED <<record, told>>
      BY <1>1, <2>3 DEF DiskFails, disk
    <3>2. HolderSound(c)'
      BY <1>1, <1>2, <2>1, <3>1 DEF HolderSound, Running, Pending
    <3>3. QED
      BY <1>0, <3>1, <3>2, SilentAdvance
  <2>4. QED
    BY <1>3, <2>1, <2>2, <2>3
<1>5. CASE FailRun(c)
  <2> DEFINE unknown == OutcomeUnknown(m, pc[c] = "refused")
             f == IF unknown THEN m.inFlight ELSE None
             s == [m EXCEPT !.inFlight = f, !.phase = "failed", !.error = "thrown",
                            !.outcomeUnknown = unknown]
  <2>1. unknown \in BOOLEAN /\ f \in {None, "workspace", "agent", "prompt"}
    BY DEF OutcomeUnknown, Record
  <2>2. PublishLast(c, s) \/ (DiskFails /\ Settle(c, Rejected("error")) /\ UNCHANGED told)
    <3>1. s = [m EXCEPT !.inFlight = IF unknown THEN @ ELSE None, !.phase = "failed",
                        !.error = "thrown", !.outcomeUnknown = unknown]
      BY DEF Record
    <3>2. QED
      BY <1>5, <3>1 DEF FailRun
  <2> HIDE DEF unknown, f
  <2>3. /\ s \in Record /\ SameIds(s, m) /\ s.revision = m.revision /\ s.phase = "failed"
        /\ s.workspace = m.workspace /\ s.agent = m.agent
    <3>1. s \in Record
      BY <2>1, UpdatesTyped
    <3>2. QED
      BY <3>1 DEF Record, SameIds
  <2> HIDE DEF s
  <2>4. CASE DiskFails /\ Settle(c, Rejected("error")) /\ UNCHANGED told
    <3>1. record' = record /\ pc'[c] = "answered"
      BY <1>1, <2>4 DEF DiskFails, disk, Settle
    <3>2. QED
      BY <1>0, <2>4, <3>1, AnswerAdvance
  <2>5. QED
    BY <1>3, <2>2, <2>3, <2>4
<1>6. QED
  BY <1>4, <1>5

-----------------------------------------------------------------------------
\* The steps of an admission.
LEMMA EnteredHere ==
    ASSUME Founded, Growth, NEW c \in Calls, pc[c] \in Admitting
    PROVE  LET i == IdentityOf[c] IN
           /\ Typed /\ c \in Actors /\ i \in Identities /\ c # None
           /\ record[i] \in Record \cup {None} /\ AtRest(i) /\ HolderSound(c)
           /\ record \in [Identities -> Record \cup {None}] /\ mem \in [Actors -> Record \cup {None}]
           /\ pc \in [Actors -> CallPlaces \cup SubscriberPlaces] /\ told \in [Actors -> Nat \cup {-1}]
           /\ pc[c] # "queued" =>
                /\ mem[c] \in Record /\ active[i] = None /\ legacy[i] = None
                /\ record[i] = None <=> pc[c] = "recording"
<1> DEFINE i == IdentityOf[c]
<1>1. Typed /\ Ownership /\ Legacies /\ c \in Actors /\ i \in Identities /\ c # None
  BY ActorsDiffer, NoneApart DEF Founded
<1>2. pc[c] # "queued" => mem[c] # None /\ legacy[i] = None
  BY <1>1 DEF Typed, Seats, Holding, Entered, Legacies
<1>3. pc[c] # "queued" => active[i] = None /\ (record[i] = None <=> pc[c] = "recording")
  BY <1>1 DEF Ownership, Entered
<1>4. AtRest(i) /\ HolderSound(c)
  BY <1>1 DEF Growth
<1>5. QED
  BY <1>1, <1>2, <1>3, <1>4, PlacesType DEF Typed, TypeOK

LEMMA AdmitAdvance ==
    ASSUME Founded, Growth, NEW c \in Calls, Admit(c)
    PROVE  Advance(c) /\ (Recorded(c) => legacy[IdentityOf[c]] # None)
<1> DEFINE i == IdentityOf[c]
           r == record[i]
<1>0. /\ Step(c) /\ pc[c] = "queued" /\ c \in Actors /\ i \in Identities
      /\ r \in Record \cup {None} /\ AtRest(i)
      /\ record \in [Identities -> Record \cup {None}] /\ mem \in [Actors -> Record \cup {None}]
      /\ pc \in [Actors -> CallPlaces \cup SubscriberPlaces] /\ told \in [Actors -> Nat \cup {-1}]
      /\ legacy \in Receipts
  BY EnteredHere DEF Step, Admit, Admitting, Typed, TypeOK
<1>1. /\ "queued" \notin Watched /\ "joined" \in Watched
      /\ {"recording", "claiming", "interrupted", "answered"} \cap Watched = {}
      /\ {"joined", "recording", "claiming", "interrupted", "answered"} \cap Running = {}
      /\ {"joined", "recording", "claiming", "answered"} \cap Pending = {}
  BY DEF Watched, Running, Pending
<1>2. record' = record => ~Recorded(c)
  BY DEF Recorded
<1>3. CASE /\ record' = record /\ pc' = [pc EXCEPT ![c] = "answered"]
           /\ told' = told \/ (r # None /\ \E n \in Nat : told' = [told EXCEPT ![c] = n])
  BY <1>0, <1>2, <1>3, AnswerAdvance
<1>4. CASE record' = record /\ r # None /\ Join(c)
  <2>1. /\ pc'[c] = "joined" /\ told'[c] = r.revision
        /\ \A b \in Actors : b # c => told'[b] = told[b]
    BY <1>0, <1>4 DEF Join
  <2>2. HolderSound(c)'
    BY <1>1, <2>1 DEF HolderSound
  <2>3. Apart(c) /\ AtRest(i)'
    BY <1>0, <1>4, StepApart DEF AtRest
  <2>4. Heard(c)
    BY <1>4, <2>1 DEF Heard
  <2>5. QED
    BY <1>2, <1>4, <2>1, <2>2, <2>3, <2>4 DEF Advance, Kept, Untold
<1>5. CASE /\ record' = record /\ told' = told /\ active' = active /\ r # None
           /\ active[i] = None /\ ~IsSettled(r)
           /\ mem' = [mem EXCEPT ![c] = r]
           /\ pc' = [pc EXCEPT ![c] = IF r.inFlight # None THEN "interrupted" ELSE "claiming"]
  <2>1. mem'[c] = r /\ pc'[c] = IF r.inFlight # None THEN "interrupted" ELSE "claiming"
    BY <1>0, <1>5
  <2>2. HolderSound(c)'
    BY <1>1, <1>5, <2>1 DEF HolderSound, IsSettled
  <2>3. QED
    BY <1>0, <1>1, <1>2, <1>5, <2>1, <2>2, SilentAdvance
<1>6. CASE record' = record /\ Begin(c)
  <2>1. PICK m \in InitialRecords(Plan[c]) : mem' = [mem EXCEPT ![c] = m]
    BY <1>6 DEF Begin
  <2>2. m.revision = 0 /\ m.phase = "accepted" /\ m.inFlight = None /\ ~m.outcomeUnknown
    BY DEF InitialRecords, InitialRecord
  <2>3. mem'[c] = m /\ pc'[c] = "recording" /\ told' = told
    BY <1>0, <1>6, <2>1 DEF Begin
  <2>4. HolderSound(c)'
    BY <1>1, <2>2, <2>3 DEF HolderSound
  <2>5. QED
    BY <1>0, <1>1, <1>2, <1>6, <2>3, <2>4, SilentAdvance
<1>7. CASE r = None /\ legacy[i] # None /\ ImportLegacy(c)
  <2> DEFINE exists == legacy[i].agent \in registered
             m == Imported(c, legacy[i], exists)
  <2>1. m \in Record
    <3>1. exists \in BOOLEAN
      OBVIOUS
    <3>2. QED
      BY <1>0, <1>7, <3>1, InitialTyped, Zenon
  <2>2. m.inFlight = None /\ m.revision = 0 /\ IsSettled(m)
    BY DEF Imported, InitialRecord, IsSettled
  <2>3. \/ /\ record' = record /\ pc' = [pc EXCEPT ![c] = "answered"] /\ told' = told
        \/ /\ record' = [record EXCEPT ![i] = m] /\ pc' = [pc EXCEPT ![c] = "answered"]
           /\ told' = [told EXCEPT ![c] = 0]
    BY <1>7, <2>2 DEF ImportLegacy, KeyConflict, Answer, DiskFails, disk
  <2> HIDE DEF m
  <2>4. CASE /\ record' = [record EXCEPT ![i] = m] /\ pc' = [pc EXCEPT ![c] = "answered"]
             /\ told' = [told EXCEPT ![c] = 0]
    <3>1. /\ record'[i] = m /\ pc'[c] = "answered" /\ m # None
          /\ \A b \in Actors : b # c => told'[b] = told[b]
      BY <1>0, <2>1, <2>4, NoneApart
    <3>2. HolderSound(c)' /\ AtRest(i)' /\ Heard(c)
      BY <1>1, <2>2, <3>1 DEF HolderSound, AtRest, Heard
    <3>3. Recorded(c)
      BY <1>7, <2>2, <3>1 DEF Recorded, Untold
    <3>4. QED
      BY <1>0, <1>7, <3>2, <3>3, StepApart DEF Advance
  <2>5. QED
    BY <1>3, <2>3, <2>4
<1>8. \/ /\ record' = record /\ pc' = [pc EXCEPT ![c] = "answered"]
         /\ told' = told \/ (r # None /\ \E n \in Nat : told' = [told EXCEPT ![c] = n])
      \/ record' = record /\ r # None /\ Join(c)
      \/ /\ record' = record /\ told' = told /\ active' = active /\ r # None
         /\ active[i] = None /\ ~IsSettled(r)
         /\ mem' = [mem EXCEPT ![c] = r]
         /\ pc' = [pc EXCEPT ![c] = IF r.inFlight # None THEN "interrupted" ELSE "claiming"]
      \/ record' = record /\ Begin(c)
      \/ r = None /\ legacy[i] # None /\ ImportLegacy(c)
  <2>1. r # None => r.revision \in Nat
    BY <1>0 DEF Record
  <2>2. r # None /\ Replay(c, r) =>
            /\ record' = record /\ pc' = [pc EXCEPT ![c] = "answered"]
            /\ told' = told \/ (r # None /\ \E n \in Nat : told' = [told EXCEPT ![c] = n])
    BY <2>1 DEF Replay, Answer, disk
  <2>3. QED
    BY <2>2 DEF Admit, KeyConflict, Answer, DiskFails, disk, Join, Begin
<1>9. QED
  BY <1>3, <1>4, <1>5, <1>6, <1>7, <1>8

LEMMA EnterAdvance ==
    ASSUME Founded, Growth, NEW c \in Calls, RecordIdentity(c) \/ Claim(c) \/ RejectReset(c)
    PROVE  Advance(c)
<1> DEFINE i == IdentityOf[c]
           m == mem[c]
<1>0. /\ Step(c) /\ pc[c] \in {"recording", "claiming", "resetting"} /\ c \in Actors /\ i \in Identities
      /\ m \in Record /\ HolderSound(c) /\ active[i] = None
      /\ record[i] = None <=> pc[c] = "recording"
      /\ record \in [Identities -> Record \cup {None}] /\ mem \in [Actors -> Record \cup {None}]
      /\ pc \in [Actors -> CallPlaces \cup SubscriberPlaces]
  BY EnteredHere DEF Step, RecordIdentity, Claim, RejectReset, Admitting
<1>1. /\ {"claiming", "answered"} \cap (Watched \cup Running \cup Pending) = {}
  BY DEF Watched, Running, Pending
<1>2. CASE record' = record /\ told' = told /\ pc' = [pc EXCEPT ![c] = "answered"]
  BY <1>0, <1>2, AnswerAdvance
<1>3. CASE record' = record /\ told' = told /\ pc' = pc /\ mem' = mem /\ pc[c] = "claiming"
  <2>1. HolderSound(c)'
    BY <1>0, <1>1, <1>3 DEF HolderSound
  <2>2. QED
    BY <1>0, <1>1, <1>3, <2>1, SilentAdvance
<1>4. CASE /\ record' = [record EXCEPT ![i] = m] /\ pc' = [pc EXCEPT ![c] = "claiming"]
           /\ told' = told /\ mem' = mem /\ pc[c] = "recording"
  <2>1. record'[i] = m /\ pc'[c] = "claiming" /\ m # None
    BY <1>0, <1>4, NoneApart
  <2>2. /\ m.revision = 0 /\ m.phase = "accepted" /\ m.inFlight = None /\ ~m.outcomeUnknown
    BY <1>0, <1>4 DEF HolderSound
  <2>3. HolderSound(c)' /\ AtRest(i)' /\ Heard(c)
    BY <1>1, <1>4, <2>1, <2>2 DEF HolderSound, AtRest, Heard, IsSettled
  <2>4. Recorded(c)
    BY <1>0, <1>4, <2>1, <2>2 DEF Recorded, Untold
  <2>5. QED
    BY <1>0, <2>3, <2>4, StepApart DEF Advance
<1>5. QED
  BY <1>0, <1>2, <1>3, <1>4 DEF RecordIdentity, Claim, RejectReset, Answer, DiskFails, disk

LEMMA StartAdvance ==
    ASSUME Founded, Growth, NEW c \in Calls, Start(c)
    PROVE  Advance(c)
<1> DEFINE i == IdentityOf[c]
<1> PICK m \in Record : m = mem[c]
  BY EnteredHere DEF Start, Admitting
<1>0. /\ Step(c) /\ pc[c] = "claiming" /\ Typed /\ c \in Actors /\ i \in Identities
      /\ m = record[i] /\ m # None /\ m.phase # "completed"
      /\ record \in [Identities -> Record \cup {None}] /\ mem \in [Actors -> Record \cup {None}]
      /\ pc \in [Actors -> CallPlaces \cup SubscriberPlaces] /\ told \in [Actors -> Nat \cup {-1}]
  BY EnteredHere, NoneApart DEF Step, Start, Admitting, HolderSound, IsSettled
<1>1. /\ "running" \in Running \cap Watched /\ "claiming" \notin Watched
      /\ "resetting" \notin Watched \cup Running \cup Pending
      /\ "running" \notin Pending /\ Apart(c)
  BY <1>0, StepApart DEF Watched, Running, Pending
<1>2. CASE /\ record' = record /\ told' = [told EXCEPT ![c] = m.revision] /\ mem' = mem
           /\ pc' = [pc EXCEPT ![c] = "running"]
  <2>1. /\ pc'[c] = "running" /\ told'[c] = m.revision
        /\ \A b \in Actors : b # c => told'[b] = told[b]
    BY <1>0, <1>2
  <2>2. HolderSound(c)'
    BY <1>0, <1>1, <1>2, <2>1, AheadOfItself DEF HolderSound
  <2>3. AtRest(i)' /\ Heard(c)
    BY <1>0, <1>2, <2>1 DEF AtRest, Heard
  <2>4. QED
    BY <1>1, <1>2, <2>1, <2>2, <2>3 DEF Advance, Kept, Untold
<1>3. CASE Publish(c, Retried(m), "running", "resetting")
  <2> DEFINE s == Retried(m)
  <2>1. /\ s \in Record /\ s.revision = m.revision /\ SameIds(s, m) /\ s.phase # "completed"
        /\ s.workspace = m.workspace /\ s.agent = m.agent
    <3>1. s \in Record
      BY UpdatesTyped DEF Retried
    <3>2. QED
      BY <3>1 DEF Retried, Record, SameIds
  <2> HIDE DEF s
  <2>2. PICK next \in Record :
          /\ next = Published(s)
          /\ mem' = [mem EXCEPT ![c] = next]
          /\ \/ /\ record' = [record EXCEPT ![i] = next]
                /\ pc' = [pc EXCEPT ![c] = "running"]
                /\ told' = [o \in Actors |-> IF o \in Observers(i) THEN next.revision ELSE told[o]]
             \/ record' = record /\ pc' = [pc EXCEPT ![c] = "resetting"] /\ told' = told
    BY <1>0, <1>3, <2>1, PublishEffect DEF Published, s
  <2>3. /\ next # None /\ Ahead(next, m) /\ Ahead(next, next) /\ next.revision > m.revision
        /\ next.phase # "completed"
    <3>1. {next.revision, s.revision, m.revision} \subseteq Nat
      BY <2>1, <2>2 DEF Record
    <3>2. QED
      BY <2>1, <2>2, <3>1, PublishedFacts, AheadOfItself DEF Ahead, SameIds
  <2>4. CASE /\ record' = [record EXCEPT ![i] = next]
             /\ pc' = [pc EXCEPT ![c] = "running"]
             /\ told' = [o \in Actors |-> IF o \in Observers(i) THEN next.revision ELSE told[o]]
    <3>1. record'[i] = next /\ pc'[c] = "running" /\ mem'[c] = next
      BY <1>0, <2>2, <2>4
    <3>2. Told(c)
      BY <1>0, <2>3, <2>4, <3>1 DEF Told, Grows, Observers, Record
    <3>3. HolderSound(c)'
      BY <1>1, <2>3, <3>1 DEF HolderSound
    <3>4. QED
      BY <1>1, <2>3, <3>1, <3>2, <3>3 DEF Advance, Heard, AtRest
  <2>5. CASE record' = record /\ pc' = [pc EXCEPT ![c] = "resetting"] /\ told' = told
    <3>1. pc'[c] = "resetting"
      BY <1>0, <2>5
    <3>2. HolderSound(c)'
      BY <1>1, <3>1 DEF HolderSound
    <3>3. QED
      BY <1>0, <1>1, <2>5, <3>1, <3>2, SilentAdvance
  <2>6. QED
    BY <2>2, <2>4, <2>5
<1>4. QED
  BY <1>2, <1>3 DEF Start, disk

\* Who records that a creation was cut off.
LEMMA CutOffTells ==
    ASSUME Founded, Growth, NEW a \in Actors, pc[a] \in Pending, FirstToRecord(a), mem[a] \in Record,
           record[IdentityOf[a]] # None, record' = [record EXCEPT ![IdentityOf[a]] = CutOff(mem[a])],
           told' = [o \in Actors |->
                IF o \in Observers(IdentityOf[a]) THEN CutOff(mem[a]).revision ELSE told[o]]
    PROVE  Told(a) /\ AtRest(IdentityOf[a])'
<1> DEFINE i == IdentityOf[a]
           r == record[i]
           s == CutOff(mem[a])
<1>1. /\ Typed /\ i \in Identities /\ r \in Record /\ r.phase # "completed"
      /\ mem[a] = r \/ r = s
      /\ record \in [Identities -> Record \cup {None}]
  BY ActorsDiffer DEF Founded, Growth, HolderSound, Typed, TypeOK
<1>2. s \in Record /\ s # None /\ Grows(s, r) /\ s.phase = "failed"
  <2>1. s \in Record /\ s.revision = mem[a].revision + 1 /\ Ahead(s, mem[a]) /\ s.phase = "failed"
    BY CutOffFacts
  <2>2. mem[a] = r => s.revision # r.revision
    BY <1>1, <2>1 DEF Record
  <2>3. QED
    BY <1>1, <2>1, <2>2, AheadOfItself, NoneApart DEF Grows
<1> HIDE DEF s
<1>3. record'[i] = s
  BY <1>1 DEF s
<1>4. \A b \in Actors : told'[b] = IF b \in Observers(i) THEN s.revision ELSE told[b]
  BY DEF s
<1>5. QED
  BY <1>2, <1>3, <1>4 DEF Told, AtRest, Observers, s

LEMMA InterruptedAdvance ==
    ASSUME Founded, Growth, NEW c \in Calls, Interrupted(c)
    PROVE  Advance(c)
<1> DEFINE i == IdentityOf[c]
<1>0. /\ Step(c) /\ pc[c] = "interrupted" /\ c \in Actors /\ i \in Identities
      /\ mem[c] \in Record /\ record[i] # None
      /\ pc \in [Actors -> CallPlaces \cup SubscriberPlaces]
  BY EnteredHere DEF Step, Interrupted, Admitting
<1>1. CASE /\ record' = [record EXCEPT ![i] = CutOff(mem[c])]
           /\ told' = [o \in Actors |-> IF o \in Observers(i) THEN CutOff(mem[c]).revision ELSE told[o]]
           /\ pc' = [pc EXCEPT ![c] = "answered"]
  <2>1. Told(c) /\ AtRest(i)'
    BY <1>0, <1>1, CutOffTells DEF Interrupted, Pending
  <2>2. pc'[c] = "answered"
    BY <1>0, <1>1
  <2>3. HolderSound(c)'
    BY <2>2 DEF HolderSound, Running, Pending
  <2>4. QED
    BY <1>0, <2>1, <2>2, <2>3, StepApart DEF Advance, Heard
<1>2. CASE record' = record /\ told' = told /\ pc' = [pc EXCEPT ![c] = "answered"]
  BY <1>0, <1>2, AnswerAdvance
<1>3. QED
  BY <1>1, <1>2 DEF Interrupted, Answer, DiskFails, disk, CutOff, Published

\* Every step of a call.
LEMMA StepAdvance ==
    ASSUME Founded, Growth, NEW c \in Calls, Step(c)
    PROVE  /\ Advance(c)
           /\ Recorded(c) => pc[c] = "recording" \/ legacy[IdentityOf[c]] # None
<1>1. CASE Admit(c)
  BY <1>1, AdmitAdvance
<1>2. CASE Interrupted(c) \/ RecordIdentity(c) \/ Claim(c) \/ Start(c) \/ RejectReset(c)
  <2>1. pc[c] \in Entered /\ pc[c] \in Admitting
    BY <1>2 DEF Interrupted, RecordIdentity, Claim, Start, RejectReset, Entered, Admitting
  <2>2. record[IdentityOf[c]] = None => pc[c] = "recording"
    BY <2>1, EnteredHere DEF Entered
  <2>3. QED
    BY <1>2, <2>2, InterruptedAdvance, EnterAdvance, StartAdvance DEF Recorded
<1>3. CASE pc[c] \in Running
  <2>1. record[IdentityOf[c]] # None
    BY <1>3, RunnerHere
  <2>2. Advance(c)
    BY <1>3, MarkAdvance, WorkAdvance, MilestoneAdvance, EndAdvance DEF Step, Running, Admit,
       Interrupted, RecordIdentity, Claim, Start, RejectReset
  <2>3. QED
    BY <2>1, <2>2 DEF Recorded
<1>4. QED
  BY <1>1, <1>2, <1>3 DEF Step, Running, MarkWorkspace, Provision, WorkspaceReady, MarkAgent, Spawn,
     AgentReady, Prompt, AgentCreated, Complete, FailRun

-----------------------------------------------------------------------------
\* The steps of a subscriber.
LEMMA SubscriberAdvance ==
    ASSUME Founded, Growth, NEW s \in Subscribers,
           Subscribe(s) \/ Look(s) \/ Flag(s) \/ Unsubscribe(s)
    PROVE  Advance(s) /\ ~Recorded(s) /\ pc[s] \notin Running \cup Entered
<1> DEFINE i == IdentityOf[s]
<1>0. /\ Typed /\ s \in Actors /\ i \in Identities
      /\ record[i] \in Record \cup {None} /\ AtRest(i) /\ HolderSound(s)
      /\ record \in [Identities -> Record \cup {None}] /\ mem \in [Actors -> Record \cup {None}]
      /\ pc \in [Actors -> CallPlaces \cup SubscriberPlaces] /\ told \in [Actors -> Nat \cup {-1}]
  BY ActorsDiffer, PlacesType DEF Founded, Growth, Typed, TypeOK
<1>1. pc[s] \in {"idle", "waiting", "flagging", "watching"} /\ pc[s] \notin Running \cup Entered
  BY DEF Subscribe, Look, Flag, Unsubscribe, Running, Entered, Admitting
<1>2. ASSUME \A j \in Identities : j # i => record'[j] = record[j],
             \A b \in Actors : b # s => mem'[b] = mem[b] /\ pc'[b] = pc[b]
      PROVE  Apart(s)
  BY <1>2 DEF Apart, Subscribe, Look, Flag, Unsubscribe
<1>3. ASSUME record' = record, HolderSound(s)', Heard(s),
             \A b \in Actors : b # s => mem'[b] = mem[b] /\ pc'[b] = pc[b] /\ told'[b] = told[b]
      PROVE  Advance(s) /\ ~Recorded(s)
  BY <1>0, <1>2, <1>3 DEF Advance, Kept, Untold, AtRest, Recorded
<1>4. /\ {"idle", "waiting", "flagging", "answered"} \cap Watched = {} /\ "watching" \in Watched
      /\ {"idle", "waiting", "watching", "answered"} \cap (Running \cup Pending) = {}
      /\ "flagging" \notin Running
  BY DEF Watched, Running, Pending
<1>5. ASSUME record' = record, NEW p \in {"waiting", "answered"}, pc' = [pc EXCEPT ![s] = p], told' = told,
             \A b \in Actors : b # s => mem'[b] = mem[b]
      PROVE  Advance(s) /\ ~Recorded(s)
  <2>1. pc'[s] = p /\ \A b \in Actors : b # s => pc'[b] = pc[b]
    BY <1>0, <1>5
  <2>2. HolderSound(s)' /\ Heard(s)
    BY <1>4, <1>5, <2>1 DEF HolderSound, Heard
  <2>3. QED
    BY <1>3, <1>5, <2>1, <2>2
<1>6. CASE Subscribe(s) \/ Unsubscribe(s)
  <2>1. /\ UNCHANGED <<record, mem, told>>
        /\ pc' = [pc EXCEPT ![s] = "waiting"] \/ pc' = [pc EXCEPT ![s] = "answered"]
    BY <1>6 DEF Subscribe, Unsubscribe, disk
  <2>2. QED
    BY <1>1, <1>5, <2>1
<1>7. CASE Look(s)
  <2> DEFINE r == record[i]
  <2>1. CASE r # None /\ r.inFlight # None /\ active[i] = None /\ pc' = [pc EXCEPT ![s] = "flagging"]
             /\ mem' = [mem EXCEPT ![s] = r] /\ UNCHANGED <<record, told, active>>
    <3>1. pc'[s] = "flagging" /\ mem'[s] = r
      BY <1>0, <2>1
    <3>2. r.phase # "completed"
      BY <1>0, <2>1 DEF AtRest
    <3>3. HolderSound(s)' /\ Heard(s)
      BY <1>4, <2>1, <3>1, <3>2 DEF HolderSound, Heard
    <3>4. QED
      BY <1>0, <1>1, <1>3, <2>1, <3>3
  <2>2. CASE /\ told' = [told EXCEPT ![s] = IF r = None THEN told[s] ELSE r.revision]
             /\ pc' = [pc EXCEPT ![s] = "watching"]
             /\ UNCHANGED <<record, mem>>
    <3>1. pc'[s] = "watching" /\ told'[s] = IF r = None THEN told[s] ELSE r.revision
      BY <1>0, <2>2
    <3>2. HolderSound(s)' /\ Heard(s)
      BY <1>4, <2>2, <3>1 DEF HolderSound, Heard
    <3>3. QED
      BY <1>0, <1>1, <1>3, <2>2, <3>2
  <2>3. CASE record' = record /\ pc' = [pc EXCEPT ![s] = "answered"] /\ UNCHANGED <<mem, told>>
    BY <1>1, <1>5, <2>3
  <2>4. QED
    BY <1>7, <2>1, <2>2, <2>3 DEF Look, DiskFails, disk
<1>8. CASE Flag(s)
  <2>1. /\ pc[s] = "flagging" /\ FirstToRecord(s) /\ mem[s] \in Record /\ record[i] # None
        /\ pc[s] \in Pending /\ UnknownOutcome(mem[s]) \in Record
        /\ Publish(s, UnknownOutcome(mem[s]), "watching", "answered")
    <3>1. mem[s] \in Record /\ record[i] # None
      BY <1>0, <1>8 DEF Flag, Typed, Seats, Holding, Founded, Ownership
    <3>2. UnknownOutcome(mem[s]) \in Record
      BY <3>1, UpdatesTyped
    <3>3. QED
      BY <1>8, <3>1, <3>2 DEF Flag, Pending
  <2>2. PICK next \in Record :
          /\ next = CutOff(mem[s])
          /\ mem' = [mem EXCEPT ![s] = next]
          /\ \/ /\ record' = [record EXCEPT ![i] = next]
                /\ pc' = [pc EXCEPT ![s] = "watching"]
                /\ told' = [o \in Actors |-> IF o \in Observers(i) THEN next.revision ELSE told[o]]
             \/ record' = record /\ pc' = [pc EXCEPT ![s] = "answered"] /\ told' = told
    BY <1>0, <2>1, PublishEffect DEF CutOff, Published
  <2>3. CASE /\ record' = [record EXCEPT ![i] = next]
             /\ pc' = [pc EXCEPT ![s] = "watching"]
             /\ told' = [o \in Actors |-> IF o \in Observers(i) THEN next.revision ELSE told[o]]
    <3>1. Told(s) /\ AtRest(i)'
      <4>1. /\ record' = [record EXCEPT ![i] = CutOff(mem[s])]
            /\ told' = [o \in Actors |->
                    IF o \in Observers(i) THEN CutOff(mem[s]).revision ELSE told[o]]
        BY <2>2, <2>3
      <4>2. QED
        BY <1>0, <2>1, <4>1, CutOffTells
    <3>2. pc'[s] = "watching" /\ Apart(s)
      BY <1>0, <1>2, <2>2, <2>3
    <3>3. HolderSound(s)'
      BY <1>4, <3>2 DEF HolderSound
    <3>4. QED
      BY <1>1, <2>1, <3>1, <3>2, <3>3 DEF Advance, Heard, Recorded
  <2>4. CASE record' = record /\ pc' = [pc EXCEPT ![s] = "answered"] /\ told' = told
    BY <1>0, <1>1, <1>5, <2>2, <2>4
  <2>5. QED
    BY <2>2, <2>3, <2>4
<1>9. QED
  BY <1>1, <1>6, <1>7, <1>8

-----------------------------------------------------------------------------
\* Every step of the service.
CreateStep == \E c \in Calls : Create(c)

CallStep == \E c \in Calls : Step(c)

SubscriberStep ==
    \E s \in Subscribers : Subscribe(s) \/ Look(s) \/ Flag(s) \/ Unsubscribe(s)

LEMMA StillGrowth ==
    ASSUME Founded, Growth,
           CreateStep \/ (\E i \in Identities : Delete(i)) \/ UNCHANGED vars \/ Crash
    PROVE  Growth'
<1>0. /\ \A a \in Actors : IdentityOf[a] \in Identities
      /\ pc \in [Actors -> CallPlaces \cup SubscriberPlaces]
  BY ActorsDiffer, PlacesType DEF Founded, Typed, TypeOK
<1>1. UNCHANGED <<record, told>>
  BY DEF CreateStep, Create, Delete, Crash, vars, disk
<1>2. ASSUME UNCHANGED <<active, mem>>,
             \A a \in Actors : pc'[a] \in {pc[a], "queued"}
      PROVE  Growth'
  <2>1. "queued" \notin Watched \cup Running \cup Pending
    BY DEF Watched, Running, Pending
  <2>2. \A a \in Actors : HolderSound(a)'
    BY <1>1, <1>2, <2>1 DEF Growth, HolderSound
  <2>3. \A a \in Actors : Current(a)'
    BY <1>1, <1>2, <2>1 DEF Growth, Current
  <2>4. QED
    BY <1>1, <2>2, <2>3 DEF Growth, AtRest
<1>3. CASE CreateStep
  BY <1>0, <1>2, <1>3 DEF CreateStep, Create
<1>4. CASE (\E i \in Identities : Delete(i)) \/ UNCHANGED vars
  BY <1>2, <1>4 DEF Delete, vars
<1>5. CASE Crash
  <2>1. \A a \in Actors : pc'[a] \in {"idle", "answered", "lost"}
    BY <1>5 DEF Crash, Answered
  <2>2. {"idle", "answered", "lost"} \cap (Watched \cup Running \cup Pending) = {}
    BY DEF Watched, Running, Pending
  <2>3. \A a \in Actors : HolderSound(a)' /\ Current(a)'
    BY <1>1, <2>1, <2>2 DEF Growth, HolderSound, Current
  <2>4. QED
    BY <1>1, <2>3 DEF Growth, AtRest
<1>6. QED
  BY <1>3, <1>4, <1>5

LEMMA NextGrowth == ASSUME Founded, Growth, [Next]_vars PROVE Growth'
<1>1. ASSUME NEW c \in Calls, Step(c) PROVE Growth'
  <2>1. c \in Actors /\ c \notin Subscribers
    BY ActorsDiffer
  <2>2. Advance(c) /\ (Recorded(c) => pc[c] = "recording" \/ legacy[IdentityOf[c]] # None)
    BY <1>1, StepAdvance
  <2>3. QED
    BY <2>1, <2>2, AdvanceGrowth
<1>2. ASSUME NEW s \in Subscribers, Subscribe(s) \/ Look(s) \/ Flag(s) \/ Unsubscribe(s)
      PROVE  Growth'
  BY <1>2, ActorsDiffer, SubscriberAdvance, AdvanceGrowth
<1>3. CallStep \/ SubscriberStep \/ CreateStep \/ (\E i \in Identities : Delete(i)) \/ Crash
      \/ UNCHANGED vars
  BY DEF Next, CreateStep, CallStep, SubscriberStep
<1>4. QED
  BY <1>1, <1>2, <1>3, StillGrowth DEF CallStep, SubscriberStep

LEMMA InitGrowth == Init => Growth
<1> SUFFICES ASSUME Init PROVE Growth
  OBVIOUS
<1>1. \A a \in Actors : IdentityOf[a] \in Identities
  BY ActorsDiffer
<1>2. "idle" \notin Watched \cup Running \cup Pending
  BY DEF Watched, Running, Pending
<1>3. QED
  BY <1>1, <1>2 DEF Init, Growth, AtRest, HolderSound, Current

LEMMA AlwaysGrowth == Spec => [](Founded /\ Growth)
<1>1. Founded /\ Growth /\ [Next]_vars => Growth'
  BY NextGrowth
<1>2. Spec => []Founded
  BY AlwaysFounded DEF Founded
<1>3. QED
  BY <1>1, <1>2, InitGrowth, PTL DEF Spec

\* An observer of a creation has been told its latest revision.
THEOREM ObserversAreCurrent == Spec => []ObserverIsCurrent
<1>1. Growth => ObserverIsCurrent
  BY DEF Growth, Current, Watched, ObserverIsCurrent
<1>2. QED
  BY <1>1, AlwaysGrowth, PTL

\* What a step does to a record, as the property says it.
GrowsOnly(i) ==
    record[i] # None =>
        LET r == record[i]
            s == record'[i]
        IN  /\ s # None /\ s.revision >= r.revision
            /\ s.revision = r.revision => Snapshot(s) = Snapshot(r)
            /\ s.request = r.request /\ s.workspaceId = r.workspaceId /\ s.agentId = r.agentId
            /\ r.workspace => s.workspace
            /\ r.agent => s.agent
            /\ r.phase = "completed" => s = r

LEMMA AdvanceGrows ==
    ASSUME Founded, NEW a \in Actors, Advance(a), NEW i \in Identities PROVE GrowsOnly(i)
<1> DEFINE r == record[i]
<1>0. Typed /\ (r # None => r \in Record)
  BY DEF Founded, Typed, TypeOK
<1>1. r # None => r.revision \in Nat
  BY <1>0 DEF Record
<1>2. CASE record'[i] = record[i]
  BY <1>1, <1>2 DEF GrowsOnly
<1>3. CASE i = IdentityOf[a] /\ Recorded(a)
  BY <1>3 DEF GrowsOnly, Recorded
<1>4. CASE i = IdentityOf[a] /\ Marked(a)
  <2>1. /\ record'[i] # None /\ record'[i].revision = r.revision
        /\ SameIds(record'[i], r) /\ Snapshot(record'[i]) = Snapshot(r)
        /\ record'[i].workspace = r.workspace /\ record'[i].agent = r.agent /\ r # None
    BY <1>0, <1>4, MarkedFacts
  <2>2. r.phase # "completed"
    BY <1>4 DEF Marked
  <2>3. record'[i].revision >= r.revision
    BY <1>1, <2>1
  <2>4. QED
    BY <2>1, <2>2, <2>3 DEF GrowsOnly, SameIds
<1>5. CASE i = IdentityOf[a] /\ Told(a)
  BY <1>1, <1>5 DEF GrowsOnly, Told, Grows, Ahead, SameIds
<1>6. QED
  BY <1>2, <1>3, <1>4, <1>5 DEF Advance, Apart, Kept

LEMMA NextGrows ==
    ASSUME Founded, Growth, [Next]_vars, NEW i \in Identities PROVE GrowsOnly(i)
<1>1. CASE CallStep
  BY <1>1, ActorsDiffer, StepAdvance, AdvanceGrows DEF CallStep
<1>2. CASE SubscriberStep
  BY <1>2, ActorsDiffer, SubscriberAdvance, AdvanceGrows DEF SubscriberStep
<1>3. CASE record' = record
  <2>1. record[i] # None => record[i].revision \in Nat
    BY DEF Founded, Typed, TypeOK, Record
  <2>2. QED
    BY <1>3, <2>1 DEF GrowsOnly
<1>4. QED
  BY <1>1, <1>2, <1>3 DEF Next, CallStep, SubscriberStep, Create, Delete, Crash, vars, disk

\* A record only grows.
THEOREM RecordsOnlyGrow == Spec => RecordOnlyGrows
<1>1. Founded /\ Growth /\ [Next]_vars => \A i \in Identities : GrowsOnly(i)
  BY NextGrows
<1>2. (\A i \in Identities : GrowsOnly(i)) =>
        [\A i \in Identities : record[i] # None =>
            LET r == record[i]
                s == record'[i]
            IN  /\ s # None /\ s.revision >= r.revision
                /\ s.revision = r.revision => Snapshot(s) = Snapshot(r)
                /\ s.request = r.request /\ s.workspaceId = r.workspaceId /\ s.agentId = r.agentId
                /\ r.workspace => s.workspace
                /\ r.agent => s.agent
                /\ r.phase = "completed" => s = r]_vars
  BY DEF GrowsOnly
<1>3. QED
  BY <1>1, <1>2, AlwaysGrowth, PTL DEF Spec, RecordOnlyGrows

-----------------------------------------------------------------------------
(* Who has which id.                                                         *)

Completed(i, id) ==
    /\ record[i] # None /\ record[i].phase = "completed"
    /\ id \in {record[i].workspaceId, record[i].agentId}

\* What was made was claimed first.
MadeIsClaimed(i) ==
    LET r == record[i] IN
    /\ provisions[i] > 0 => r # None /\ r.request.kind = "workspace" /\ claim[r.workspaceId] = i
    /\ spawns[i] > 0 => r # None /\ r.agentId # None /\ claim[r.agentId] = i

\* What is registered was there before or is claimed, what was there before is
\* there or was part of a completed creation, and then only free for others.
IdSound(id) ==
    /\ id \in registered => id \in Existing \/ claim[id] # None
    /\ id \in Existing \ registered => \E i \in Identities : Completed(i, id)
    /\ id \in Existing /\ claim[id] \in Identities => Freed(id, claim[id])
    /\ claim[id] = "torn" => TornClaims

\* Who was refused has an id in its record that is not its own.
RefusalSound(c) ==
    result[c] = Rejected("id_conflict") =>
        LET r == record[IdentityOf[c]] IN
        /\ r # None
        /\ \E id \in {r.workspaceId, r.agentId} \ {None} :
            id \in Existing \/ claim[id] \notin {None, IdentityOf[c]}

Owners ==
    /\ \A i \in Identities : MadeIsClaimed(i)
    /\ \A id \in Ids : IdSound(id)
    /\ \A c \in Calls : pc[c] \in Running => ClaimsHeld(IdentityOf[c])
    /\ \A c \in Calls : RefusalSound(c)

LEMMA InitOwners == Init => Owners
<1> SUFFICES ASSUME Init PROVE Owners
  OBVIOUS
<1>1. None # "torn" /\ \A c \in Calls : c \in Actors
  BY NoneAssumption, ActorsDiffer
<1>2. None # Rejected("id_conflict")
  <2>1. Rejected("id_conflict") \in Answers
    BY DEF Rejected, Answers
  <2>2. QED
    BY <2>1, AnswerAssumption
<1>3. QED
  BY <1>1, <1>2, NoneAssumption DEF Init, Owners, MadeIsClaimed, IdSound, RefusalSound, Running, Ids

\* The ids of a record are ids.
LEMMA RecordIds ==
    ASSUME NEW r \in Record
    PROVE  /\ r.workspaceId # None => r.workspaceId \in Ids
           /\ r.agentId # None => r.agentId \in Ids
           /\ r.request.kind = "workspace" => r.workspaceId # None
           /\ r.request.hasAgent => r.agentId # None
  BY DEF Record, Ids

\* Only a claim changes claims, only making and deleting change the registries.
LEMMA DiskChange ==
    ASSUME NEW c, Step(c)
    PROVE  /\ claim' = claim \/ Claim(c)
           /\ registered' = registered \/ Provision(c) \/ Spawn(c)
<1>1. ASSUME Admit(c) PROVE claim' = claim /\ registered' = registered
  BY <1>1 DEF Admit, KeyConflict, Join, Replay, Begin, ImportLegacy, DiskFails, disk
<1>2. ASSUME Interrupted(c) \/ RecordIdentity(c) \/ Start(c) \/ RejectReset(c)
      PROVE  claim' = claim /\ registered' = registered
  BY <1>2 DEF Interrupted, RecordIdentity, Start, RejectReset, Publish, DiskFails, disk
<1>3. ASSUME MarkWorkspace(c) \/ WorkspaceReady(c) \/ MarkAgent(c) \/ AgentReady(c)
      PROVE  claim' = claim /\ registered' = registered
  BY <1>3 DEF MarkWorkspace, WorkspaceReady, MarkAgent, AgentReady, Write, Publish, Throw, DiskFails, disk
<1>4. ASSUME Prompt(c) \/ AgentCreated(c) \/ Complete(c) \/ FailRun(c)
      PROVE  claim' = claim /\ registered' = registered
  BY <1>4 DEF Prompt, AgentCreated, Complete, FailRun, Publish, PublishLast, DiskFails, disk
<1>5. (Provision(c) \/ Spawn(c) => claim' = claim) /\ (Claim(c) => registered' = registered)
  BY DEF Provision, Spawn, Claim, disk
<1>6. QED
  BY <1>1, <1>2, <1>3, <1>4, <1>5 DEF Step

\* A step keeps claims, the ids of every record, and completed records.
LEMMA ClaimChange ==
    ASSUME Founded, [Next]_vars, NEW id \in Ids, claim'[id] # claim[id]
    PROVE  \E c \in Calls :
                /\ Claim(c) /\ claim[id] = None /\ id \notin registered /\ id \in Unclaimed(c)
                /\ \/ claim'[id] = IdentityOf[c]
                   \/ claim'[id] = "torn" /\ TornClaims
<1>1. claim \in [Ids -> Identities \cup {None, "torn"}]
  BY DEF Founded, Typed, TypeOK
<1>2. \E c \in Calls : Claim(c)
  BY DiskChange DEF Next, vars, disk, Create, Subscribe, Look, Flag, Unsubscribe, Delete, Crash,
     Publish, DiskFails
<1>3. PICK c \in Calls : Claim(c)
  BY <1>2
<1>4. QED
  BY <1>1, <1>3 DEF Claim, Taken, disk

LEMMA JournalStays ==
    ASSUME Founded, Growth, [Next]_vars
    PROVE  /\ \A i \in Identities : record[i] # None =>
                /\ record'[i] # None /\ SameIds(record'[i], record[i])
                /\ record[i].phase = "completed" => record'[i] = record[i]
           /\ \A id \in Ids : claim[id] # None => claim'[id] = claim[id]
<1>1. \A i \in Identities : GrowsOnly(i)
  BY NextGrows
<1>2. \A id \in Ids : claim[id] # None => claim'[id] = claim[id]
  BY ClaimChange
<1>3. QED
  BY <1>1, <1>2 DEF GrowsOnly, SameIds

LEMMA CompletedStays ==
    ASSUME Founded, Growth, [Next]_vars, NEW id
    PROVE  /\ \A i \in Identities : Completed(i, id) => Completed(i, id)'
           /\ \A i \in Identities : Freed(id, i) => Freed(id, i)'
<1>1. \A i \in Identities : Completed(i, id) => Completed(i, id)'
  BY JournalStays DEF Completed
<1>2. QED
  BY <1>1 DEF Freed, Completed

\* Only the runner of a creation makes anything for it, under its ids.
LEMMA MakingStep ==
    ASSUME Founded, Growth, Owners, NEW c \in Calls, Provision(c) \/ Spawn(c)
    PROVE  LET r == record[IdentityOf[c]] IN
           /\ record' = record /\ claim' = claim /\ r \in Record /\ r # None
           /\ Provision(c) =>
                /\ mem[c].workspaceId = r.workspaceId /\ r.request.kind = "workspace"
                /\ claim[r.workspaceId] = IdentityOf[c] /\ r.workspaceId # None
           /\ Spawn(c) =>
                /\ mem[c].agentId = r.agentId
                /\ claim[r.agentId] = IdentityOf[c] /\ r.agentId # None
<1> DEFINE i == IdentityOf[c]
<1>1. /\ c \in Actors /\ i \in Identities /\ Typed /\ Ownership /\ c # None
  BY ActorsDiffer, NoneApart DEF Founded
<1>2. pc[c] \in Running
  BY DEF Provision, Spawn, Running
<1>3. record[i] # None /\ record[i] \in Record /\ active[i] = c
  BY <1>1, <1>2 DEF Ownership, OneRunner, Typed, TypeOK
<1>4. SameIds(mem[c], record[i]) /\ ClaimsHeld(i)
  BY <1>1, <1>2 DEF Growth, HolderSound, Ahead, Owners
<1>5. Suits(pc[c], mem[c])
  BY <1>1 DEF Typed, Seats
<1>6. QED
  BY <1>1, <1>3, <1>4, <1>5, RecordIds DEF Provision, Spawn, SameIds, ClaimsHeld, Suits

LEMMA EffectChange ==
    ASSUME Founded, [Next]_vars, NEW i \in Identities
    PROVE  /\ provisions'[i] # provisions[i] => \E c \in Calls : i = IdentityOf[c] /\ Provision(c)
           /\ spawns'[i] # spawns[i] => \E c \in Calls : i = IdentityOf[c] /\ Spawn(c)
<1>1. provisions \in [Identities -> Nat] /\ spawns \in [Identities -> Nat]
  BY DEF Founded, Typed, TypeOK
<1>2. provisions' # provisions => \E c \in Calls : Provision(c)
  BY ZenonT(40)
  DEF Next, Step, vars, effects, Create, Subscribe, Look, Flag, Unsubscribe, Delete, Crash, Admit,
     Interrupted, RecordIdentity, Claim, Start, RejectReset, MarkWorkspace, WorkspaceReady, MarkAgent,
     Spawn, AgentReady, Prompt, AgentCreated, Complete, FailRun
<1>3. spawns' # spawns => \E c \in Calls : Spawn(c)
  BY ZenonT(40)
  DEF Next, Step, vars, effects, Create, Subscribe, Look, Flag, Unsubscribe, Delete, Crash, Admit,
     Interrupted, RecordIdentity, Claim, Start, RejectReset, MarkWorkspace, WorkspaceReady, MarkAgent,
     Provision, AgentReady, Prompt, AgentCreated, Complete, FailRun
<1>4. \A c \in Calls : Provision(c) /\ provisions'[i] # provisions[i] => i = IdentityOf[c]
  BY <1>1 DEF Provision
<1>5. \A c \in Calls : Spawn(c) /\ spawns'[i] # spawns[i] => i = IdentityOf[c]
  BY <1>1 DEF Spawn
<1>6. QED
  BY <1>2, <1>3, <1>4, <1>5

LEMMA RegistryChange ==
    ASSUME Founded, [Next]_vars, NEW id
    PROVE  /\ id \in registered' \ registered =>
                \E c \in Calls : \/ Provision(c) /\ id = mem[c].workspaceId
                                 \/ Spawn(c) /\ id = mem[c].agentId
           /\ id \in registered \ registered' => \E i \in Identities : Completed(i, id)
<1>1. registered' # registered =>
        \/ \E c \in Calls : Provision(c) \/ Spawn(c)
        \/ \E i \in Identities : Delete(i)
  BY DiskChange DEF Next, vars, disk, Create, Subscribe, Look, Flag, Unsubscribe, Crash, Publish,
     DiskFails
<1>2. \A c \in Calls : Provision(c) => registered' \in {registered, registered \cup {mem[c].workspaceId}}
  BY DEF Provision
<1>3. \A c \in Calls : Spawn(c) => registered' \in {registered, registered \cup {mem[c].agentId}}
  BY DEF Spawn
<1>4. \A i \in Identities : Delete(i) =>
        registered' \subseteq registered /\ (id \in registered \ registered' => Completed(i, id))
  BY DEF Delete, Completed
<1>5. QED
  BY <1>1, <1>2, <1>3, <1>4

LEMMA NextMadeIsClaimed ==
    ASSUME Founded, Growth, Owners, [Next]_vars, NEW i \in Identities PROVE MadeIsClaimed(i)'
<1>1. /\ record[i] # None => record[i] \in Record
      /\ provisions[i] \in Nat /\ spawns[i] \in Nat /\ None \notin Identities
  BY NoneApart DEF Founded, Typed, TypeOK
<1>2. record[i] # None => record'[i] # None /\ SameIds(record'[i], record[i])
  BY JournalStays
<1>3. ASSUME NEW id \in Ids, claim[id] = i PROVE claim'[id] = i
  BY <1>1, <1>3, JournalStays
<1>4. ASSUME provisions'[i] > 0
      PROVE  record'[i] # None /\ record'[i].request.kind = "workspace" /\ claim'[record'[i].workspaceId] = i
  <2>1. record[i] # None /\ record[i].request.kind = "workspace" /\ claim[record[i].workspaceId] = i
    <3>1. CASE provisions'[i] = provisions[i]
      BY <1>4, <3>1 DEF Owners, MadeIsClaimed
    <3>2. CASE provisions'[i] # provisions[i]
      BY <3>2, EffectChange, MakingStep
    <3>3. QED
      BY <3>1, <3>2
  <2>2. record[i].workspaceId \in Ids
    BY <1>1, <2>1, RecordIds
  <2>3. QED
    BY <1>2, <1>3, <2>1, <2>2 DEF SameIds
<1>5. ASSUME spawns'[i] > 0
      PROVE  record'[i] # None /\ record'[i].agentId # None /\ claim'[record'[i].agentId] = i
  <2>1. record[i] # None /\ record[i].agentId # None /\ claim[record[i].agentId] = i
    <3>1. CASE spawns'[i] = spawns[i]
      BY <1>5, <3>1 DEF Owners, MadeIsClaimed
    <3>2. CASE spawns'[i] # spawns[i]
      BY <3>2, EffectChange, MakingStep
    <3>3. QED
      BY <3>1, <3>2
  <2>2. record[i].agentId \in Ids
    BY <1>1, <2>1, RecordIds
  <2>3. QED
    BY <1>2, <1>3, <2>1, <2>2 DEF SameIds
<1>6. QED
  BY <1>4, <1>5 DEF MadeIsClaimed

LEMMA NextIdSound ==
    ASSUME Founded, Growth, Owners, [Next]_vars, NEW id \in Ids PROVE IdSound(id)'
<1>0. IdSound(id) /\ None \notin Identities /\ "torn" \notin Identities /\ None # "torn"
  BY NoneAssumption DEF Owners
<1>1. claim[id] # None => claim'[id] = claim[id]
  BY JournalStays
<1>2. ASSUME id \in registered' PROVE id \in Existing \/ claim'[id] # None
  <2>1. CASE id \in registered
    BY <1>0, <1>1, <2>1 DEF IdSound
  <2>2. CASE id \notin registered
    <3>1. PICK c \in Calls : \/ Provision(c) /\ id = mem[c].workspaceId
                             \/ Spawn(c) /\ id = mem[c].agentId
      BY <1>2, <2>2, RegistryChange
    <3>2. claim[id] = IdentityOf[c]
      BY <3>1, MakingStep
    <3>3. QED
      BY <1>0, <1>1, <3>2, ActorsDiffer
  <2>3. QED
    BY <2>1, <2>2
<1>3. ASSUME id \in Existing \ registered' PROVE \E i \in Identities : Completed(i, id)'
  <2>1. \E i \in Identities : Completed(i, id)
    BY <1>0, <1>3, RegistryChange DEF IdSound
  <2>2. QED
    BY <2>1, CompletedStays
<1>4. ASSUME id \in Existing, NEW j \in Identities, claim'[id] = j PROVE Freed(id, j)'
  <2>1. CASE claim'[id] = claim[id]
    BY <1>0, <1>4, <2>1, CompletedStays DEF IdSound
  <2>2. CASE claim'[id] # claim[id]
    <3>1. PICK c \in Calls : Claim(c) /\ id \notin registered /\ j = IdentityOf[c]
      BY <1>0, <1>4, <2>2, ClaimChange
    <3>2. PICK i \in Identities : Completed(i, id)
      BY <1>0, <1>4, <3>1 DEF IdSound
    <3>3. i # IdentityOf[c]
      <4>1. pc[c] = "claiming" /\ c \in Actors
        BY <3>1, ActorsDiffer DEF Claim
      <4>2. record[IdentityOf[c]].phase # "completed"
        BY <4>1 DEF Growth, HolderSound, IsSettled
      <4>3. QED
        BY <3>2, <4>2 DEF Completed
    <3>4. Completed(i, id)'
      BY <3>2, CompletedStays
    <3>5. QED
      BY <3>1, <3>3, <3>4 DEF Freed, Completed
  <2>3. QED
    BY <2>1, <2>2
<1>5. claim'[id] = "torn" => TornClaims
  <2>1. CASE claim'[id] = claim[id]
    BY <1>0, <2>1 DEF IdSound
  <2>2. CASE claim'[id] # claim[id]
    BY <1>0, <2>2, ClaimChange, ActorsDiffer
  <2>3. QED
    BY <2>1, <2>2
<1>6. QED
  BY <1>2, <1>3, <1>4, <1>5 DEF IdSound

\* A runner starts with all ids of its creation claimed.
LEMMA NextClaimsHeld ==
    ASSUME Founded, Growth, Owners, [Next]_vars, NEW c \in Calls, pc'[c] \in Running
    PROVE  ClaimsHeld(IdentityOf[c])'
<1> DEFINE i == IdentityOf[c]
<1>0. /\ c \in Actors /\ i \in Identities /\ Typed /\ Ownership /\ c # None
      /\ pc \in [Actors -> CallPlaces \cup SubscriberPlaces]
      /\ \A s \in Subscribers : s # c
  BY ActorsDiffer, NoneApart, PlacesType DEF Founded, Typed, TypeOK
<1>1. pc[c] \in Running \/ Start(c)
  <2>1. ASSUME NEW d \in Calls, Step(d) PROVE pc[c] \in Running \/ Start(c)
    <3>1. CASE d = c
      BY <1>0, <2>1, <3>1, RunsFromClaiming
    <3>2. CASE d # c
      <4>1. pc'[c] \in {pc[c], "answered"}
        BY <1>0, <2>1, <3>2, StepPlaces
      <4>2. QED
        BY <4>1 DEF Running
    <3>3. QED
      BY <3>1, <3>2
  <2>2. ASSUME NEW d \in Calls, Create(d) PROVE pc[c] \in Running
    BY <1>0, <2>2 DEF Create, Running
  <2>3. ASSUME NEW s \in Subscribers, Subscribe(s) \/ Look(s) \/ Flag(s) \/ Unsubscribe(s)
        PROVE  pc[c] \in Running
    BY <1>0, <2>3 DEF Subscribe, Look, Flag, Unsubscribe, Publish
  <2>4. CASE Crash
    BY <1>0, <2>4 DEF Crash, Running, Answered
  <2>5. CASE (\E j \in Identities : Delete(j)) \/ UNCHANGED vars
    BY <2>5 DEF Delete, vars
  <2>6. QED
    BY <2>1, <2>2, <2>3, <2>4, <2>5 DEF Next
<1>2. record[i] # None /\ record[i] \in Record /\ ClaimsHeld(i)
  <2>1. CASE pc[c] \in Running
    BY <1>0, <2>1 DEF Ownership, OneRunner, Owners, Typed, TypeOK
  <2>2. CASE Start(c)
    <3>1. pc[c] = "claiming" /\ Unclaimed(c) = {} /\ "claiming" \in Entered
      BY <2>2 DEF Start, Entered, Admitting
    <3>2. record[i] # None /\ record[i] \in Record /\ mem[c] = record[i]
      BY <1>0, <3>1 DEF Ownership, Growth, HolderSound, Typed, TypeOK
    <3>3. QED
      BY <3>1, <3>2, RecordIds DEF Unclaimed, ClaimsHeld
  <2>3. QED
    BY <1>1, <2>1, <2>2
<1>3. /\ record'[i] # None /\ SameIds(record'[i], record[i])
      /\ \A id \in Ids : claim[id] \in Identities => claim'[id] = claim[id]
  BY <1>0, <1>2, JournalStays, NoneApart
<1>4. QED
  BY <1>0, <1>2, <1>3, ClaimsStay

\* Only an admission that meets another's claim answers with a conflict.
LEMMA RefusedByClaim ==
    ASSUME Founded, [Next]_vars, NEW c \in Calls,
           result'[c] = Rejected("id_conflict"), result[c] # result'[c]
    PROVE  /\ Claim(c) /\ UNCHANGED <<claim, record>>
           /\ \E id \in Unclaimed(c) : Taken(id)
<1>0. result \in [Calls -> Answers \cup {None}]
  BY DEF Founded, Typed, TypeOK
<1>1. \A r : Returned(r) # Rejected("id_conflict")
  BY NoneAssumption DEF Returned, Rejected
<1>2. /\ Rejected("key_conflict") # Rejected("id_conflict") /\ Rejected("gone") # Rejected("id_conflict")
      /\ Rejected("error") # Rejected("id_conflict")
  BY DEF Rejected
<1>3. PICK d \in Calls : Step(d)
  BY DEF Next, Create, Subscribe, Look, Flag, Unsubscribe, Delete, Crash, vars
<1>4. ASSUME NEW value, value # Rejected("id_conflict"), Answer(d, value) PROVE FALSE
  BY <1>0, <1>4 DEF Answer
<1>5. ASSUME NEW value, value # Rejected("id_conflict"), Settle(d, value) PROVE FALSE
  BY <1>0, <1>5 DEF Settle
<1>6. ~Admit(d)
  BY <1>1, <1>2, <1>4 DEF Admit, KeyConflict, Join, Replay, Begin, ImportLegacy
<1>7. ~(Interrupted(d) \/ RecordIdentity(d) \/ RejectReset(d) \/ Start(d))
  BY <1>1, <1>2, <1>4 DEF Interrupted, RecordIdentity, RejectReset, Start
<1>8. ~(\/ MarkWorkspace(d) \/ Provision(d) \/ WorkspaceReady(d) \/ MarkAgent(d) \/ Spawn(d)
        \/ AgentReady(d) \/ Prompt(d) \/ AgentCreated(d))
  BY DEF MarkWorkspace, Provision, WorkspaceReady, MarkAgent, Spawn, AgentReady, Prompt, AgentCreated
<1>9. ~(Complete(d) \/ FailRun(d))
  BY <1>1, <1>2, <1>5 DEF Complete, FailRun, PublishLast
<1>10. Claim(d)
  BY <1>3, <1>6, <1>7, <1>8, <1>9 DEF Step
<1>11. PICK id \in Unclaimed(d) :
        Taken(id) /\ Answer(d, Rejected("id_conflict")) /\ UNCHANGED disk
  BY <1>2, <1>4, <1>10 DEF Claim
<1>12. d = c
  BY <1>0, <1>11 DEF Answer
<1>13. QED
  BY <1>10, <1>11, <1>12 DEF Claim, disk

LEMMA NextRefusalSound ==
    ASSUME Founded, Growth, Owners, [Next]_vars, NEW c \in Calls PROVE RefusalSound(c)'
<1> DEFINE i == IdentityOf[c]
<1> SUFFICES ASSUME result'[c] = Rejected("id_conflict") PROVE RefusalSound(c)'
  BY DEF RefusalSound
<1>0. c \in Actors /\ i \in Identities /\ Typed /\ Ownership /\ record \in [Identities -> Record \cup {None}]
  BY ActorsDiffer DEF Founded, Typed, TypeOK
<1>1. /\ record[i] # None
      /\ \E id \in {record[i].workspaceId, record[i].agentId} \ {None} :
            id \in Existing \/ claim[id] \notin {None, i}
  <2>1. CASE result[c] = result'[c]
    BY <2>1 DEF Owners, RefusalSound
  <2>2. CASE result[c] # result'[c]
    <3>1. Claim(c) /\ \E id \in Unclaimed(c) : Taken(id)
      BY <2>2, RefusedByClaim
    <3>2. pc[c] = "claiming" /\ "claiming" \in Entered
      BY <3>1 DEF Claim, Entered, Admitting
    <3>3. record[i] # None /\ mem[c] = record[i]
      BY <1>0, <3>2 DEF Ownership, Growth, HolderSound
    <3>4. PICK id \in Unclaimed(c) : Taken(id)
      BY <3>1
    <3>5. id \in {record[i].workspaceId, record[i].agentId} /\ id # None /\ claim[id] # i
      <4>1. record[i].request.kind = "workspace" => record[i].workspaceId # None
        BY <1>0, <3>3, RecordIds
      <4>2. QED
        BY <3>3, <3>4, <4>1 DEF Unclaimed
    <3>6. id \in Ids
      BY <1>0, <3>3, <3>5, RecordIds
    <3>7. id \in Existing \/ claim[id] # None
      BY <3>4, <3>6 DEF Taken, Owners, IdSound
    <3>8. QED
      BY <3>3, <3>5, <3>7
  <2>3. QED
    BY <2>1, <2>2
<1>2. PICK id \in {record[i].workspaceId, record[i].agentId} \ {None} :
            id \in Existing \/ claim[id] \notin {None, i}
  BY <1>1
<1>3. id \in Ids
  BY <1>0, <1>1, <1>2, RecordIds
<1>4. record'[i] # None /\ SameIds(record'[i], record[i])
  BY <1>0, <1>1, JournalStays
<1>5. claim[id] # None => claim'[id] = claim[id]
  BY <1>3, JournalStays
<1>6. QED
  BY <1>2, <1>4, <1>5 DEF RefusalSound, SameIds

LEMMA AlwaysOwners == Spec => [](Founded /\ Owners)
<1>1. Founded /\ Growth /\ Owners /\ [Next]_vars => Owners'
  BY NextMadeIsClaimed, NextIdSound, NextClaimsHeld, NextRefusalSound DEF Owners
<1>2. QED
  BY <1>1, AlwaysGrowth, InitOwners, PTL DEF Spec

LEMMA OwnersApart == ASSUME Founded, Owners PROVE MadeUnderOwnIds
<1>1. SUFFICES ASSUME NEW i \in Identities, Own(i)
               PROVE  /\ provisions[i] > 0 =>
                            record[i].workspaceId \notin Existing \/ Freed(record[i].workspaceId, i)
                      /\ spawns[i] > 0 => record[i].agentId \notin Existing \/ Freed(record[i].agentId, i)
                      /\ \A j \in Identities \ {i} : Own(j) =>
                            /\ provisions[i] > 0 /\ provisions[j] > 0 =>
                                    record[i].workspaceId # record[j].workspaceId
                            /\ spawns[i] > 0 /\ spawns[j] > 0 => record[i].agentId # record[j].agentId
  BY DEF MadeUnderOwnIds
<1>2. \A j \in Identities : MadeIsClaimed(j)
  BY DEF Owners
<1>3. record[i] \in Record
  BY <1>1 DEF Founded, Typed, TypeOK, Own
<1>4. ASSUME NEW id \in Ids, claim[id] = i, id \in Existing PROVE Freed(id, i)
  BY <1>4 DEF Owners, IdSound
<1>5. QED
  BY <1>2, <1>3, <1>4, RecordIds DEF MadeIsClaimed

\* Nothing is made under an id that another creation, or something older that
\* was never deleted, has: whatever is claimed, torn, retried or cut off.
THEOREM NothingMadeUnderForeignId == Spec => []MadeUnderOwnIds
  BY AlwaysOwners, OwnersApart, PTL

\* Where a failed write leaves no empty claim file, a call is also refused for
\* an id conflict only when there is one.
THEOREM ResourcesAreOwned == ASSUME TornClaims = FALSE PROVE Spec => []ResourceHasOneOwner
<1>1. Founded /\ Owners => ConflictsAreReal
  <2> SUFFICES ASSUME Founded, Owners, NEW c \in Calls, result[c] = Rejected("id_conflict")
               PROVE  LET r == record[IdentityOf[c]] IN
                      \E id \in {r.workspaceId, r.agentId} \ {None} :
                        id \in Existing \/ claim[id] \in Identities \ {IdentityOf[c]}
    BY DEF ConflictsAreReal
  <2> DEFINE i == IdentityOf[c]
  <2>1. /\ record[i] # None
        /\ \E id \in {record[i].workspaceId, record[i].agentId} \ {None} :
                id \in Existing \/ claim[id] \notin {None, i}
    BY DEF Owners, RefusalSound
  <2>2. PICK id \in {record[i].workspaceId, record[i].agentId} \ {None} :
                id \in Existing \/ claim[id] \notin {None, i}
    BY <2>1
  <2>3. i \in Identities /\ record[i] \in Record /\ claim \in [Ids -> Identities \cup {None, "torn"}]
    BY <2>1, ActorsDiffer DEF Founded, Typed, TypeOK
  <2>4. id \in Ids /\ claim[id] # "torn"
    BY <2>2, <2>3, RecordIds DEF Owners, IdSound
  <2>5. QED
    BY <2>2, <2>3, <2>4
<1>2. QED
  BY <1>1, AlwaysOwners, OwnersApart, PTL DEF ResourceHasOneOwner

-----------------------------------------------------------------------------
(* What calls are answered with.                                             *)

\* A call is answered with a rejection or with the record of a creation that
\* has ended.
EndsCreation(answer) ==
    answer # None /\ answer.snapshot # None => answer.snapshot.phase \in {"completed", "failed"}

OnlyEndsAnswer == \A c \in Calls : EndsCreation(result[c])

\* An outcome is unknown only in a record that failed, and no runner works on one.
Finals ==
    /\ OnlyEndsAnswer
    /\ \A i \in Identities : record[i] # None /\ record[i].outcomeUnknown => record[i].phase = "failed"
    /\ \A c \in Calls : pc[c] \in Running => ~mem[c].outcomeUnknown

\* What a step of an actor must not do to keep it.
LEMMA FinalsFrame ==
    ASSUME Typed, Finals, NEW a \in Actors,
           \A j \in Identities : j # IdentityOf[a] => record'[j] = record[j],
           record'[IdentityOf[a]] # None /\ record'[IdentityOf[a]].outcomeUnknown
                => record'[IdentityOf[a]].phase = "failed",
           \A c \in Calls : EndsCreation(result'[c]),
           \A c \in Calls : c # a /\ pc'[c] \in Running => pc[c] \in Running /\ mem'[c] = mem[c],
           a \in Calls /\ pc'[a] \in Running => ~mem'[a].outcomeUnknown
    PROVE  Finals'
<1>1. \A i \in Identities : record'[i] # None /\ record'[i].outcomeUnknown => record'[i].phase = "failed"
  BY DEF Finals
<1>2. \A c \in Calls : pc'[c] \in Running => ~mem'[c].outcomeUnknown
  BY DEF Finals
<1>3. QED
  BY <1>1, <1>2 DEF Finals, OnlyEndsAnswer

\* An answer to one call.
LEMMA AnswerEnds ==
    ASSUME Typed, Finals, NEW c \in Calls, NEW value, Answer(c, value), EndsCreation(value)
    PROVE  /\ \A d \in Calls : EndsCreation(result'[d])
           /\ pc'[c] \notin Running
  BY ActorsDiffer DEF Answer, Typed, TypeOK, Finals, OnlyEndsAnswer, Running

LEMMA RejectionEnds ==
    ASSUME NEW reason PROVE EndsCreation(Rejected(reason))
  BY DEF EndsCreation, Rejected

LEMMA SettledEnds ==
    ASSUME NEW r \in Record, r.phase \in {"completed", "failed"}
    PROVE  EndsCreation(Returned(r))
  BY DEF EndsCreation, Returned, Snapshot, Record

\* The frame of a call's step, from what is proved of every step.
LEMMA StepFinals ==
    ASSUME Founded, Growth, Finals, NEW c \in Calls, Step(c)
    PROVE  Finals'
<1> DEFINE i == IdentityOf[c]
           Here == record'[i] # None /\ record'[i].outcomeUnknown => record'[i].phase = "failed"
           SoFar == pc'[c] \in Running => ~mem'[c].outcomeUnknown
           Ends == \A d \in Calls : EndsCreation(result'[d])
<1>0. /\ Typed /\ c \in Actors /\ i \in Identities
      /\ record \in [Identities -> Record \cup {None}] /\ mem \in [Actors -> Record \cup {None}]
      /\ result \in [Calls -> Answers \cup {None}] /\ HolderSound(c)
  BY ActorsDiffer DEF Founded, Growth, Typed, TypeOK
<1>p. pc \in [Actors -> CallPlaces \cup SubscriberPlaces]
  BY PlacesType DEF Founded, Typed, TypeOK
<1>k. Here /\ SoFar /\ Ends => Finals'
  <2>1. Local(c)
    BY <1>0, StepLocal
  <2>2. \A j \in Identities : j # i => record'[j] = record[j]
    BY <2>1 DEF Local
  <2>3. \A a \in Actors : a # c =>
            pc'[a] = pc[a] \/ (pc[c] \in Running /\ pc[a] = "joined" /\ pc'[a] = "answered")
    BY <1>0, StepPlaces
  <2>4. "answered" \notin Running
    BY DEF Running
  <2>5. \A d \in Calls : d # c /\ pc'[d] \in Running => pc[d] \in Running /\ mem'[d] = mem[d]
    BY <2>1, <2>3, <2>4, ActorsDiffer DEF Local
  <2> HIDE DEF Here, SoFar, Ends
  <2>6. SUFFICES ASSUME Here, SoFar, Ends PROVE Finals'
    OBVIOUS
  <2>7. QED
    BY <1>0, <2>2, <2>5, <2>6, FinalsFrame DEF Here, SoFar, Ends
<1>s. /\ record[i] # None /\ record[i].outcomeUnknown => record[i].phase = "failed"
      /\ \A d \in Calls : EndsCreation(result[d])
      /\ pc[c] \in Running => ~mem[c].outcomeUnknown
  BY <1>0 DEF Finals, OnlyEndsAnswer
<1>1. CASE Admit(c)
  <2> DEFINE r == record[i]
  <2>a. ASSUME NEW value, Answer(c, value), EndsCreation(value), record' = record
        PROVE  Finals'
    BY <2>a, <1>0, <1>s, <1>k, AnswerEnds
  <2>n. {"joined", "recording", "interrupted", "claiming"} \cap Running = {}
    BY DEF Running
  <2>b. ASSUME pc' = [pc EXCEPT ![c] = "joined"] \/ pc' = [pc EXCEPT ![c] = "recording"] \/
               pc' = [pc EXCEPT ![c] = "interrupted"] \/ pc' = [pc EXCEPT ![c] = "claiming"],
               UNCHANGED <<record, result>>
        PROVE  Finals'
    BY <2>b, <2>n, <1>0, <1>p, <1>s, <1>k
  <2>1. CASE DiskFails /\ Answer(c, Rejected("error")) /\ UNCHANGED told
    BY <2>1, <2>a, RejectionEnds DEF DiskFails, disk
  <2>2. CASE KeyConflict(c)
    BY <2>2, <2>a, RejectionEnds DEF KeyConflict, disk
  <2>3. CASE Join(c)
    BY <2>3, <2>b DEF Join, disk
  <2>4. CASE r # None /\ IsSettled(r) /\ Replay(c, r)
    <3>1. r \in Record /\ r.phase \in {"completed", "failed"}
      BY <2>4, <1>0, <1>s DEF IsSettled
    <3>2. EndsCreation(Returned(r))
      BY <3>1, SettledEnds
    <3>3. QED
      BY <2>4, <3>2, <2>a, RejectionEnds DEF Replay, disk
  <2>5. CASE /\ mem' = [mem EXCEPT ![c] = r]
             /\ pc' = [pc EXCEPT ![c] = IF r.inFlight # None THEN "interrupted" ELSE "claiming"]
             /\ UNCHANGED <<disk, result, told, failures>>
    BY <2>5, <2>b DEF disk
  <2>6. CASE Begin(c)
    BY <2>6, <2>b DEF Begin, disk
  <2>7. CASE ImportLegacy(c)
    <3> DEFINE receipt == legacy[i]
               exists == receipt.agent \in registered
               s == Imported(c, receipt, exists)
    <3>1. /\ s.phase \in {"completed", "failed"} /\ s.outcomeUnknown => s.phase = "failed"
          /\ s.phase = IF exists THEN "completed" ELSE "failed"
      BY DEF Imported, InitialRecord
    <3>2. \/ KeyConflict(c)
          \/ Answer(c, Rejected("gone")) /\ UNCHANGED <<disk, told, failures>>
          \/ /\ record' = [record EXCEPT ![i] = s]
             /\ \/ Answer(c, Returned(s))
                \/ pc' = [pc EXCEPT ![c] = "claiming"] /\ UNCHANGED result
          \/ DiskFails /\ Answer(c, Rejected("error")) /\ UNCHANGED told
      BY <2>7 DEF ImportLegacy
    <3>4. EndsCreation(Returned(s))
      BY <3>1 DEF EndsCreation, Returned, Snapshot, Imported, InitialRecord
    <3> HIDE DEF s
    <3>5. CASE record' = [record EXCEPT ![i] = s] /\ Answer(c, Returned(s))
      BY <3>1, <3>4, <3>5, <1>0, <1>s, <1>k, AnswerEnds
    <3>6. CASE record' = [record EXCEPT ![i] = s] /\ pc' = [pc EXCEPT ![c] = "claiming"] /\ UNCHANGED result
      BY <3>1, <3>6, <2>n, <1>0, <1>p, <1>s, <1>k
    <3>7. QED
      BY <3>2, <3>5, <3>6, <2>2, <2>a, <2>1, RejectionEnds DEF disk
  <2>8. QED
    BY <1>1, <2>1, <2>2, <2>3, <2>4, <2>5, <2>6, <2>7 DEF Admit
<1>2. CASE Interrupted(c)
  <2> DEFINE next == CutOff(mem[c])
  <2>1. mem[c] \in Record
    BY <1>2, <1>0 DEF Interrupted, Typed, Seats, Holding, Entered, Admitting
  <2>2. next.phase = "failed" /\ next \in [DOMAIN next -> UNION {{next[f]} : f \in DOMAIN next}]
    BY <2>1 DEF CutOff, Published, UnknownOutcome, Record
  <2>3. EndsCreation(Returned(next))
    BY <2>1 DEF EndsCreation, Returned, Snapshot, CutOff, Published, UnknownOutcome, Record
  <2>4. \/ record' = [record EXCEPT ![i] = next] /\ Answer(c, Returned(next))
        \/ record' = record /\ Answer(c, Rejected("error"))
    BY <1>2 DEF Interrupted, CutOff, Published, DiskFails, disk
  <2> HIDE DEF next
  <2>5. CASE record' = [record EXCEPT ![i] = next] /\ Answer(c, Returned(next))
    BY <2>2, <2>3, <2>5, <1>0, <1>k, AnswerEnds
  <2>6. CASE record' = record /\ Answer(c, Rejected("error"))
    BY <2>6, <1>0, <1>s, <1>k, AnswerEnds, RejectionEnds
  <2>7. QED
    BY <2>4, <2>5, <2>6
<1>3. CASE RecordIdentity(c)
  <2>1. ~mem[c].outcomeUnknown /\ mem[c] \in Record
    BY <1>3, <1>0 DEF RecordIdentity, HolderSound, Typed, Seats, Holding, Entered, Admitting
  <2>2. CASE /\ record' = [record EXCEPT ![i] = mem[c]] /\ pc' = [pc EXCEPT ![c] = "claiming"]
             /\ UNCHANGED result
    BY <2>1, <2>2, <1>0, <1>p, <1>s, <1>k DEF Running
  <2>3. CASE record' = record /\ Answer(c, Rejected("error"))
    BY <2>3, <1>0, <1>s, <1>k, AnswerEnds, RejectionEnds
  <2>4. QED
    BY <1>3, <2>2, <2>3 DEF RecordIdentity, DiskFails, disk
<1>4. CASE Claim(c)
  <2>1. record' = record
    BY <1>4 DEF Claim, disk
  <2>2. CASE \E reason : Answer(c, Rejected(reason))
    BY <2>1, <2>2, <1>0, <1>s, <1>k, AnswerEnds, RejectionEnds
  <2>3. CASE UNCHANGED <<pc, mem, result>>
    BY <2>1, <2>3, <1>s, <1>k
  <2>4. QED
    BY <1>4, <2>2, <2>3 DEF Claim
<1>5. CASE Start(c)
  <2>1. pc[c] = "claiming" /\ mem[c] = record[i] /\ ~IsSettled(mem[c]) /\ mem[c] \in Record
    BY <1>5, <1>0 DEF Start, HolderSound, Typed, Seats, Holding, Entered, Admitting
  <2>2. ~mem[c].outcomeUnknown
    BY <2>1 DEF IsSettled
  <2>3. CASE pc' = [pc EXCEPT ![c] = "running"] /\ UNCHANGED <<disk, failures, mem, result>>
    BY <2>2, <2>3, <1>s, <1>k DEF disk
  <2>4. CASE Publish(c, Retried(mem[c]), "running", "resetting") /\ UNCHANGED result
    <3> DEFINE next == Published(Retried(mem[c]))
    <3>1. ~next.outcomeUnknown
      BY <2>1 DEF Published, Retried, Record
    <3>2. mem' = [mem EXCEPT ![c] = next] /\ record' \in {record, [record EXCEPT ![i] = next]}
      BY <2>4 DEF Publish, DiskFails, disk, Published
    <3> HIDE DEF next
    <3>3. QED
      BY <2>4, <3>1, <3>2, <1>0, <1>s, <1>k
  <2>5. QED
    BY <1>5, <2>3, <2>4 DEF Start
<1>6. CASE RejectReset(c)
  BY <1>6, <1>0, <1>s, <1>k, AnswerEnds, RejectionEnds DEF RejectReset, disk
<1>7. CASE pc[c] \in Running
  <2>0. mem[c] \in Record /\ ~mem[c].outcomeUnknown
    BY <1>7, <1>0, <1>s, RunnerHolds
  <2>1. ASSUME UNCHANGED <<record, mem, result>>
        PROVE  Finals'
    BY <2>1, <2>0, <1>s, <1>k
  <2>2. ASSUME NEW r, ~r.outcomeUnknown, mem' = [mem EXCEPT ![c] = r],
               record' \in {record, [record EXCEPT ![i] = r]}, UNCHANGED result
        PROVE  Finals'
    BY <2>2, <2>0, <1>0, <1>s, <1>k
  <2>3. CASE Provision(c) \/ Spawn(c) \/ Prompt(c)
    BY <2>3, <2>1 DEF Provision, Spawn, Prompt, disk
  <2>4. CASE MarkWorkspace(c)
    <3> DEFINE r == [mem[c] EXCEPT !.inFlight = "workspace"]
    <3>1. ~r.outcomeUnknown
      BY <2>0 DEF Record
    <3>2. /\ mem' = [mem EXCEPT ![c] = r] /\ record' \in {record, [record EXCEPT ![i] = r]}
          /\ UNCHANGED result
      BY <2>4 DEF MarkWorkspace, Write, DiskFails, disk
    <3> HIDE DEF r
    <3>3. QED
      BY <3>1, <3>2, <2>2
  <2>5. CASE MarkAgent(c)
    <3> DEFINE r == [mem[c] EXCEPT !.inFlight = "agent"]
    <3>1. ~r.outcomeUnknown
      BY <2>0 DEF Record
    <3>2. /\ mem' = [mem EXCEPT ![c] = r] /\ record' \in {record, [record EXCEPT ![i] = r]}
          /\ UNCHANGED result
      BY <2>5 DEF MarkAgent, Write, DiskFails, disk
    <3> HIDE DEF r
    <3>3. QED
      BY <3>1, <3>2, <2>2
  <2>7. ASSUME NEW r, ~Published(r).outcomeUnknown, NEW then, NEW otherwise,
               Publish(c, r, then, otherwise), UNCHANGED result
        PROVE  Finals'
    <3> DEFINE next == Published(r)
    <3>1. mem' = [mem EXCEPT ![c] = next] /\ record' \in {record, [record EXCEPT ![i] = next]}
      BY <2>7 DEF Publish, DiskFails, disk, Published
    <3> HIDE DEF next
    <3>2. QED
      BY <2>7, <3>1, <2>2 DEF next
  <2>8. CASE WorkspaceReady(c)
    <3> DEFINE r == [mem[c] EXCEPT !.inFlight = None, !.phase = "workspace_ready", !.workspace = TRUE]
    <3>1. ~Published(r).outcomeUnknown
      BY <2>0 DEF Record, Published
    <3>2. Throw(c) \/ Publish(c, r, "running", "failing")
      BY <2>8 DEF WorkspaceReady
    <3> HIDE DEF r
    <3>3. QED
      BY <2>8, <3>1, <3>2, <2>1, <2>7 DEF Throw, WorkspaceReady, disk
  <2>9. CASE AgentReady(c)
    <3> DEFINE r == [mem[c] EXCEPT
                !.inFlight = IF mem[c].request.hasPrompt THEN "prompt" ELSE None,
                !.phase = "agent_ready", !.agent = TRUE]
    <3>1. ~Published(r).outcomeUnknown
      BY <2>0 DEF Record, Published
    <3>2. Throw(c) \/ Publish(c, r, "started", "failing")
      BY <2>9 DEF AgentReady
    <3> HIDE DEF r
    <3>3. QED
      BY <2>9, <3>1, <3>2, <2>1, <2>7 DEF Throw, AgentReady, disk
  <2>10. CASE AgentCreated(c)
    <3> DEFINE r == [mem[c] EXCEPT !.inFlight = None]
               s == [r EXCEPT !.phase = "prompt_started"]
    <3>1. ~r.outcomeUnknown /\ ~Published(s).outcomeUnknown
      BY <2>0 DEF Record, Published
    <3>2. \/ Publish(c, s, "running", "failing")
          \/ mem' = [mem EXCEPT ![c] = r] /\ record' = record
      BY <2>10 DEF AgentCreated, disk
    <3> HIDE DEF r, s
    <3>3. QED
      BY <2>10, <3>1, <3>2, <2>2, <2>7 DEF AgentCreated
  <2>11. ASSUME NEW r, Published(r).phase \in {"completed", "failed"},
                Published(r).outcomeUnknown => Published(r).phase = "failed",
                EndsCreation(Returned(Published(r))), PublishLast(c, r)
         PROVE  Finals'
    <3> DEFINE next == Published(r)
    <3>1. record' = [record EXCEPT ![i] = next] /\ Settle(c, Returned(next))
      BY <2>11 DEF PublishLast, Published
    <3> HIDE DEF next
    <3>2. Here
      BY <3>1, <2>11, <1>0 DEF next
    <3>3. SoFar /\ Ends
      BY <3>1, <2>11, <1>0, <1>s DEF Settle, Running, next
    <3>4. QED
      BY <3>2, <3>3, <1>k
  <2>12. CASE Complete(c)
    <3> DEFINE r == [mem[c] EXCEPT !.inFlight = None, !.phase = "completed"]
    <3>1. /\ ~Published(r).outcomeUnknown /\ Published(r).phase = "completed"
          /\ EndsCreation(Returned(Published(r)))
      BY <2>0 DEF Record, Published, EndsCreation, Returned, Snapshot
    <3>2. \/ PublishLast(c, r)
          \/ record' = record /\ result' = result /\ mem' = [mem EXCEPT ![c] = Published(r)]
      BY <2>12 DEF Complete, DiskFails, disk, Published
    <3> HIDE DEF r
    <3>3. QED
      BY <3>1, <3>2, <2>2, <2>11
  <2>13. CASE FailRun(c)
    <3> DEFINE unknown == OutcomeUnknown(mem[c], pc[c] = "refused")
               r == [mem[c] EXCEPT !.inFlight = IF unknown THEN @ ELSE None,
                    !.phase = "failed", !.error = "thrown", !.outcomeUnknown = unknown]
    <3>1. Published(r).phase = "failed" /\ EndsCreation(Returned(Published(r)))
      <4> HIDE DEF unknown
      <4>1. QED
        BY <2>0 DEF Record, Published, EndsCreation, Returned, Snapshot
    <3>2. PublishLast(c, r) \/ (DiskFails /\ Settle(c, Rejected("error")))
      BY <2>13 DEF FailRun
    <3> HIDE DEF r
    <3>3. CASE DiskFails /\ Settle(c, Rejected("error"))
      <4>1. Here
        BY <3>3, <1>s DEF DiskFails, disk
      <4>2. SoFar /\ Ends
        BY <3>3, <1>0, <1>s, RejectionEnds DEF Settle, Running
      <4>3. QED
        BY <4>1, <4>2, <1>k
    <3>4. QED
      BY <3>1, <3>2, <3>3, <2>11
  <2>14. QED
    BY <1>7, <2>3, <2>4, <2>5, <2>8, <2>9, <2>10, <2>12, <2>13 DEF Step, Running, Admit,
       Interrupted, RecordIdentity, Claim, Start, RejectReset
<1>8. QED
  BY <1>1, <1>2, <1>3, <1>4, <1>5, <1>6, <1>7 DEF Step, Running, MarkWorkspace, Provision,
     WorkspaceReady, MarkAgent, Spawn, AgentReady, Prompt, AgentCreated, Complete, FailRun

LEMMA NextFinals ==
    ASSUME Founded, Growth, Finals, [Next]_vars
    PROVE  Finals'
<1>0. /\ Typed /\ record \in [Identities -> Record \cup {None}] /\ mem \in [Actors -> Record \cup {None}]
      /\ pc \in [Actors -> CallPlaces \cup SubscriberPlaces]
      /\ \A c \in Calls, s \in Subscribers : c # s
      /\ \A a \in Actors : IdentityOf[a] \in Identities
  BY ActorsDiffer, PlacesType DEF Founded, Typed, TypeOK
<1>1. ASSUME NEW s \in Subscribers, Subscribe(s) \/ Look(s) \/ Flag(s) \/ Unsubscribe(s)
      PROVE  Finals'
  <2> DEFINE i == IdentityOf[s]
  <2>0. s \in Actors /\ i \in Identities /\ s \notin Calls
    BY <1>0, ActorsDiffer
  <2>1. result' = result
    BY <1>1 DEF Subscribe, Look, Flag, Unsubscribe
  <2>2. \A c \in Calls : pc'[c] = pc[c] /\ mem'[c] = mem[c]
    BY <1>1, <1>0, <2>0 DEF Subscribe, Look, Flag, Publish, DiskFails, Unsubscribe, Actors
  <2>3. CASE record' = record
    BY <2>1, <2>2, <2>3 DEF Finals, OnlyEndsAnswer
  <2>4. CASE Flag(s) /\ record' # record
    <3>1. mem[s] \in Record
      BY <2>4, <2>0 DEF Flag, Typed, Seats, Holding, Founded, TypeOK
    <3>2. record' = [record EXCEPT ![i] = CutOff(mem[s])]
      BY <2>4 DEF Flag, Publish, DiskFails, disk, CutOff, Published
    <3>3. CutOff(mem[s]).phase = "failed"
      BY <3>1 DEF CutOff, Published, UnknownOutcome, Record
    <3>4. QED
      BY <2>1, <2>2, <3>2, <3>3, <1>0 DEF Finals, OnlyEndsAnswer
  <2>5. QED
    BY <1>1, <2>3, <2>4 DEF Subscribe, Look, DiskFails, disk, Unsubscribe
<1>2. ASSUME UNCHANGED <<record, result>>,
             \A c \in Calls : pc'[c] \in Running => pc[c] \in Running /\ mem'[c] = mem[c]
      PROVE  Finals'
  BY <1>2 DEF Finals, OnlyEndsAnswer
<1>3. ASSUME NEW c \in Calls, Create(c) PROVE Finals'
  <2>1. "queued" \notin Running
    BY DEF Running
  <2>2. QED
    BY <1>2, <1>3, <1>0, <2>1 DEF Create, disk, Actors
<1>4. ASSUME NEW i \in Identities, Delete(i) PROVE Finals'
  BY <1>2, <1>4 DEF Delete
<1>5. CASE Crash
  <2>1. \A a \in Actors : pc'[a] \in {"idle", "lost", "answered"}
    BY <1>5 DEF Crash, Answered
  <2>2. {"idle", "lost", "answered"} \cap Running = {}
    BY DEF Running
  <2>3. UNCHANGED <<record, result>>
    BY <1>5 DEF Crash, disk
  <2>4. QED
    BY <1>2, <2>1, <2>2, <2>3, ActorsDiffer
<1>6. CASE UNCHANGED vars
  BY <1>2, <1>6 DEF vars
<1>7. QED
  BY <1>1, <1>3, <1>4, <1>5, <1>6, StepFinals DEF Next

LEMMA AlwaysFinal == Spec => [](Founded /\ Growth /\ Finals)
<1>1. Init => Finals
  <2>1. "idle" \notin Running
    BY DEF Running
  <2>2. QED
    BY <2>1, ActorsDiffer DEF Init, Finals, OnlyEndsAnswer, EndsCreation
<1>2. Founded /\ Growth /\ Finals /\ [Next]_vars => Finals'
  BY NextFinals
<1>3. QED
  BY <1>1, <1>2, AlwaysGrowth, PTL DEF Spec

\* Whoever is answered with a record is answered with the end of its creation,
\* never with one that runs or was given up half way (run, admit).
THEOREM AnswersAreEnds == Spec => []OnlyEndsAnswer
  BY AlwaysFinal, PTL DEF Finals

-----------------------------------------------------------------------------
(***************************************************************************)
(* The journal of CreationClient is CreationService: composing it with a   *)
(* client only restricts when requests come, and what is proved about the  *)
(* journal holds under the client.  What the client itself is promised     *)
(* needs more: that the daemon looks at a subscription only after the      *)
(* admissions before it.                                                   *)
(***************************************************************************)

LEMMA ClientInputs == Mine \subseteq Calls /\ Watches \subseteq Subscribers
  BY ClientAssumption

LEMMA ClientStepsAreSteps ==
    [ClientNext]_clientVars => [Next]_vars
<1> SUFFICES ASSUME [ClientNext]_clientVars PROVE [Next]_vars
  OBVIOUS
<1>1. CASE StartOperation
  BY <1>1 DEF StartOperation
<1>2. CASE Drop
  BY <1>2 DEF Drop
<1>3. CASE Die
  BY <1>3 DEF Die, Next
<1>4. CASE Reconnect
  BY <1>4 DEF Reconnect
<1>5. CASE Watch
  <2>1. watch \in Subscribers /\ Subscribe(watch)
    BY <1>5, ClientInputs DEF Watch
  <2>2. QED
    BY <2>1 DEF Next
<1>6. CASE Elsewhere
  BY <1>6 DEF Elsewhere, Next
<1>7. ASSUME NEW c \in Mine, Arrive(c) PROVE [Next]_vars
  <2>1. c \in Calls /\ Create(c)
    BY <1>7, ClientInputs DEF Arrive
  <2>2. QED
    BY <2>1 DEF Next
<1>8. ASSUME NEW c \in Calls, Serve(c) PROVE [Next]_vars
  BY <1>8 DEF Serve, Next
<1>9. ASSUME NEW s \in Subscribers, Attend(s) PROVE [Next]_vars
  BY <1>9 DEF Attend, Next
<1>10. CASE UNCHANGED clientVars
  BY <1>10 DEF clientVars
<1>11. QED
  BY <1>1, <1>2, <1>3, <1>4, <1>5, <1>6, <1>7, <1>8, <1>9, <1>10 DEF ClientNext

\* The journal a client uses behaves as CreationService says: no step of the
\* client, and nothing that is lost or late on its connection, makes the daemon
\* do what it would not do for some other caller.
THEOREM JournalUnderClient == ClientSpec => Spec
<1>1. ClientInit => Init
  BY DEF ClientInit
<1>2. QED
  BY <1>1, ClientStepsAreSteps, PTL DEF ClientSpec, Spec

\* Whatever the client resubmits, and however late its requests arrive, the
\* creation has at most one runner.
THEOREM OneRunnerUnderClient == ClientSpec => []OneRunner
  BY JournalUnderClient, OneRunnerEach, PTL

\* A receipt an older daemon left is never executed for a client either.
THEOREM ReceiptsNeverRunUnderClient == ClientSpec => []LegacyNeverRuns
  BY JournalUnderClient, ReceiptsNeverRun, PTL

\* A client that submits again, because its connection was lost or its request
\* late, gets nothing made twice, when nobody asks for an agent that a receipt
\* of an older daemon names.
THEOREM MadeOnceForClient == ASSUME ReceiptsApart PROVE ClientSpec => []AtMostOnce
  BY JournalUnderClient, MadeOnce, PTL

\* Under a client too nothing is made under the id of another creation or of
\* something older, and a request is refused for an id only when there is one.
THEOREM ResourcesAreOwnedForClient ==
    ASSUME TornClaims = FALSE PROVE ClientSpec => []ResourceHasOneOwner
  BY JournalUnderClient, ResourcesAreOwned, PTL

-----------------------------------------------------------------------------
(* The client never runs out of requests and subscriptions.                  *)

\* The daemon has looked at the subscription.
Passed(w) == pc[w] \notin {"idle", "waiting", "flagging"}

\* Subscriptions and requests the client has used up.
Used == {w \in Watches : pc[w] # "idle" \/ w = watch}
Over == {w \in Watches : Passed(w)}
Sent == {c \in Mine : pc[c] # "idle" \/ c \in wire}

\* A connection subscribes once, and is lost before the next one subscribes.
\* A request is submitted at the start, and again once a subscription was
\* looked at and its key was not known.
Counted ==
    /\ ~connected => watch = None
    /\ Cardinality(Used) + (IF connected THEN 0 ELSE 1) <= drops
    /\ Cardinality(Sent) <= (IF operation = "none" THEN 0 ELSE 1) + Cardinality(Over)

ClientInv == ClientTypeOK /\ Counted

LEMMA Sizes ==
    /\ \A S \in SUBSET Mine : IsFiniteSet(S) /\ Cardinality(S) \in Nat /\ Cardinality(S) <= Cardinality(Mine)
    /\ \A S \in SUBSET Watches :
            IsFiniteSet(S) /\ Cardinality(S) \in Nat /\ Cardinality(S) <= Cardinality(Watches)
    /\ \A T \in SUBSET Mine : \A S \in SUBSET T : Cardinality(S) <= Cardinality(T)
    /\ \A T \in SUBSET Watches : \A S \in SUBSET T : Cardinality(S) <= Cardinality(T)
    /\ Cardinality(Mine) \in Nat /\ Cardinality(Watches) \in Nat
<1>1. IsFiniteSet(Mine) /\ IsFiniteSet(Watches)
  BY ClientAssumption
<1>2. ASSUME NEW T, IsFiniteSet(T)
      PROVE  /\ Cardinality(T) \in Nat
             /\ \A S \in SUBSET T : IsFiniteSet(S) /\ Cardinality(S) \in Nat /\ Cardinality(S) <= Cardinality(T)
  BY <1>2, FS_Subset, FS_CardinalityType
<1>3. \A T \in SUBSET Mine : IsFiniteSet(T)
  BY <1>1, <1>2
<1>4. \A T \in SUBSET Watches : IsFiniteSet(T)
  BY <1>1, <1>2
<1>5. /\ \A S \in SUBSET Mine : Cardinality(S) \in Nat /\ Cardinality(S) <= Cardinality(Mine)
      /\ \A S \in SUBSET Watches : Cardinality(S) \in Nat /\ Cardinality(S) <= Cardinality(Watches)
      /\ Cardinality(Mine) \in Nat /\ Cardinality(Watches) \in Nat
  BY <1>1, <1>2
<1>6. /\ \A T \in SUBSET Mine : \A S \in SUBSET T : Cardinality(S) <= Cardinality(T)
      /\ \A T \in SUBSET Watches : \A S \in SUBSET T : Cardinality(S) <= Cardinality(T)
  BY <1>2, <1>3, <1>4
<1>7. QED
  BY <1>3, <1>4, <1>5, <1>6

LEMMA OneMore ==
    ASSUME NEW S, NEW x, IsFiniteSet(S), Cardinality(S) \in Nat
    PROVE  Cardinality(S \cup {x}) <= Cardinality(S) + 1
<1>1. Cardinality(S \cup {x}) = IF x \in S THEN Cardinality(S) ELSE Cardinality(S) + 1
  BY FS_AddElement
<1> DEFINE n == Cardinality(S)
           more == Cardinality(S \cup {x})
<1>2. n \in Nat /\ more = IF x \in S THEN n ELSE n + 1
  BY <1>1
<1> HIDE DEF n, more
<1>3. more <= n + 1
  BY <1>2
<1>4. QED
  BY <1>3 DEF n, more

LEMMA Counts ==
    /\ Cardinality(Used) \in Nat /\ Cardinality(Used)' \in Nat
    /\ Cardinality(Over) \in Nat /\ Cardinality(Over)' \in Nat
    /\ Cardinality(Sent) \in Nat /\ Cardinality(Sent)' \in Nat
    /\ Used \in SUBSET Watches /\ Used' \in SUBSET Watches
    /\ Over \in SUBSET Watches /\ Over' \in SUBSET Watches
    /\ Sent \in SUBSET Mine /\ Sent' \in SUBSET Mine
    /\ Cardinality(Over) <= Cardinality(Used)
<1>1. /\ Used \in SUBSET Watches /\ Used' \in SUBSET Watches
      /\ Over \in SUBSET Watches /\ Over' \in SUBSET Watches
      /\ Sent \in SUBSET Mine /\ Sent' \in SUBSET Mine
      /\ Over \in SUBSET Used
  BY DEF Used, Over, Sent, Passed
<1>2. QED
  BY <1>1, Sizes

\* There is a subscription to make whenever one is made.
LEMMA WatchLeft ==
    ASSUME ClientInv, ~connected
    PROVE  \E w \in Watches : pc[w] = "idle"
<1>1. SUFFICES ASSUME \A w \in Watches : pc[w] # "idle" PROVE FALSE
  OBVIOUS
<1>2. Used = Watches
  BY <1>1 DEF Used
<1>3. Cardinality(Watches) + 1 <= drops /\ drops <= MaxDrops /\ drops \in Nat
  BY <1>2, ClientAssumption DEF ClientInv, Counted, ClientTypeOK
<1>4. QED
  BY <1>3, Sizes, ClientAssumption

\* There is a request to send whenever one is sent.
LEMMA RequestLeft ==
    ASSUME ClientInv,
           \/ operation = "none"
           \/ connected /\ watch \in Watches /\ ~Passed(watch)
    PROVE  Unsent \in Mine /\ pc[Unsent] = "idle" /\ Unsent \notin wire
<1>0. drops <= MaxDrops /\ drops \in Nat /\ MaxDrops \in Nat /\ Cardinality(Used) <= drops
  BY ClientAssumption, Counts DEF ClientInv, Counted, ClientTypeOK
<1>1. Cardinality(Sent) <= MaxDrops
  <2>1. CASE operation = "none"
    BY <1>0, <2>1, Counts DEF ClientInv, Counted
  <2>2. CASE watch \in Watches /\ ~Passed(watch)
    <3>1. watch \in Used /\ watch \notin Over /\ Over \in SUBSET Used
      BY <2>2 DEF Used, Over, Passed
    <3>2. Cardinality(Over) + 1 <= Cardinality(Used)
      <4>1. Used \ {watch} \in SUBSET Watches /\ Over \in SUBSET (Used \ {watch})
        BY <3>1, Counts
      <4>2. Cardinality(Over) <= Cardinality(Used \ {watch})
        BY <4>1, Sizes
      <4>3. IsFiniteSet(Used)
        BY Sizes, Counts
      <4>4. Cardinality(Used \ {watch}) = Cardinality(Used) - 1
        BY <3>1, <4>3, FS_RemoveElement
      <4>5. QED
        BY <4>2, <4>4, Counts
    <3>3. Cardinality(Sent) <= 1 + Cardinality(Over)
      BY Counts DEF ClientInv, Counted
    <3>4. QED
      BY <1>0, <3>2, <3>3, Counts
  <2>3. QED
    BY <2>1, <2>2
<1>2. Sent # Mine
  BY <1>0, <1>1, Sizes, ClientAssumption
<1>3. \E c \in Mine : pc[c] = "idle" /\ c \notin wire
  BY <1>2 DEF Sent
<1>4. QED
  BY <1>3 DEF Unsent

-----------------------------------------------------------------------------
\* What does not use up a request or a subscription.
LEMMA CountKept ==
    ASSUME ClientInv,
           \A w \in Watches : pc'[w] # "idle" \/ w = watch' => pc[w] # "idle" \/ w = watch,
           \A w \in Watches : Passed(w) => Passed(w)',
           \A c \in Mine : pc'[c] # "idle" \/ c \in wire' => pc[c] # "idle" \/ c \in wire,
           operation # "none" => operation' # "none", UNCHANGED link, watch' \in {watch, None}
    PROVE  Counted'
<1>1. Used' \in SUBSET Used /\ Over \in SUBSET Over' /\ Sent' \in SUBSET Sent
  BY DEF Used, Over, Sent
<1>2. /\ Cardinality(Used)' <= Cardinality(Used)
      /\ Cardinality(Over) <= Cardinality(Over)'
      /\ Cardinality(Sent)' <= Cardinality(Sent)
  BY <1>1, Sizes, Counts
<1>3. connected' = connected /\ drops' = drops /\ drops \in Nat
  BY DEF link, ClientInv, ClientTypeOK
<1>4. ~connected' => watch' = None
  BY <1>3 DEF ClientInv, Counted
<1>5. Cardinality(Used)' + (IF connected' THEN 0 ELSE 1) <= drops'
  BY <1>2, <1>3, Counts DEF ClientInv, Counted
<1>6. Cardinality(Sent)' <= (IF operation' = "none" THEN 0 ELSE 1) + Cardinality(Over)'
  BY <1>2, Counts DEF ClientInv, Counted
<1>7. QED
  BY <1>4, <1>5, <1>6 DEF Counted

\* Nobody begins anew, and a subscription the daemon looked at stays so.
LEMMA PlacesPass ==
    ASSUME Founded, Growth, [Next]_vars
    PROVE  /\ \A a \in Actors : pc[a] # "idle" => pc'[a] # "idle"
           /\ \A s \in Subscribers : Passed(s) => Passed(s)'
<1>0. /\ Typed /\ pc \in [Actors -> CallPlaces \cup SubscriberPlaces]
      /\ \A c \in Calls, s \in Subscribers : c # s
      /\ Calls \subseteq Actors /\ Subscribers \subseteq Actors
  BY ActorsDiffer, PlacesType DEF Founded, Typed, TypeOK
<1>1. ASSUME NEW c \in Calls, Create(c)
      PROVE  \A a \in Actors : pc'[a] = pc[a] \/ (a = c /\ pc'[a] = "queued")
  BY <1>0, <1>1 DEF Create
<1>2. ASSUME NEW c \in Calls, Step(c)
      PROVE  /\ \A a \in Actors : a # c => pc'[a] \in {pc[a], "answered"}
             /\ pc'[c] # "idle"
  BY <1>0, <1>2, StepPlaces
<1>3. ASSUME NEW s \in Subscribers, Subscribe(s) \/ Look(s) \/ Flag(s) \/ Unsubscribe(s)
      PROVE  /\ \A a \in Actors : a # s => pc'[a] = pc[a]
             /\ pc'[s] # "idle"
             /\ ~Passed(s) \/ pc'[s] = "answered"
  <2>1. \E p \in {"waiting", "answered", "flagging", "watching"} : pc' = [pc EXCEPT ![s] = p]
    BY <1>3 DEF Subscribe, Look, Flag, Publish, Unsubscribe
  <2>2. pc[s] \in {"idle", "waiting", "flagging"} \/ pc' = [pc EXCEPT ![s] = "answered"]
    BY <1>3 DEF Subscribe, Look, Flag, Unsubscribe
  <2>3. QED
    BY <1>0, <2>1, <2>2 DEF Passed
<1>4. ASSUME NEW i \in Identities, Delete(i) PROVE pc' = pc
  BY <1>4 DEF Delete
<1>5. CASE Crash
  <2>1. \A a \in Actors : pc'[a] = IF pc[a] \in {"idle"} \cup Answered THEN pc[a] ELSE "lost"
    BY <1>5 DEF Crash
  <2>2. QED
    BY <1>0, <2>1 DEF Passed, Answered
<1>6. CASE UNCHANGED vars
  BY <1>6 DEF vars, Passed
<1>7. QED
  BY <1>0, <1>1, <1>2, <1>3, <1>4, <1>5, <1>6 DEF Next, Passed

\* What a step of the daemon moves.
LEMMA DaemonMoves ==
    ASSUME Founded,
           \/ \E c \in Calls : Step(c)
           \/ \E s \in Subscribers : Look(s) \/ Flag(s)
    PROVE  /\ \A a \in Actors : pc[a] = "idle" => pc'[a] = "idle"
           /\ \A s \in Subscribers : pc'[s] = "watching" => pc[s] \in {"waiting", "flagging", "watching"}
<1>0. /\ Typed /\ pc \in [Actors -> CallPlaces \cup SubscriberPlaces]
      /\ \A c \in Calls, s \in Subscribers : c # s
      /\ Calls \subseteq Actors /\ Subscribers \subseteq Actors
  BY ActorsDiffer, PlacesType DEF Founded, Typed, TypeOK
<1>1. ASSUME NEW c \in Calls, Step(c)
      PROVE  /\ \A a \in Actors : pc[a] = "idle" => pc'[a] = "idle"
             /\ \A s \in Subscribers : pc'[s] = "watching" => pc[s] = "watching"
  <2>1. \A a \in Actors : a # c => pc'[a] = pc[a] \/ (pc[a] = "joined" /\ pc'[a] = "answered")
    BY <1>0, <1>1, StepPlaces
  <2>2. pc[c] # "idle"
    BY <1>0, <1>1, StepPlaces DEF Admitting, Running
  <2>3. QED
    BY <1>0, <2>1, <2>2
<1>2. ASSUME NEW s \in Subscribers, Look(s) \/ Flag(s)
      PROVE  /\ \A a \in Actors : a # s => pc'[a] = pc[a]
             /\ pc[s] \in {"waiting", "flagging"}
  <2>1. \E p \in {"answered", "flagging", "watching"} : pc' = [pc EXCEPT ![s] = p]
    BY <1>2 DEF Look, Flag, Publish
  <2>2. QED
    BY <1>0, <1>2, <2>1 DEF Look, Flag
<1>3. QED
  BY <1>0, <1>1, <1>2

\* News of a key the journal does not know is the snapshot of a subscription.
LEMMA UnknownIsFirst ==
    ASSUME Founded, Growth, Growth', [Next]_vars, ClientTypeOK, Informed, ~Known,
           \A s \in Subscribers : pc'[s] = "watching" => pc[s] \in {"waiting", "flagging", "watching"}
    PROVE  watch \in Watches /\ pc[watch] \in {"waiting", "flagging"} /\ pc'[watch] = "watching"
<1>1. /\ Mine \subseteq Actors /\ Watches \subseteq Actors /\ Watches \subseteq Subscribers
      /\ \A a \in Mine \cup Watches : IdentityOf[a] = Key
  BY ClientAssumption, ActorsDiffer
<1>2. ASSUME NEW a \in Mine \cup Watches PROVE told'[a] = told[a]
  <2>1. Key \in Identities /\ a \in Actors /\ IdentityOf[a] = Key
    BY <1>1, ActorsDiffer
  <2>2. record'[Key] = None /\ record[Key] = None
    BY <2>1, NextGrows DEF Known, GrowsOnly
  <2>3. Current(a) /\ Current(a)'
    BY <2>1 DEF Growth
  <2>4. QED
    BY <2>1, <2>2, <2>3 DEF Current
<1>3. watch \in Watches
  BY <1>2 DEF Informed, ClientTypeOK
<1>4. QED
  BY <1>1, <1>2, <1>3 DEF Informed, ClientTypeOK

-----------------------------------------------------------------------------
\* What a step of the daemon makes the client do.
LEMMA HearKeeps ==
    ASSUME ClientInv, Founded, Growth, Founded', Growth', Finals', [Next]_vars, Hear,
           \/ \E c \in Calls : Step(c)
           \/ \E s \in Subscribers : Look(s) \/ Flag(s)
    PROVE  ClientInv'
<1>0. /\ Mine \subseteq Calls /\ Watches \subseteq Subscribers /\ Calls \subseteq Actors
      /\ Subscribers \subseteq Actors
      /\ Key \in Identities \/ Mine \cup Watches = {}
  BY ClientAssumption, ActorsDiffer
<1>1. /\ \A a \in Mine \cup Watches : pc[a] = "idle" <=> pc'[a] = "idle"
      /\ \A w \in Watches : Passed(w) => Passed(w)'
      /\ \A s \in Subscribers : pc'[s] = "watching" => pc[s] \in {"waiting", "flagging", "watching"}
  BY <1>0, PlacesPass, DaemonMoves
<1>2. ASSUME UNCHANGED <<link, wire>>, operation # "none" => operation' # "none", watch' \in {watch, None}
      PROVE  Counted'
  BY <1>1, <1>2, ClientAssumption, CountKept
<1>3. CASE UNCHANGED client
  <2>1. ClientTypeOK'
    BY <1>3 DEF ClientInv, ClientTypeOK, client, promise, link
  <2>2. UNCHANGED <<link, wire, operation, watch>>
    BY <1>3 DEF client, promise
  <2>3. QED
    BY <1>2, <2>1, <2>2 DEF ClientInv
<1>4. ASSUME NEW value \in {"completed", "failed", "rejected"}, Finish(value), seen' \in Nat \cup {-1}
      PROVE  ClientInv'
  <2>1. ClientTypeOK'
    BY <1>4 DEF ClientInv, ClientTypeOK, Finish, link
  <2>2. QED
    BY <1>2, <1>4, <2>1 DEF ClientInv, Finish
<1>5. ASSUME Replied
      PROVE  (IF result'[call].snapshot = None THEN "rejected" ELSE result'[call].snapshot.phase)
                \in {"completed", "failed", "rejected"}
  <2>1. call \in Calls /\ result'[call] # None
    BY <1>0, <1>5 DEF Replied, ClientInv, ClientTypeOK
  <2>2. EndsCreation(result'[call])
    BY <2>1 DEF Finals, OnlyEndsAnswer
  <2>3. QED
    BY <2>1, <2>2 DEF EndsCreation
<1>6. CASE Receive
  <2>1. record'[Key] \in Record
    <3>1. Key \in Identities
      BY <1>0, <1>6 DEF Receive, Informed, ClientInv, ClientTypeOK
    <3>2. QED
      BY <1>6, <3>1 DEF Receive, Known, Founded, Typed, TypeOK
  <2>2. seen' \in Nat
    BY <1>6, <2>1 DEF Receive, Record
  <2>3. CASE Finish(record'[Key].phase) /\ IsTerminal(record'[Key])
    BY <1>4, <2>2, <2>3 DEF IsTerminal
  <2>4. CASE Replied /\ Finish(IF result'[call].snapshot = None THEN "rejected"
                                ELSE result'[call].snapshot.phase)
    BY <1>4, <1>5, <2>2, <2>4
  <2>5. CASE UNCHANGED <<promise, recovering, link, call, watch, wire, late>>
    <3>1. ClientTypeOK'
      BY <2>2, <2>5 DEF ClientInv, ClientTypeOK, promise, link
    <3>2. Counted'
      BY <1>2, <2>5 DEF promise
    <3>3. QED
      BY <3>1, <3>2 DEF ClientInv
  <2>6. QED
    BY <1>6, <2>3, <2>4, <2>5 DEF Receive
<1>7. CASE Conclude
  <2>1. seen' \in Nat \cup {-1}
    BY <1>7 DEF Conclude, ClientInv, ClientTypeOK
  <2>2. QED
    BY <1>4, <1>5, <1>7, <2>1 DEF Conclude
<1>8. CASE Resubmit /\ Listening
  <2>1. watch \in Watches /\ pc[watch] \in {"waiting", "flagging"} /\ pc'[watch] = "watching"
    BY <1>1, <1>8, UnknownIsFirst DEF Resubmit, ClientInv
  <2>2. connected /\ operation = "pending" /\ ~Passed(watch)
    BY <1>8, <2>1 DEF Listening, Passed
  <2>3. Unsent \in Mine
    BY <2>1, <2>2, RequestLeft
  <2>4. call' = Unsent /\ wire' = wire \cup {Unsent} /\ UNCHANGED <<promise, recovering, seen, link, watch, late>>
    BY <1>8 DEF Resubmit, Submit
  <2>5. ClientTypeOK'
    BY <2>3, <2>4 DEF ClientInv, ClientTypeOK, promise, link
  <2>6. Used' \in SUBSET Used /\ Sent' \in SUBSET (Sent \cup {Unsent}) /\ Over \cup {watch} \in SUBSET Over'
    <3>1. watch \in Over'
      BY <2>1 DEF Over, Passed
    <3>2. Over \in SUBSET Over'
      BY <1>1 DEF Over
    <3>3. Used' \in SUBSET Used /\ Sent' \in SUBSET (Sent \cup {Unsent})
      BY <1>1, <2>4 DEF Used, Sent
    <3>4. QED
      BY <3>1, <3>2, <3>3
  <2>7. Cardinality(Over)' >= Cardinality(Over) + 1
    <3>1. Cardinality(Over \cup {watch}) = Cardinality(Over) + 1
      BY <2>2, Counts, Sizes, FS_AddElement DEF Over
    <3>2. QED
      BY <2>6, <3>1, Counts, Sizes
  <2>8. Cardinality(Sent)' <= Cardinality(Sent) + 1
    <3>1. IsFiniteSet(Sent) /\ Sent \cup {Unsent} \in SUBSET Mine
      BY <2>3, Counts, Sizes
    <3>2. Cardinality(Sent \cup {Unsent}) <= Cardinality(Sent) + 1
      BY <3>1, Counts, OneMore
    <3>3. Cardinality(Sent)' <= Cardinality(Sent \cup {Unsent})
      BY <2>6, <3>1, Sizes
    <3>4. QED
      BY <3>1, <3>2, <3>3, Counts, Sizes
  <2>9. Cardinality(Used)' <= Cardinality(Used)
    BY <2>6, Counts, Sizes
  <2>10. connected' = connected /\ drops' = drops /\ operation' = operation /\ drops \in Nat
    BY <2>4 DEF promise, link, ClientInv, ClientTypeOK
  <2>11. Counted'
    BY <2>2, <2>7, <2>8, <2>9, <2>10, Counts DEF ClientInv, Counted
  <2>12. QED
    BY <2>5, <2>11 DEF ClientInv
<1>9. QED
  BY <1>3, <1>6, <1>7, <1>8 DEF Hear

LEMMA ClientStep ==
    ASSUME ClientInv, Founded, Growth, Founded', Growth', Finals', [ClientNext]_clientVars
    PROVE  ClientInv'
<1>0. /\ [Next]_vars /\ Mine \subseteq Calls /\ Watches \subseteq Subscribers
      /\ Calls \subseteq Actors /\ Subscribers \subseteq Actors
      /\ \A c \in Calls, s \in Subscribers : c # s
      /\ pc \in [Actors -> CallPlaces \cup SubscriberPlaces]
  BY ClientStepsAreSteps, ClientAssumption, ActorsDiffer, PlacesType DEF Founded, Typed, TypeOK
<1>1. /\ \A a \in Actors : pc[a] # "idle" => pc'[a] # "idle"
      /\ \A w \in Watches : Passed(w) => Passed(w)'
  BY <1>0, PlacesPass
<1>2. ASSUME UNCHANGED <<promise, recovering, seen, link, call, watch, late>>,
             \/ wire' = wire
             \/ \E c \in wire : pc'[c] # "idle" /\ wire' = wire \ {c},
             \A a \in Mine \cup Watches : pc'[a] # "idle" => pc[a] # "idle" \/ a \in wire \/ a = watch
      PROVE  ClientInv'
  <2>1. ClientTypeOK'
    BY <1>2 DEF ClientInv, ClientTypeOK, promise, link
  <2>2. wire' \subseteq wire /\ operation' = operation
    BY <1>2 DEF promise
  <2>3. Mine \cap Watches = {} /\ wire \subseteq Mine /\ watch \in Watches \cup {None} /\ watch \notin Mine
    BY <1>0, ClientAssumption, NoneApart DEF ClientInv, ClientTypeOK
  <2>4. Counted'
    BY <1>1, <1>2, <2>2, <2>3, CountKept
  <2>5. QED
    BY <2>1, <2>4 DEF ClientInv
<1>3. CASE StartOperation
  <2>1. operation = "none" /\ connected /\ Unsent \in Mine
    BY <1>3, RequestLeft DEF StartOperation
  <2>2. /\ operation' = "pending" /\ call' = Unsent /\ wire' = wire \cup {Unsent}
        /\ UNCHANGED <<pc, outcome, recovering, seen, connected, drops, watch, late>>
    BY <1>3 DEF StartOperation, Submit, link, vars
  <2>3. ClientTypeOK'
    BY <2>1, <2>2 DEF ClientInv, ClientTypeOK
  <2>4. Used' = Used /\ Over' = Over /\ Sent' \in SUBSET (Sent \cup {Unsent})
    BY <2>2 DEF Used, Over, Sent, Passed
  <2>5. Cardinality(Sent)' <= Cardinality(Sent) + 1
    <3>1. IsFiniteSet(Sent) /\ Sent \cup {Unsent} \in SUBSET Mine
      BY <2>1, Counts, Sizes
    <3>2. Cardinality(Sent \cup {Unsent}) <= Cardinality(Sent) + 1
      BY <3>1, Counts, OneMore
    <3>3. Cardinality(Sent)' <= Cardinality(Sent \cup {Unsent})
      BY <2>4, <3>1, Sizes
    <3>4. QED
      BY <3>1, <3>2, <3>3, Counts, Sizes
  <2>6. Counted'
    BY <2>1, <2>2, <2>4, <2>5, Counts DEF ClientInv, Counted
  <2>7. QED
    BY <2>3, <2>6 DEF ClientInv
<1>4. CASE Drop
  <2>1. /\ connected /\ drops < MaxDrops /\ connected' = FALSE /\ drops' = drops + 1
        /\ call' = None /\ watch' = None /\ late' = late \cup wire
        /\ UNCHANGED <<pc, operation, outcome, recovering, seen, wire>>
    BY <1>4 DEF Drop, promise, vars
  <2>2. ClientTypeOK'
    <3>1. drops + 1 \in 0 .. MaxDrops
      BY <2>1, ClientAssumption DEF ClientInv, ClientTypeOK
    <3>2. QED
      BY <2>1, <3>1 DEF ClientInv, ClientTypeOK
  <2>3. Used' \in SUBSET Used /\ Over' = Over /\ Sent' = Sent
    BY <2>1, ClientAssumption, ActorsDiffer DEF Used, Over, Sent, Passed, Founded, Typed, TypeOK
  <2>4. Cardinality(Used)' <= Cardinality(Used)
    BY <2>3, Counts, Sizes
  <2>5. Counted'
    BY <2>1, <2>3, <2>4, Counts DEF ClientInv, Counted, ClientTypeOK
  <2>6. QED
    BY <2>2, <2>5 DEF ClientInv
<1>5. CASE Die
  <2>1. /\ connected' = FALSE /\ drops' = IF connected THEN drops + 1 ELSE drops
        /\ connected => drops < MaxDrops
        /\ call' = None /\ watch' = None /\ wire' = {}
        /\ UNCHANGED <<operation, outcome, recovering, seen, late>>
        /\ \A a \in Actors : pc[a] = "idle" => pc'[a] = "idle"
    BY <1>5 DEF Die, Crash, promise
  <2>2. ClientTypeOK'
    <3>1. drops' \in 0 .. MaxDrops
      BY <2>1, ClientAssumption DEF ClientInv, ClientTypeOK
    <3>2. QED
      BY <2>1, <3>1 DEF ClientInv, ClientTypeOK
  <2>3. Used' \in SUBSET Used /\ Over \in SUBSET Over' /\ Sent' \in SUBSET Sent
    <3>1. \A a \in Mine \cup Watches : pc'[a] # "idle" => pc[a] # "idle"
      BY <1>0, <2>1
    <3>2. watch' \notin Watches /\ wire' = {}
      BY <2>1, ClientAssumption
    <3>3. QED
      BY <1>1, <3>1, <3>2 DEF Used, Over, Sent
  <2>4. /\ Cardinality(Used)' <= Cardinality(Used)
        /\ Cardinality(Over) <= Cardinality(Over)'
        /\ Cardinality(Sent)' <= Cardinality(Sent)
    BY <2>3, Counts, Sizes
  <2>5. Counted'
    BY <2>1, <2>4, Counts DEF ClientInv, Counted, ClientTypeOK
  <2>6. QED
    BY <2>2, <2>5 DEF ClientInv
<1>6. CASE Reconnect
  <2>1. ~connected /\ connected' = TRUE /\ UNCHANGED <<pc, operation, outcome, seen, drops, call, wire, late>>
    BY <1>6 DEF Reconnect, promise, vars
  <2>2. /\ recovering' \in BOOLEAN
        /\ watch' \in Watches \cup {None}
        /\ watch = None
    <3>1. watch = None
      BY <2>1 DEF ClientInv, Counted
    <3>2. (CHOOSE w \in Watches : pc[w] = "idle") \in Watches
      BY <2>1, WatchLeft
    <3>3. QED
      BY <1>6, <3>1, <3>2 DEF Reconnect, ClientInv, ClientTypeOK
  <2>3. ClientTypeOK'
    BY <2>1, <2>2 DEF ClientInv, ClientTypeOK
  <2>4. Used' \in SUBSET (Used \cup {watch'}) /\ Over' = Over /\ Sent' = Sent
    BY <2>1 DEF Used, Over, Sent, Passed
  <2>5. Cardinality(Used)' <= Cardinality(Used) + 1
    <3>1. CASE watch' = None
      <4>1. Used' \in SUBSET Used
        BY <2>1, <3>1, <1>0, NoneAssumption, ClientAssumption, <2>2 DEF Used
      <4>2. QED
        BY <4>1, Counts, Sizes
    <3>2. CASE watch' \in Watches
      <4>1. IsFiniteSet(Used) /\ Used \cup {watch'} \in SUBSET Watches
        BY <3>2, Counts, Sizes
      <4>2. Cardinality(Used \cup {watch'}) <= Cardinality(Used) + 1
        BY <4>1, Counts, OneMore
      <4>3. Cardinality(Used)' <= Cardinality(Used \cup {watch'})
        BY <2>4, <4>1, Sizes
      <4>4. QED
        BY <4>1, <4>2, <4>3, Counts, Sizes
    <3>3. QED
      BY <2>2, <3>1, <3>2
  <2>6. Counted'
    BY <2>1, <2>4, <2>5, Counts DEF ClientInv, Counted, ClientTypeOK
  <2>7. QED
    BY <2>3, <2>6 DEF ClientInv
<1>7. CASE Watch
  <2>1. watch \in Watches /\ pc' = [pc EXCEPT ![watch] = "waiting"] /\ UNCHANGED client
    BY <1>7 DEF Watch, Subscribe
  <2>2. \A a \in Mine \cup Watches : pc'[a] # "idle" => pc[a] # "idle" \/ a = watch
    BY <1>0, <2>1
  <2>3. QED
    BY <1>2, <2>1, <2>2 DEF client
<1>8. CASE Elsewhere
  <2>1. UNCHANGED client
    BY <1>8 DEF Elsewhere
  <2>2. \A a \in Mine \cup Watches : pc'[a] # "idle" => pc[a] # "idle"
    BY <1>8, <1>0 DEF Elsewhere, Create, Subscribe, Unsubscribe, Delete
  <2>3. QED
    BY <1>2, <2>1, <2>2 DEF client
<1>9. ASSUME NEW c \in Mine, Arrive(c) PROVE ClientInv'
  <2>1. /\ c \in wire /\ pc' = [pc EXCEPT ![c] = "queued"] /\ wire' = wire \ {c}
        /\ UNCHANGED <<promise, recovering, seen, link, call, watch, late>>
    BY <1>9 DEF Arrive, Create
  <2>2. /\ pc'[c] # "idle"
        /\ \A a \in Mine \cup Watches : pc'[a] # "idle" => pc[a] # "idle" \/ a \in wire
    BY <1>0, <2>1
  <2>3. QED
    BY <1>2, <2>1, <2>2
<1>10. ASSUME NEW c \in Calls, Serve(c) PROVE ClientInv'
  BY <1>0, <1>10, HearKeeps DEF Serve
<1>11. ASSUME NEW s \in Subscribers, Attend(s) PROVE ClientInv'
  BY <1>0, <1>11, HearKeeps DEF Attend
<1>12. CASE UNCHANGED clientVars
  <2>1. UNCHANGED client /\ pc' = pc
    BY <1>12 DEF clientVars, vars
  <2>2. QED
    BY <1>2, <2>1 DEF client
<1>13. QED
  BY <1>3, <1>4, <1>5, <1>6, <1>7, <1>8, <1>9, <1>10, <1>11, <1>12 DEF ClientNext

LEMMA ClientStarts == ClientInit => ClientInv
<1>1. SUFFICES ASSUME ClientInit PROVE ClientInv
  OBVIOUS
<1>2. ClientTypeOK
  <2>1. drops \in 0 .. MaxDrops
    BY <1>1, ClientAssumption DEF ClientInit
  <2>2. QED
    BY <1>1, <2>1 DEF ClientInit, ClientTypeOK
<1>3. /\ Mine \subseteq Actors /\ Watches \subseteq Actors /\ None \notin Watches
  BY ClientAssumption, ActorsDiffer
<1>4. Used = {} /\ Sent = {} /\ Over = {}
  BY <1>1, <1>3 DEF ClientInit, Init, Used, Sent, Over, Passed
<1>5. Cardinality({}) = 0
  BY FS_EmptySet
<1>6. QED
  BY <1>1, <1>2, <1>4, <1>5 DEF ClientInv, Counted, ClientInit

\* With more requests than connections it may lose, and a subscription for each
\* of those, the client always has one left when it submits or subscribes
\* (submit, reconnect): it sends as often as the code does, and no choice of the
\* model is one of nothing.  What its caller is told is that the creation
\* completed, that it failed, or that it was rejected, never a stage on the way.
THEOREM ClientTypeCorrect == ClientSpec => []ClientTypeOK
<1>1. ClientInit => ClientInv
  BY ClientStarts
<1>2. ClientInv => ClientTypeOK
  BY DEF ClientInv
<1>3. ClientSpec => [](Founded /\ Growth /\ Finals)
  BY JournalUnderClient, AlwaysFinal, PTL
<1>4. /\ Founded /\ Growth /\ Finals /\ (Founded /\ Growth /\ Finals)'
      /\ ClientInv /\ [ClientNext]_clientVars
      => ClientInv'
  BY ClientStep
<1>5. QED
  BY <1>1, <1>2, <1>3, <1>4, PTL DEF ClientSpec

-----------------------------------------------------------------------------
(* A record at its end is nobody's work.                                     *)

\* The record a runner works on is not at an end, and who joined has a runner.
Open ==
    \A c \in Calls :
        /\ pc[c] \in Running => ~IsTerminal(record[IdentityOf[c]])
        /\ pc[c] = "joined" => active[IdentityOf[c]] # None

LEMMA RunnerStaysOpen ==
    ASSUME Founded, Growth, Open, NEW c \in Calls, pc[c] \in Running, Step(c)
    PROVE  /\ pc'[c] \in Running => ~IsTerminal(record'[IdentityOf[c]])
           /\ active' = active \/ \E value : Settle(c, value)
<1> DEFINE i == IdentityOf[c]
           Stays == pc'[c] \in Running => ~IsTerminal(record'[i])
           Keeps == active' = active \/ \E value : Settle(c, value)
<1>0. /\ Typed /\ c \in Actors /\ i \in Identities /\ ~IsTerminal(record[i])
      /\ record \in [Identities -> Record \cup {None}]
      /\ pc \in [Actors -> CallPlaces \cup SubscriberPlaces]
      /\ HolderSound(c) /\ mem[c] \in Record
  BY ActorsDiffer, PlacesType, RunnerHolds DEF Founded, Growth, Typed, TypeOK, Open
<1>1. ASSUME NEW r, ~IsTerminal(r), record' \in {record, [record EXCEPT ![i] = r]}
      PROVE  Stays
  BY <1>0, <1>1
<1>2. pc[c] # "failing" => ~IsTerminal(mem[c])
  BY <1>0 DEF HolderSound
<1>3. ASSUME NEW value, Settle(c, value) PROVE Stays /\ Keeps
  <2>1. pc'[c] = "answered"
    BY <1>0, <1>3 DEF Settle
  <2>2. QED
    BY <1>3, <2>1 DEF Running
<1>4. ASSUME NEW r, ~IsTerminal(Published(r)), NEW then, NEW otherwise, Publish(c, r, then, otherwise)
      PROVE  Stays
  <2> DEFINE next == Published(r)
  <2>1. record' \in {record, [record EXCEPT ![i] = next]}
    BY <1>4 DEF Publish, DiskFails, disk, Published
  <2> HIDE DEF next
  <2>2. QED
    BY <1>1, <1>4, <2>1 DEF next
<1>5. CASE Provision(c) \/ Spawn(c) \/ Prompt(c)
  <2>1. record' = record /\ active' = active
    BY <1>5 DEF Provision, Spawn, Prompt, disk
  <2>2. QED
    BY <1>0, <2>1
<1>6. CASE MarkWorkspace(c)
  <2> DEFINE r == [mem[c] EXCEPT !.inFlight = "workspace"]
  <2>1. ~IsTerminal(r)
    BY <1>0, <1>2, <1>6 DEF MarkWorkspace, IsTerminal, Record
  <2>2. record' \in {record, [record EXCEPT ![i] = r]} /\ active' = active
    BY <1>6 DEF MarkWorkspace, Write, DiskFails, disk
  <2> HIDE DEF r
  <2>3. QED
    BY <1>1, <2>1, <2>2
<1>7. CASE MarkAgent(c)
  <2> DEFINE r == [mem[c] EXCEPT !.inFlight = "agent"]
  <2>1. ~IsTerminal(r)
    BY <1>0, <1>2, <1>7 DEF MarkAgent, IsTerminal, Record
  <2>2. record' \in {record, [record EXCEPT ![i] = r]} /\ active' = active
    BY <1>7 DEF MarkAgent, Write, DiskFails, disk
  <2> HIDE DEF r
  <2>3. QED
    BY <1>1, <2>1, <2>2
<1>8. CASE WorkspaceReady(c)
  <2> DEFINE r == [mem[c] EXCEPT !.inFlight = None, !.phase = "workspace_ready", !.workspace = TRUE]
  <2>1. ~IsTerminal(Published(r))
    BY <1>0 DEF Published, IsTerminal, Record
  <2>2. (record' = record \/ Publish(c, r, "running", "failing")) /\ active' = active
    BY <1>8 DEF WorkspaceReady, Throw, disk
  <2> HIDE DEF r
  <2>3. QED
    BY <1>0, <1>4, <2>1, <2>2
<1>9. CASE AgentReady(c)
  <2> DEFINE r == [mem[c] EXCEPT
                !.inFlight = IF mem[c].request.hasPrompt THEN "prompt" ELSE None,
                !.phase = "agent_ready", !.agent = TRUE]
  <2>1. ~IsTerminal(Published(r))
    BY <1>0 DEF Published, IsTerminal, Record
  <2>2. (record' = record \/ Publish(c, r, "started", "failing")) /\ active' = active
    BY <1>9 DEF AgentReady, Throw, disk
  <2> HIDE DEF r
  <2>3. QED
    BY <1>0, <1>4, <2>1, <2>2
<1>10. CASE AgentCreated(c)
  <2> DEFINE r == [mem[c] EXCEPT !.inFlight = None]
             s == [r EXCEPT !.phase = "prompt_started"]
  <2>1. ~IsTerminal(Published(s))
    BY <1>0 DEF Published, IsTerminal, Record
  <2>2. (record' = record \/ Publish(c, s, "running", "failing")) /\ active' = active
    BY <1>10 DEF AgentCreated, disk
  <2> HIDE DEF r, s
  <2>3. QED
    BY <1>0, <1>4, <2>1, <2>2
<1>11. CASE Complete(c) \/ FailRun(c)
  <2>1. (\E value : Settle(c, value)) \/ (record' = record /\ active' = active)
    BY <1>11 DEF Complete, FailRun, PublishLast, DiskFails, disk
  <2>2. QED
    BY <1>0, <1>3, <2>1
<1>12. QED
  BY <1>5, <1>6, <1>7, <1>8, <1>9, <1>10, <1>11 DEF Step, Running, Admit, Interrupted, RecordIdentity,
     Claim, Start, RejectReset

LEMMA AdmissionOpens ==
    ASSUME Founded, Growth, Open, NEW c \in Calls, pc[c] \notin Running, Step(c)
    PROVE  /\ pc'[c] \in Running => ~IsTerminal(record'[IdentityOf[c]])
           /\ pc'[c] = "joined" => active[IdentityOf[c]] # None
           /\ active' = active \/ active' = [active EXCEPT ![IdentityOf[c]] = c]
<1> DEFINE i == IdentityOf[c]
<1>0. /\ Typed /\ c \in Actors /\ i \in Identities
      /\ record \in [Identities -> Record \cup {None}]
      /\ pc \in [Actors -> CallPlaces \cup SubscriberPlaces] /\ HolderSound(c)
  BY ActorsDiffer, PlacesType DEF Founded, Growth, Typed, TypeOK
<1>1. CASE Admit(c)
  <2>1. active' = active
    BY <1>1 DEF Admit
  <2>2. \E p \in {"joined", "answered", "interrupted", "claiming", "recording"} : pc' = [pc EXCEPT ![c] = p]
    BY <1>1 DEF Admit, Answer, KeyConflict, Replay, Begin, ImportLegacy, Join
  <2>3. active[i] = None =>
            \E p \in {"answered", "interrupted", "claiming", "recording"} : pc' = [pc EXCEPT ![c] = p]
    BY <1>1 DEF Admit, Answer, KeyConflict, Replay, Begin, ImportLegacy
  <2>4. QED
    BY <1>0, <2>1, <2>2, <2>3 DEF Running
<1>2. CASE Start(c)
  <2>1. pc[c] = "claiming" /\ mem[c] = record[i] /\ ~IsSettled(mem[c]) /\ mem[c] \in Record
    BY <1>2, <1>0 DEF Start, HolderSound, Typed, TypeOK, Seats, Holding, Entered, Admitting
  <2>2. CASE /\ mem[c].phase # "failed" /\ pc' = [pc EXCEPT ![c] = "running"]
             /\ active' = [active EXCEPT ![i] = c] /\ UNCHANGED disk
    BY <1>0, <2>1, <2>2 DEF IsSettled, IsTerminal, disk
  <2>3. CASE /\ Publish(c, Retried(mem[c]), "running", "resetting")
             /\ active' = IF pc'[c] = "running" THEN [active EXCEPT ![i] = c] ELSE active
    <3> DEFINE next == Published(Retried(mem[c]))
    <3>1. ~IsTerminal(next)
      BY <2>1 DEF Published, Retried, Record, IsTerminal
    <3>2. \/ pc' = [pc EXCEPT ![c] = "resetting"]
          \/ record' = [record EXCEPT ![i] = next] /\ pc' = [pc EXCEPT ![c] = "running"]
      BY <2>3 DEF Publish, Published
    <3> HIDE DEF next
    <3>3. QED
      BY <1>0, <2>3, <3>1, <3>2 DEF Running
  <2>4. QED
    BY <1>2, <2>2, <2>3 DEF Start
<1>3. CASE Interrupted(c) \/ RecordIdentity(c) \/ Claim(c) \/ RejectReset(c)
  <2>1. active' = active /\ (pc' = pc \/ \E p \in {"answered", "claiming"} : pc' = [pc EXCEPT ![c] = p])
    BY <1>3 DEF Interrupted, RecordIdentity, Claim, RejectReset, Answer
  <2>2. pc[c] # "joined"
    BY <1>3 DEF Interrupted, RecordIdentity, Claim, RejectReset
  <2>3. QED
    BY <1>0, <2>1, <2>2 DEF Running
<1>4. QED
  BY <1>1, <1>2, <1>3 DEF Step, Running, MarkWorkspace, Provision, WorkspaceReady, MarkAgent, Spawn,
     AgentReady, Prompt, AgentCreated, Complete, FailRun

LEMMA NextOpen ==
    ASSUME Founded, Growth, Open, [Next]_vars
    PROVE  Open'
<1>0. /\ Typed /\ Ownership /\ pc \in [Actors -> CallPlaces \cup SubscriberPlaces]
      /\ record \in [Identities -> Record \cup {None}]
      /\ active \in [Identities -> Calls \cup {None}]
      /\ Calls \subseteq Actors /\ Subscribers \subseteq Actors
      /\ \A c \in Calls, s \in Subscribers : c # s
      /\ \A a \in Actors : IdentityOf[a] \in Identities
      /\ None \notin Calls
  BY ActorsDiffer, NoneApart, PlacesType DEF Founded, Typed, TypeOK
<1>1. ASSUME NEW c \in Calls, Step(c) PROVE Open'
  <2> DEFINE i == IdentityOf[c]
  <2>1. /\ pc[c] \in Admitting \cup Running
        /\ \A a \in Actors : a # c => pc'[a] = pc[a] \/ (pc[a] = "joined" /\ pc'[a] = "answered")
    BY <1>0, <1>1, StepPlaces
  <2>2. \A j \in Identities : j # i => record'[j] = record[j]
    BY <1>0, <1>1, StepLocal DEF Local
  <2>3. /\ pc'[c] \in Running => ~IsTerminal(record'[i])
        /\ pc'[c] = "joined" => active'[i] # None
        /\ \/ active' = active \/ active' = [active EXCEPT ![i] = c]
           \/ pc[c] \in Running /\ \E value : Settle(c, value)
    <3>1. CASE pc[c] \in Running
      <4>1. /\ pc'[c] \in Running => ~IsTerminal(record'[i])
            /\ active' = active \/ \E value : Settle(c, value)
        BY <1>1, <3>1, RunnerStaysOpen
      <4>2. active[i] # None
        BY <1>0, <3>1 DEF Ownership, OneRunner
      <4>3. (\E value : Settle(c, value)) => pc'[c] = "answered"
        BY <1>0 DEF Settle
      <4>4. QED
        BY <3>1, <4>1, <4>2, <4>3
    <3>2. CASE pc[c] \notin Running
      BY <1>0, <1>1, <3>2, AdmissionOpens
    <3>3. QED
      BY <3>1, <3>2
  <2>4. ASSUME NEW d \in Calls, d # c, pc'[d] \in Running
        PROVE  ~IsTerminal(record'[IdentityOf[d]])
    <3>1. pc[d] \in Running /\ ~IsTerminal(record[IdentityOf[d]])
      BY <1>0, <2>1, <2>4 DEF Open, Running
    <3>2. CASE IdentityOf[d] = i
      <4>1. active[i] = d /\ record[i] # None
        BY <1>0, <3>1, <3>2 DEF Ownership, OneRunner
      <4>2. pc[c] \notin Running /\ pc[c] \notin Entered
        BY <1>0, <2>4, <4>1 DEF Ownership, OneRunner
      <4>3. pc[c] = "queued"
        BY <2>1, <4>2 DEF Entered
      <4>4. Admit(c)
        BY <1>1, <4>3 DEF Step, Interrupted, RecordIdentity, Claim, Start, RejectReset, MarkWorkspace,
           Provision, WorkspaceReady, MarkAgent, Spawn, AgentReady, Prompt, AgentCreated, Complete, FailRun
      <4>5. record' = record
        BY <4>1, <4>4 DEF Admit, DiskFails, KeyConflict, Join, Replay, Begin, disk
      <4>6. QED
        BY <3>1, <4>5
    <3>3. CASE IdentityOf[d] # i
      BY <1>0, <2>2, <3>1, <3>3
    <3>4. QED
      BY <3>2, <3>3
  <2>5. ASSUME NEW d \in Calls, d # c, pc'[d] = "joined"
        PROVE  active'[IdentityOf[d]] # None
    <3>1. pc[d] = "joined" /\ active[IdentityOf[d]] # None
      BY <1>0, <2>1, <2>5 DEF Open
    <3>2. CASE active' = active \/ active' = [active EXCEPT ![i] = c]
      BY <1>0, <3>1, <3>2
    <3>3. CASE \E value : Settle(c, value)
      <4>1. IdentityOf[d] # i
        BY <1>0, <2>5, <3>1, <3>3 DEF Settle
      <4>2. QED
        BY <1>0, <3>1, <3>3, <4>1 DEF Settle
    <3>4. QED
      BY <2>3, <3>2, <3>3
  <2>6. QED
    BY <2>3, <2>4, <2>5 DEF Open
<1>2. ASSUME NEW s \in Subscribers, Subscribe(s) \/ Look(s) \/ Flag(s) \/ Unsubscribe(s)
      PROVE  Open'
  <2> DEFINE i == IdentityOf[s]
  <2>0. s \in Actors /\ i \in Identities
    BY <1>0
  <2>1. active' = active /\ \A c \in Calls : pc'[c] = pc[c]
    BY <1>2, <1>0, <2>0 DEF Subscribe, Look, Flag, Publish, DiskFails, Unsubscribe
  <2>2. CASE record' = record
    BY <2>1, <2>2 DEF Open
  <2>3. CASE Flag(s) /\ record' # record
    <3>1. active[i] = None
      BY <2>0, <2>3 DEF Flag, Growth, HolderSound, Pending
    <3>2. \A c \in Calls : pc[c] \in Running => IdentityOf[c] # i
      BY <1>0, <3>1 DEF Ownership, OneRunner
    <3>3. \A j \in Identities : j # i => record'[j] = record[j]
      BY <2>3, <1>0 DEF Flag, Publish, DiskFails, disk
    <3>4. QED
      BY <1>0, <2>1, <3>2, <3>3 DEF Open
  <2>4. QED
    BY <1>2, <2>2, <2>3 DEF Subscribe, Look, DiskFails, disk, Unsubscribe
<1>3. ASSUME NEW c \in Calls, Create(c) PROVE Open'
  <2>1. record' = record /\ active' = active /\ \A d \in Calls : pc'[d] \in {pc[d], "queued"}
    BY <1>3, <1>0 DEF Create, disk
  <2>2. QED
    BY <2>1 DEF Open, Running
<1>4. ASSUME NEW i \in Identities, Delete(i) PROVE Open'
  BY <1>4 DEF Delete, Open
<1>5. CASE Crash
  <2>1. \A c \in Calls : pc'[c] \in {"idle", "answered", "lost"}
    BY <1>0, <1>5 DEF Crash, Answered
  <2>2. QED
    BY <2>1 DEF Open, Running
<1>6. CASE UNCHANGED vars
  BY <1>6 DEF vars, disk, Open
<1>7. QED
  BY <1>1, <1>2, <1>3, <1>4, <1>5, <1>6 DEF Next

LEMMA AlwaysOpen == Spec => []Open
<1>1. Init => Open
  BY ActorsDiffer DEF Init, Open, Running
<1>2. Founded /\ Growth /\ Open /\ [Next]_vars => Open'
  BY NextOpen
<1>3. QED
  BY <1>1, <1>2, AlwaysGrowth, PTL DEF Spec

-----------------------------------------------------------------------------
(* A subscription lets the admissions before it through.                     *)

\* Of the calls in E, none is admitted any more when the daemon has looked at the
\* subscription, and until then all that are come before it.
Waits(w, E) ==
    /\ pc[w] \in {"flagging", "watching"} => \A c \in E : ~IsAdmitting(c)
    /\ pc[w] = "waiting" =>
        \E rank \in [Calls -> Nat], lo \in Nat, hi \in Nat :
            /\ InOrder(rank, lo, hi)
            /\ \A c \in E : IsAdmitting(c) =>
                /\ previous[w] \in Calls /\ IsAdmitting(previous[w])
                /\ rank[c] <= rank[previous[w]]

LEMMA WaitsOn ==
    ASSUME Founded, [Next]_vars, NEW w \in Subscribers, NEW E \in SUBSET Calls, Waits(w, E),
           \A c \in E : pc[c] = "idle" => pc'[c] # "queued"
    PROVE  Waits(w, E)'
<1>0. /\ Typed /\ Turns /\ pc \in [Actors -> CallPlaces \cup SubscriberPlaces]
      /\ previous \in [Actors -> Calls \cup {None}] /\ lane \in Calls \cup {None}
      /\ Calls \subseteq Actors /\ Subscribers \subseteq Actors
      /\ \A c \in Calls, s \in Subscribers : c # s
      /\ None \notin Calls /\ pc[w] \in SubscriberPlaces
  BY ActorsDiffer, NoneApart, PlacesType DEF Founded, Typed, TypeOK, Seats
<1> DEFINE p == previous[w]
           Before(rank) == \A c \in E : IsAdmitting(c) =>
                p \in Calls /\ IsAdmitting(p) /\ rank[c] <= rank[p]
<1>1. ASSUME \A c \in Calls : pc'[c] = pc[c], pc'[w] = pc[w], previous'[w] = p,
             \A c \in Calls : previous'[c] = previous[c], UNCHANGED lane
      PROVE  Waits(w, E)'
  <2>1. \A c \in Calls : IsAdmitting(c)' <=> IsAdmitting(c)
    BY <1>1 DEF IsAdmitting
  <2>2. ASSUME pc[w] = "waiting"
        PROVE  \E rank \in [Calls -> Nat], lo \in Nat, hi \in Nat : InOrder(rank, lo, hi)' /\ Before(rank)
    <3>1. PICK rank \in [Calls -> Nat], lo \in Nat, hi \in Nat : InOrder(rank, lo, hi) /\ Before(rank)
      BY <2>2 DEF Waits
    <3>2. InOrder(rank, lo, hi)'
      BY <1>0, <1>1, <2>1, <3>1, SameOrder
    <3>3. QED
      BY <3>1, <3>2
  <2>3. p \in Calls => (IsAdmitting(previous[w])' <=> IsAdmitting(p))
    BY <1>1, <2>1 DEF IsAdmitting
  <2>4. QED
    BY <1>1, <2>1, <2>2, <2>3 DEF Waits
<1>2. ASSUME NEW c \in Calls, Create(c) PROVE Waits(w, E)'
  <2>1. /\ pc[c] = "idle" /\ pc' = [pc EXCEPT ![c] = "queued"] /\ previous' = [previous EXCEPT ![c] = lane]
        /\ c \notin E
    BY <1>0, <1>2 DEF Create
  <2>2. /\ pc'[w] = pc[w] /\ previous'[w] = p
        /\ \A d \in Calls : d # c => (IsAdmitting(d)' <=> IsAdmitting(d))
        /\ ~IsAdmitting(c)
    BY <1>0, <2>1 DEF IsAdmitting, Admitting
  <2>3. CASE pc[w] = "waiting"
    <3>1. PICK rank \in [Calls -> Nat], lo \in Nat, hi \in Nat : InOrder(rank, lo, hi) /\ Before(rank)
      BY <2>3 DEF Waits
    <3>2. PICK q \in [Calls -> Nat], l \in Nat, h \in Nat :
                InOrder(q, l, h)' /\ \A d \in Calls : d # c => q[d] = rank[d]
      BY <1>0, <1>2, <3>1, NewRank
    <3>3. ASSUME NEW d \in E, IsAdmitting(d)'
          PROVE  p \in Calls /\ p # c /\ IsAdmitting(p) /\ q[d] <= q[p]
      <4>1. d # c /\ IsAdmitting(d) /\ d \in Calls
        BY <2>1, <2>2, <3>3
      <4>2. p \in Calls /\ IsAdmitting(p) /\ p # c /\ rank[d] <= rank[p]
        BY <2>2, <3>1, <4>1
      <4>3. QED
        BY <3>2, <4>1, <4>2
    <3>4. \A d \in E : IsAdmitting(d)' =>
            previous'[w] \in Calls /\ IsAdmitting(previous[w])' /\ q[d] <= q[previous'[w]]
      <4>1. p \in Calls /\ p # c /\ IsAdmitting(p) => IsAdmitting(previous[w])'
        BY <2>2 DEF IsAdmitting
      <4>2. QED
        BY <2>2, <3>3, <4>1
    <3>5. QED
      BY <2>2, <2>3, <3>2, <3>4 DEF Waits
  <2>4. CASE pc[w] # "waiting"
    BY <2>1, <2>2, <2>4 DEF Waits
  <2>5. QED
    BY <2>3, <2>4
<1>3. ASSUME NEW c \in Calls, Step(c) PROVE Waits(w, E)'
  <2>1. /\ UNCHANGED <<lane, previous>>
        /\ pc[c] \in Admitting \cup Running
        /\ pc[c] = "queued" => Admitted(c)
        /\ pc[c] \in Running => pc'[c] \notin Admitting
        /\ \A a \in Actors : a # c => pc'[a] = pc[a] \/ (pc[a] = "joined" /\ pc'[a] = "answered")
    BY <1>0, <1>3, StepPlaces
  <2>2. \A d \in Calls : d # c => (IsAdmitting(d)' <=> IsAdmitting(d))
    BY <1>0, <2>1 DEF IsAdmitting, Admitting
  <2>3. pc'[w] = pc[w]
    <3>1. "joined" \notin SubscriberPlaces
      BY DEF SubscriberPlaces, Answered, Observing
    <3>2. QED
      BY <1>0, <2>1, <3>1
  <2>4. IsAdmitting(c)' => IsAdmitting(c)
    BY <2>1 DEF IsAdmitting
  <2>5. CASE pc[w] # "waiting"
    BY <2>2, <2>3, <2>4, <2>5 DEF Waits
  <2>6. CASE pc[w] = "waiting"
    <3>1. PICK rank \in [Calls -> Nat], lo \in Nat, hi \in Nat : InOrder(rank, lo, hi) /\ Before(rank)
      BY <2>6 DEF Waits
    <3>2. CASE IsAdmitting(c)' <=> IsAdmitting(c)
      <4>1. InOrder(rank, lo, hi)'
        BY <1>0, <2>1, <2>2, <3>1, <3>2, SameOrder
      <4>2. \A d \in Calls : IsAdmitting(d)' <=> IsAdmitting(d)
        BY <2>2, <3>2
      <4>3. p \in Calls => (IsAdmitting(previous[w])' <=> IsAdmitting(p))
        BY <2>1, <4>2 DEF IsAdmitting
      <4>4. QED
        BY <2>1, <2>3, <2>6, <3>1, <4>1, <4>2, <4>3 DEF Waits
    <3>3. CASE IsAdmitting(c) /\ ~IsAdmitting(c)'
      <4>1. Admitted(c)
        BY <1>0, <2>1, <3>3 DEF Turns, Entered, IsAdmitting
      <4>2. InOrder(rank, lo + 1, hi)' /\ lo + 1 \in Nat
        BY <1>0, <2>1, <2>2, <3>1, <3>3, <4>1, NextOrder
      <4>3. ASSUME NEW d \in E, IsAdmitting(d)'
            PROVE  p \in Calls /\ p # c /\ IsAdmitting(p) /\ rank[d] <= rank[p]
        <5>1. d # c /\ d \in Calls /\ IsAdmitting(d)
          BY <2>2, <3>3, <4>3
        <5>2. p \in Calls /\ IsAdmitting(p) /\ rank[d] <= rank[p]
          BY <3>1, <5>1
        <5>3. rank[c] = lo /\ rank[d] \in lo .. hi
          BY <3>1, <3>3, <4>1, <5>1 DEF InOrder
        <5>4. p # c
          <6>1. SUFFICES ASSUME p = c PROVE FALSE
            OBVIOUS
          <6>2. rank[d] = rank[c]
            BY <5>2, <5>3, <6>1
          <6>3. QED
            BY <3>1, <3>3, <5>1, <6>2 DEF InOrder
        <5>5. QED
          BY <5>2, <5>4
      <4>4. \A d \in E : IsAdmitting(d)' =>
              previous'[w] \in Calls /\ IsAdmitting(previous[w])' /\ rank[d] <= rank[previous'[w]]
        <5>1. p \in Calls /\ p # c /\ IsAdmitting(p) => IsAdmitting(previous[w])'
          BY <2>1, <2>2 DEF IsAdmitting
        <5>2. QED
          BY <2>1, <4>3, <5>1
      <4>5. QED
        BY <2>3, <2>6, <4>2, <4>4 DEF Waits
    <3>4. QED
      BY <2>4, <3>2, <3>3
  <2>7. QED
    BY <2>5, <2>6
<1>4. ASSUME NEW s \in Subscribers, Subscribe(s) \/ Look(s) \/ Flag(s) \/ Unsubscribe(s)
      PROVE  Waits(w, E)'
  <2>1. /\ UNCHANGED lane
        /\ \A a \in Actors : a # s => pc'[a] = pc[a] /\ previous'[a] = previous[a]
    BY <1>4, <1>0 DEF Subscribe, Look, Flag, Unsubscribe, Publish
  <2>2. \A c \in Calls : pc'[c] = pc[c] /\ previous'[c] = previous[c]
    BY <1>0, <2>1
  <2>3. CASE s # w
    BY <1>0, <1>1, <2>1, <2>2, <2>3
  <2>4. CASE s = w /\ Subscribe(s)
    <3>1. pc'[w] = "waiting" /\ previous'[w] = lane
      BY <1>0, <2>4 DEF Subscribe
    <3>2. PICK rank \in [Calls -> Nat], lo \in Nat, hi \in Nat : InOrder(rank, lo, hi)
      BY <1>0 DEF Turns
    <3>3. \A c \in Calls : IsAdmitting(c)' <=> IsAdmitting(c)
      BY <2>2 DEF IsAdmitting
    <3>4. InOrder(rank, lo, hi)'
      BY <1>0, <2>1, <2>2, <3>2, <3>3, SameOrder
    <3>5. \A c \in Calls : IsAdmitting(c) =>
            lane \in Calls /\ IsAdmitting(lane) /\ rank[c] \in lo .. hi /\ rank[lane] = hi
      BY <1>0, <3>2 DEF InOrder
    <3>6. \A c \in E : IsAdmitting(c)' =>
            previous'[w] \in Calls /\ IsAdmitting(previous[w])' /\ rank[c] <= rank[previous'[w]]
      <4>1. lane \in Calls /\ IsAdmitting(lane) => IsAdmitting(previous[w])'
        BY <3>1, <3>3 DEF IsAdmitting
      <4>2. QED
        BY <3>1, <3>3, <3>5, <4>1
    <3>7. QED
      BY <3>1, <3>4, <3>6 DEF Waits
  <2>5. CASE s = w /\ Look(s)
    <3>1. pc[w] = "waiting" /\ Admitted(w) /\ pc'[w] \in {"answered", "flagging", "watching"}
      BY <1>0, <2>5 DEF Look
    <3>2. \A c \in E : ~IsAdmitting(c)
      BY <1>0, <3>1 DEF Waits, Admitted, IsAdmitting
    <3>3. QED
      BY <2>2, <3>1, <3>2 DEF Waits, IsAdmitting
  <2>6. CASE s = w /\ (Flag(s) \/ Unsubscribe(s))
    <3>1. pc[w] \in {"flagging", "watching"} /\ pc'[w] \in {"answered", "watching"}
      BY <1>0, <2>6 DEF Flag, Publish, Unsubscribe
    <3>2. QED
      BY <2>2, <3>1 DEF Waits, IsAdmitting
  <2>7. QED
    BY <1>4, <2>3, <2>4, <2>5, <2>6
<1>5. CASE \/ \E i \in Identities : Delete(i)
           \/ UNCHANGED vars
  <2>1. UNCHANGED <<pc, previous, lane>>
    BY <1>5 DEF Delete, vars
  <2>2. QED
    BY <1>1, <2>1
<1>6. CASE Crash
  <2>1. pc'[w] \in {"idle", "answered", "lost"}
    BY <1>0, <1>6 DEF Crash, Answered
  <2>2. QED
    BY <2>1 DEF Waits
<1>7. QED
  BY <1>2, <1>3, <1>4, <1>5, <1>6 DEF Next

-----------------------------------------------------------------------------
(* The snapshot of a new subscription is authoritative.                      *)

\* What is sent over a connection is its one call, unless it was lost: the client
\* submits over a new connection only when its subscription has been looked at.
Linked ==
    /\ ~connected => call = None /\ watch = None
    /\ operation = "none" => call = None /\ watch = None /\ wire = {}
    /\ operation = "pending" => wire \subseteq late \cup {call}
    /\ operation = "pending" /\ watch # None /\ ~Passed(watch) => call = None

\* While nothing was submitted over the connection, its subscription comes after
\* every request that no connection lost on the way.
Awaited ==
    operation = "pending" /\ call = None /\ watch # None => Waits(watch, Mine \ late)

Settling == Linked /\ Awaited

LEMMA AwaitedOn ==
    ASSUME Founded, [Next]_vars, ClientTypeOK, Settling,
           \A c \in Mine : pc[c] = "idle" /\ pc'[c] = "queued" => c \in wire,
           operation = "pending", call = None, watch # None
    PROVE  \A E \in SUBSET Calls : E = Mine \ late => Waits(watch, E)
           /\ \A w \in Watches : w = watch => Waits(w, E)'
<1> SUFFICES ASSUME NEW E \in SUBSET Calls, E = Mine \ late
             PROVE  Waits(watch, E) /\ \A w \in Watches : w = watch => Waits(w, E)'
  OBVIOUS
<1>1. Waits(watch, E)
  BY DEF Settling, Awaited
<1>2. \A c \in E : pc[c] = "idle" => pc'[c] # "queued"
  BY NoneApart, ClientAssumption DEF Settling, Linked
<1>3. ASSUME NEW w \in Watches, w = watch PROVE Waits(w, E)'
  <2>1. w \in Subscribers /\ Waits(w, E)
    BY <1>1, <1>3, ClientAssumption
  <2>2. QED
    BY <1>2, <2>1, WaitsOn
<1>4. QED
  BY <1>1, <1>3

LEMMA NextSettling ==
    ASSUME ClientInv, Settling, Founded, Growth, Founded', Growth', [ClientNext]_clientVars
    PROVE  Settling'
<1>0. /\ [Next]_vars /\ Mine \subseteq Calls /\ Watches \subseteq Subscribers
      /\ Calls \subseteq Actors /\ Subscribers \subseteq Actors
      /\ \A c \in Calls, s \in Subscribers : c # s
      /\ pc \in [Actors -> CallPlaces \cup SubscriberPlaces]
      /\ None \notin Mine /\ None \notin Watches
      /\ ClientTypeOK /\ Linked /\ Awaited
  BY ClientStepsAreSteps, ClientAssumption, ActorsDiffer, NoneApart, PlacesType
  DEF Founded, Typed, TypeOK, ClientInv, Settling
<1>1. ASSUME UNCHANGED <<promise, link, call, watch, late>>, wire' \subseteq wire,
             \A c \in Mine : pc[c] = "idle" /\ pc'[c] = "queued" => c \in wire
      PROVE  Settling'
  <2>1. UNCHANGED <<operation, connected, call, watch, late>>
    BY <1>1 DEF promise, link
  <2>2. watch \in Watches /\ Passed(watch) => Passed(watch)'
    <3>1. \A s \in Subscribers : Passed(s) => Passed(s)'
      BY <1>0, PlacesPass
    <3>2. QED
      BY <1>0, <2>1, <3>1 DEF Passed
  <2>3. Linked'
    BY <1>0, <1>1, <2>1, <2>2 DEF Linked, ClientTypeOK
  <2>4. Awaited'
    <3>1. SUFFICES ASSUME operation = "pending", call = None, watch # None
                   PROVE  Waits(watch, Mine \ late)'
      BY <2>1 DEF Awaited
    <3>2. PICK w \in Watches, E \in SUBSET Calls : w = watch /\ E = Mine \ late
      BY <1>0, <3>1 DEF ClientTypeOK
    <3>3. Waits(w, E)'
      BY <1>0, <1>1, <3>1, <3>2, AwaitedOn DEF ClientInv
    <3>4. w = watch' /\ E = Mine \ late'
      BY <2>1, <3>2
    <3>5. QED
      BY <3>3, <3>4 DEF Waits, IsAdmitting
  <2>5. QED
    BY <2>3, <2>4 DEF Settling
<1>2. CASE StartOperation
  <2>1. /\ operation = "none" /\ connected' /\ operation' = "pending"
        /\ call' = Unsent /\ wire' = wire \cup {Unsent} /\ UNCHANGED <<watch, late>>
    BY <1>2 DEF StartOperation, Submit, link
  <2>2. QED
    BY <1>0, <2>1 DEF Settling, Linked, Awaited
<1>3. CASE Drop
  <2>1. call' = None /\ watch' = None /\ late' = late \cup wire /\ UNCHANGED <<operation, wire>>
    BY <1>3 DEF Drop, promise
  <2>2. QED
    BY <1>0, <2>1 DEF Settling, Linked, Awaited
<1>4. CASE Die
  <2>1. call' = None /\ watch' = None /\ wire' = {}
    BY <1>4 DEF Die
  <2>2. QED
    BY <2>1 DEF Settling, Linked, Awaited
<1>5. CASE Reconnect
  <2>1. /\ ~connected /\ connected' /\ call = None /\ watch = None
        /\ UNCHANGED <<pc, operation, call, wire, late>>
    BY <1>0, <1>5 DEF Reconnect, Linked, promise, vars
  <2>2. operation # "pending" => watch' = None
    BY <1>5, <2>1 DEF Reconnect
  <2>3. operation = "pending" => pc'[watch'] = "idle"
    BY <1>0, <1>5, <2>1, WatchLeft DEF Reconnect
  <2>4. Linked'
    BY <1>0, <2>1, <2>2 DEF Linked
  <2>5. Awaited'
    BY <2>1, <2>3 DEF Awaited, Waits
  <2>6. QED
    BY <2>4, <2>5 DEF Settling
<1>6. CASE Watch
  <2>1. UNCHANGED client /\ pc' = [pc EXCEPT ![watch] = "waiting"]
    BY <1>6 DEF Watch, Subscribe
  <2>2. QED
    BY <1>0, <1>1, <2>1 DEF client
<1>7. CASE Elsewhere
  <2>1. \A c \in Mine : pc[c] = "idle" => pc'[c] = "idle"
    BY <1>0, <1>7 DEF Elsewhere, Create, Subscribe, Unsubscribe, Delete
  <2>2. QED
    BY <1>1, <1>7, <2>1 DEF Elsewhere, client
<1>8. ASSUME NEW c \in Mine, Arrive(c) PROVE Settling'
  <2>1. c \in wire /\ wire' = wire \ {c} /\ pc' = [pc EXCEPT ![c] = "queued"]
    BY <1>8 DEF Arrive, Create
  <2>2. \A d \in Mine : pc[d] = "idle" /\ pc'[d] = "queued" => d \in wire
    BY <1>0, <2>1
  <2>3. QED
    BY <1>1, <1>8, <2>1, <2>2 DEF Arrive
<1>9. ASSUME Hear, \/ \E c \in Calls : Step(c)
                   \/ \E s \in Subscribers : Look(s) \/ Flag(s)
      PROVE  Settling'
  <2>1. /\ \A c \in Mine : pc[c] = "idle" => pc'[c] = "idle"
        /\ \A s \in Subscribers : pc'[s] = "watching" => pc[s] \in {"waiting", "flagging", "watching"}
    BY <1>0, <1>9, DaemonMoves
  <2>2. ASSUME UNCHANGED <<promise, link, call, watch, wire, late>> PROVE Settling'
    BY <1>1, <2>1, <2>2
  <2>3. ASSUME NEW value, Finish(value) PROVE Settling'
    BY <2>3 DEF Finish, Settling, Linked, Awaited
  <2>4. CASE Resubmit /\ Listening
    <3>1. watch \in Watches /\ ~Passed(watch) /\ pc'[watch] = "watching"
      BY <1>0, <2>1, <2>4, UnknownIsFirst DEF Resubmit, Passed
    <3>2. connected /\ operation = "pending"
      BY <2>4 DEF Listening
    <3>3. Unsent \in Mine
      BY <3>1, <3>2, RequestLeft
    <3>4. call = None /\ wire \subseteq late
      BY <1>0, <3>1, <3>2 DEF Linked, ClientTypeOK
    <3>5. call' = Unsent /\ wire' = wire \cup {Unsent} /\ UNCHANGED <<operation, connected, watch, late>>
      BY <2>4 DEF Resubmit, Submit, promise, link
    <3>6. Linked'
      BY <3>1, <3>2, <3>4, <3>5 DEF Linked, Passed
    <3>7. Awaited'
      BY <1>0, <3>3, <3>5 DEF Awaited
    <3>8. QED
      BY <3>6, <3>7 DEF Settling
  <2>5. CASE Receive \/ Conclude
    BY <2>2, <2>3, <2>5 DEF Receive, Conclude
  <2>6. QED
    BY <1>9, <2>2, <2>4, <2>5 DEF Hear, client
<1>10. ASSUME NEW c \in Calls, Serve(c) PROVE Settling'
  BY <1>9, <1>10 DEF Serve
<1>11. ASSUME NEW s \in Subscribers, Attend(s) PROVE Settling'
  BY <1>9, <1>11 DEF Attend
<1>12. CASE UNCHANGED clientVars
  BY <1>1, <1>12 DEF clientVars, client, vars
<1>13. QED
  BY <1>2, <1>3, <1>4, <1>5, <1>6, <1>7, <1>8, <1>10, <1>11, <1>12 DEF ClientNext

\* When a snapshot settles the operation, every request that was sent and not
\* lost on the way is over.
LEMMA SettledStep ==
    ASSUME ClientInv, Settling, Founded, Growth, Founded', Open', [ClientNext]_clientVars,
           operation = "pending", operation' = "settled", outcome' # "rejected", call = None,
           NEW c \in Mine \ late
    PROVE  pc'[c] \in {"idle"} \cup Answered
<1>0. /\ [Next]_vars /\ Mine \subseteq Calls /\ Watches \subseteq Subscribers
      /\ Calls \subseteq Actors /\ Subscribers \subseteq Actors
      /\ c \in Calls /\ IdentityOf[c] = Key /\ Key \in Identities
      /\ ClientTypeOK
  BY ClientStepsAreSteps, ClientAssumption, ActorsDiffer DEF ClientInv
<1>1. Hear /\ (\/ \E d \in Calls : Step(d)
               \/ \E s \in Subscribers : Look(s) \/ Flag(s))
  <2>1. ~StartOperation /\ ~Drop /\ ~Die /\ ~Reconnect /\ ~Watch /\ ~Elsewhere
    BY DEF StartOperation, Drop, Die, Reconnect, Watch, Elsewhere, client, promise
  <2>2. ~(\E d \in Mine : Arrive(d)) /\ ~UNCHANGED clientVars
    BY DEF Arrive, clientVars, client, promise
  <2>3. QED
    BY <2>1, <2>2 DEF ClientNext, Serve, Attend
<1>2. ~Replied
  BY DEF Replied
<1>3. Receive /\ Informed /\ IsTerminal(record'[Key])
  <2>1. ~Conclude /\ ~Resubmit /\ ~UNCHANGED client
    BY <1>2 DEF Conclude, Resubmit, Finish, client, promise
  <2>2. QED
    BY <1>1, <1>2, <2>1 DEF Hear, Receive, promise
<1>4. watch # None /\ pc'[watch] = "watching"
  BY <1>3 DEF Informed
<1>5. PICK w \in Watches, E \in SUBSET Calls : w = watch /\ E = Mine \ late
  BY <1>0, <1>4 DEF ClientTypeOK
<1>6. Waits(w, E)'
  <2>1. \A d \in Mine : pc[d] = "idle" => pc'[d] = "idle"
    BY <1>0, <1>1, DaemonMoves
  <2>2. QED
    BY <1>0, <1>4, <1>5, <2>1, AwaitedOn
<1>7. pc'[c] \notin Admitting
  BY <1>4, <1>5, <1>6 DEF Waits, IsAdmitting
<1>8. \A d \in Calls : IdentityOf[d] = Key => pc'[d] \notin Running
  BY <1>3 DEF Open
<1>9. pc'[c] # "joined"
  <2>1. SUFFICES ASSUME active'[Key] # None PROVE FALSE
    BY <1>0 DEF Open
  <2>2. active'[Key] \in Calls /\ IdentityOf[active'[Key]] = Key /\ pc'[active'[Key]] \in Running
    BY <1>0, <2>1 DEF Founded, Typed, TypeOK, Ownership
  <2>3. QED
    BY <1>8, <2>2
<1>10. pc'[c] \in CallPlaces
  BY <1>0 DEF Founded, Typed, Seats
<1>11. QED
  BY <1>0, <1>7, <1>8, <1>9, <1>10 DEF CallPlaces

\* The snapshot of a new subscription is authoritative (subscribe, receive): the
\* daemon looks at the key only after the admissions that came before, a record
\* at its end has no runner, and nobody is left waiting for one; so when it
\* settles the operation, what the caller is told is the end of every request
\* the client sent before, and nothing of them is still to happen.
THEOREM SettledByAuthority == ClientSpec => SubscriptionIsAuthoritative
<1>1. ClientInit => ClientInv /\ Settling
  <2>1. ClientInit => Settling
    BY DEF ClientInit, Settling, Linked, Awaited
  <2>2. QED
    BY <2>1, ClientStarts
<1>2. ClientSpec => [](Founded /\ Growth /\ Finals /\ Open)
  BY JournalUnderClient, AlwaysFinal, AlwaysOpen, PTL
<1>3. /\ Founded /\ Growth /\ Finals /\ Open /\ (Founded /\ Growth /\ Finals /\ Open)'
      /\ ClientInv /\ Settling /\ [ClientNext]_clientVars
      => (ClientInv /\ Settling)'
  BY ClientStep, NextSettling
<1>4. /\ Founded /\ Growth /\ Finals /\ Open /\ (Founded /\ Growth /\ Finals /\ Open)'
      /\ ClientInv /\ Settling /\ [ClientNext]_clientVars
      => [operation = "pending" /\ operation' = "settled" /\ outcome' # "rejected" /\ call = None =>
            \A c \in Mine \ late : pc'[c] \in {"idle"} \cup Answered]_clientVars
  BY SettledStep
<1>5. QED
  BY <1>1, <1>2, <1>3, <1>4, PTL DEF ClientSpec, SubscriptionIsAuthoritative
=============================================================================
