------------------------------ MODULE AgentTurn ------------------------------
(***************************************************************************)
(* The turns of one loaded agent                                           *)
(* (src/packages/server/src/server/agent/agent-manager.ts and              *)
(* agent-run-state.ts): prompts that start, replace or steer a turn, Stop, *)
(* the events of the provider session, and the turns the provider starts   *)
(* by itself.                                                              *)
(*                                                                         *)
(* A step is what the JavaScript event loop runs without interruption: a   *)
(* client call, a timer, a provider callback or the return of an awaited   *)
(* provider call, with the promise continuations it triggers.  Several     *)
(* operations are under way at once because each awaits the provider.  The *)
(* continuations whose order decides who wins are steps of their own: the  *)
(* session events to dispatch wait in queue, the foreground mutations in   *)
(* micro.  When a mutation leaves the lane, the next one starts before the *)
(* caller of the first one resumes.                                        *)
(*                                                                         *)
(* A prompt that is accepted opens a turn of its own, so a prompt is also  *)
(* the id of its turn.                                                     *)
(***************************************************************************)
EXTENDS Naturals, Sequences, FiniteSets

CONSTANTS
    Prompts,      \* prompts sent by clients
    Stops,        \* presses of the Stop button
    Autos,        \* turns the provider starts by itself
    Modes,        \* what a prompt may do to a running turn
    CanSteer,     \* the provider session implements steerActiveTurn
    MaxItems,     \* bound on the output items of a turn
    None

ASSUME AgentTurnAssumption ==
    /\ Prompts \cap Stops = {} /\ Prompts \cap Autos = {} /\ Stops \cap Autos = {}
    /\ Modes \subseteq {"plain", "replace", "steer"}
    /\ CanSteer \in BOOLEAN
    /\ MaxItems \in Nat
    /\ None \notin Prompts \cup Stops \cup Autos

Ops == Prompts \cup Stops
Turns == Prompts \cup Autos

VARIABLES
    agent,        \* the ManagedAgent, its tracked run and its turn waiters
    staged,       \* events held back while the tracked run waits for its turn
    queue,        \* the chain of session events still to be dispatched
    barrier,      \* events held back while a steer is being admitted
    steering,     \* the prompt whose admission holds the barrier
    lane,         \* the queue of foreground mutations; its head is running
    micro,        \* continuations to run before the next task, in order
    pc,           \* where each prompt and each Stop is
    captured,     \* the run a cancellation acts on
    acked,        \* the provider acknowledged the interrupt of a cancellation
    expected,     \* the turn a steer is meant for
    result,       \* what a cancellation returned
    turn,         \* the provider: the state of each turn
    interrupts,   \* the provider: the turns an interrupt call is about
    items,        \* the provider: output items emitted by each turn
    asked,        \* the provider: prompts it was asked to steer with
    timeline      \* the canonical timeline

laneVars == <<lane, micro>>
managerVars == <<agent, staged, queue, barrier, steering, laneVars>>
opVars == <<pc, captured, acked, expected, result>>
providerVars == <<turn, interrupts, items, asked>>
vars == <<managerVars, opVars, providerVars, timeline>>

-----------------------------------------------------------------------------
(* Runs: agent-run-state.ts.  A run is named by a token; a token in          *)
(* agent.settled is a run whose settledPromise has resolved.                 *)

RunToken(p) == <<"run", p>>
TurnToken(t) == <<"turn", t>>
CancelToken(o) == <<"cancel", o>>
Tokens == ({"run"} \X Prompts) \cup ({"turn"} \X Turns) \cup ({"cancel"} \X Ops)

NoRun == [kind |-> "none", token |-> None, turn |-> None, replaces |-> FALSE]
PendingRun(p, replaces) ==
    [kind |-> "foreground", token |-> RunToken(p), turn |-> None, replaces |-> replaces]
AutonomousRun(token, t) ==
    [kind |-> "autonomous", token |-> token, turn |-> t, replaces |-> FALSE]

Run == [kind : {"none", "foreground", "autonomous"}, token : Tokens \cup {None},
        turn : Turns \cup {None}, replaces : BOOLEAN]

HasRun(s) == s.run.kind # "none"
IsPending(s) == s.run.kind = "foreground" /\ s.run.turn = None

ClearRun(s) == [s EXCEPT !.run = NoRun, !.settled = @ \cup {s.run.token}]

TrackAutonomousRun(s, token, t) ==
    IF HasRun(s) THEN s ELSE [s EXCEPT !.run = AutonomousRun(token, t)]

SettleTerminalRun(s, t) ==
    IF \/ s.run.kind = "foreground" /\ s.run.turn # None /\ s.run.turn = t
       \/ s.run.kind = "autonomous" /\ (s.run.turn = None \/ t = None \/ s.run.turn = t)
    THEN ClearRun(s)
    ELSE s

SettleForegroundRun(s, token) ==
    IF s.run.kind = "foreground" /\ s.run.token = token THEN ClearRun(s) ELSE s

-----------------------------------------------------------------------------
(* Session events.                                                           *)

Terminals == {"turn_completed", "turn_failed", "turn_canceled"}
TurnEvent(type, t) == [type |-> type, turn |-> t, asked |-> {}]
Event == [type : Terminals \cup {"turn_started", "item"}, turn : Turns,
          asked : SUBSET Prompts]

\* Mutant: every terminal event is taken for the end of the open turn.
TerminalTurnOfForeground(s, t) ==
    IF s.fg # None THEN s.fg ELSE IF s.active # None THEN s.active ELSE t

\* attachManagedTurnIdentity: an event without a turn id is of the open turn.
TerminalTurn(s, t) ==
    IF t # None THEN t ELSE IF s.fg # None THEN s.fg ELSE s.active

IsForeground(s, t) == s.fg # None /\ s.fg = t

\* applyActiveTurnTerminal: a terminal event closes the open turn it names.
IsStale(s, t) == s.active # None /\ t # None /\ s.active # t
CloseActiveTurn(s, t) == IF IsStale(s, t) THEN s ELSE [s EXCEPT !.active = None]

\* Mutant: a start that failed is remembered like a finished turn.
FinalizeAnyTurn(s, t) ==
    LET closed == CloseActiveTurn([s EXCEPT !.fg = None], t) IN
    [closed EXCEPT
        !.finalized = @ \cup {t},
        !.lifecycle = IF s.failed THEN "error" ELSE IF s.replacing THEN "running" ELSE "idle"]

\* finalizeForegroundTurn
Finalize(s, t) ==
    LET closed == CloseActiveTurn([s EXCEPT !.fg = None], t) IN
    [closed EXCEPT
        !.finalized = IF t = None THEN @ ELSE @ \cup {t},
        !.lifecycle = IF s.failed THEN "error" ELSE IF s.replacing THEN "running" ELSE "idle"]

\* onStreamTurnCompleted, onStreamTurnCanceled, onStreamTurnFailed
OnTurnEnd(s, type, t) ==
    LET alone == ~ IsForeground(s, t) /\ s.fg = None IN
    IF type = "turn_failed"
    THEN [s EXCEPT !.failed = TRUE, !.lifecycle = IF alone THEN "error" ELSE @]
    ELSE [s EXCEPT !.failed = FALSE,
                   !.lifecycle = IF alone /\ ~ s.replacing THEN "idle" ELSE @]

\* handleStreamEvent and dispatchSessionEvent for a terminal event.
HandleTerminal(s, event) ==
    LET t == TerminalTurn(s, event.turn)
        ended == IF IsStale(s, t) THEN s ELSE OnTurnEnd(CloseActiveTurn(s, t), event.type, t)
        settled == SettleTerminalRun(ended, t)
        final == IF IsForeground(s, t) THEN Finalize(settled, t) ELSE settled
    IN IF t # None /\ t \in s.finalized THEN s
       ELSE [final EXCEPT !.waiters = @ \ {event.turn}]

\* Mutant: the start of another turn is taken during a foreground turn.
HandleStartedAlways(s, event) ==
    [TrackAutonomousRun(s, TurnToken(event.turn), event.turn) EXCEPT
        !.active = event.turn, !.lifecycle = "running"]

\* onStreamTurnStarted
HandleStarted(s, event) ==
    IF s.fg # None THEN s
    ELSE [TrackAutonomousRun(s, TurnToken(event.turn), event.turn) EXCEPT
             !.active = event.turn, !.lifecycle = "running"]

Handle(s, event) ==
    CASE event.type \in Terminals      -> HandleTerminal(s, event)
      [] event.type = "turn_started"   -> HandleStarted(s, event)
      [] OTHER                         -> s

\* What a handled event leaves in the canonical timeline.
Recorded(p) == \E i \in DOMAIN timeline : timeline[i].type = "user_message" /\ timeline[i].turn = p
UserMessage(p, asks) == [type |-> "user_message", turn |-> p, asked |-> asks]
RecordSubmittedPrompt(p, asks) ==
    timeline' = IF Recorded(p) THEN timeline ELSE Append(timeline, UserMessage(p, asks))

\* Mutant: events pass a steer that is being admitted.
EnqueuePastBarrier(s, holder, events) ==
    /\ barrier' = barrier
    /\ staged' = IF IsPending(s) THEN staged \o events ELSE staged
    /\ queue' = IF ~ IsPending(s) THEN queue \o events ELSE queue

\* Mutant: events of a turn that is being started are dispatched at once.
EnqueueUnstaged(s, holder, events) ==
    /\ barrier' = IF holder # None THEN barrier \o events ELSE barrier
    /\ queue' = IF holder = None THEN queue \o events ELSE queue
    /\ UNCHANGED staged

\* enqueueSessionEvent, for events in order: a steer admission holds them back
\* first, then a run whose turn is not known yet, else they are dispatched.
Enqueue(s, holder, events) ==
    /\ barrier' = IF holder # None THEN barrier \o events ELSE barrier
    /\ staged' = IF holder = None /\ IsPending(s) THEN staged \o events ELSE staged
    /\ queue' = IF holder = None /\ ~ IsPending(s) THEN queue \o events ELSE queue

\* The callback given to session.subscribe().
Emit(events) == Enqueue(agent, steering, events) /\ UNCHANGED <<agent, steering, laneVars>>

\* dispatchSessionEvent for the next event of the chain.
DispatchNext ==
    /\ queue # <<>>
    /\ agent' = Handle(agent, Head(queue))
    /\ timeline' = IF Head(queue).type = "item" THEN Append(timeline, Head(queue)) ELSE timeline
    /\ queue' = Tail(queue)
    /\ UNCHANGED <<staged, barrier, steering, laneVars, opVars, providerVars>>

-----------------------------------------------------------------------------

Goto(o, l) == pc' = [pc EXCEPT ![o] = l]

\* runForegroundMutation: mutations of the running turn go one at a time.  m is
\* what is left of micro.
EnterLane(o, m) ==
    /\ lane' = Append(lane, o)
    /\ micro' = IF lane = <<>> THEN Append(m, <<"start", o>>) ELSE m

\* Mutant: the next mutation is not started.
LeaveLaneWaiting(o, m) == lane' = Tail(lane) /\ micro' = m \o << <<"resume", o>> >>

LeaveLane(o, m) ==
    /\ lane' = Tail(lane)
    /\ micro' = m \o (IF Len(lane) > 1 THEN << <<"start", lane[2]>> >> ELSE <<>>)
                   \o << <<"resume", o>> >>

Continues(step, o) == micro # <<>> /\ Head(micro) = <<step, o>>

HasInFlightRun(s) == s.lifecycle = "running" \/ s.fg # None \/ HasRun(s)

\* Mutant: a replacement does not count as idle.
StreamAgentWhenIdle(s, p, refused) ==
    IF HasInFlightRun(s)
    THEN agent' = refused /\ Goto(p, "failed") /\ UNCHANGED staged
    ELSE /\ agent' = [s EXCEPT !.failed = FALSE, !.run = PendingRun(p, s.replacing)]
         /\ staged' = <<>>
         /\ Goto(p, "starting")

\* Mutant: only an open foreground turn keeps a prompt out.
StreamAgentUnlessForeground(s, p, refused) ==
    IF s.fg # None
    THEN agent' = refused /\ Goto(p, "failed") /\ UNCHANGED staged
    ELSE /\ agent' = [s EXCEPT !.failed = FALSE, !.run = PendingRun(p, s.replacing)]
         /\ staged' = <<>>
         /\ Goto(p, "starting")

\* streamAgent: refused while there is a run, else a new run waits for the
\* provider to start its turn.  The state of the agent after a refusal is
\* up to the caller.
StreamAgent(s, p, refused) ==
    IF s.fg # None \/ HasRun(s)
    THEN /\ agent' = refused
         /\ Goto(p, "failed")
         /\ UNCHANGED staged
    ELSE /\ agent' = [s EXCEPT !.failed = FALSE, !.run = PendingRun(p, s.replacing)]
         /\ staged' = <<>>
         /\ Goto(p, "starting")

\* replaceAgentRun and replaceAdmittedForegroundTurn: hold the agent busy and
\* cancel what runs.
Replace(p) ==
    /\ agent' = [agent EXCEPT !.replacing = TRUE, !.lifecycle = "running"]
    /\ Goto(p, "cancelQueued")
    /\ UNCHANGED staged

OpenTurn == IF agent.fg # None THEN agent.fg ELSE agent.active

\* startAgentRun
Send(p, mode) ==
    /\ pc[p] = "idle"
    /\ \/ /\ HasInFlightRun(agent) => mode = "plain"
          /\ StreamAgent(agent, p, agent)
          /\ UNCHANGED <<laneVars, expected>>
       \/ /\ mode = "steer" /\ CanSteer
          /\ HasInFlightRun(agent)
          /\ OpenTurn # None
          /\ expected' = [expected EXCEPT ![p] = OpenTurn]
          /\ EnterLane(p, micro)
          /\ Goto(p, "steerQueued")
          /\ UNCHANGED <<agent, staged>>
       \/ /\ mode # "plain"
          /\ ~ (mode = "steer" /\ CanSteer /\ OpenTurn # None)
          /\ HasInFlightRun(agent)
          /\ Replace(p)
          /\ EnterLane(p, micro)
          /\ UNCHANGED expected
    /\ UNCHANGED <<queue, barrier, steering, captured, acked, result, providerVars, timeline>>

\* The provider's own start event of a turn is dropped from the staged events.
WithoutStart(events, p) ==
    LET starts == {i \in DOMAIN events : events[i] = TurnEvent("turn_started", p)}
        i == CHOOSE j \in starts : TRUE
    IN IF starts = {} THEN events ELSE SubSeq(events, 1, i - 1) \o SubSeq(events, i + 1, Len(events))

\* The turn of the tracked run opens; a replacement is complete with it.
Opened(s, p) ==
    [s EXCEPT !.replacing = IF s.run.replaces THEN FALSE ELSE @,
              !.run.turn = p, !.fg = p, !.active = p, !.lifecycle = "running",
              !.waiters = @ \cup {p}]

\* session.startTurn resolves with the turn id.
StartResolves(p) ==
    /\ pc[p] = "starting"
    /\ turn[p] # "none"
    /\ \/ /\ RunToken(p) \in agent.settled
          /\ Goto(p, "failed")
          /\ UNCHANGED <<agent, staged, queue, barrier, timeline>>
       \/ /\ RunToken(p) \notin agent.settled
          /\ agent' = Opened(agent, p)
          /\ Goto(p, "streaming")
          /\ RecordSubmittedPrompt(p, {})
          /\ barrier' = IF steering # None THEN barrier \o WithoutStart(staged, p) ELSE barrier
          /\ queue' = IF steering # None THEN queue ELSE queue \o WithoutStart(staged, p)
          /\ staged' = <<>>
    /\ UNCHANGED <<steering, laneVars, captured, acked, expected, result, providerVars>>

\* Mutant: a start that failed is not settled.
RejectedUnsettled(s, p, stale) ==
    LET released == [s EXCEPT !.replacing = FALSE] IN
    IF stale
    THEN [released EXCEPT !.lifecycle = IF s.fg = None THEN "idle" ELSE @]
    ELSE Finalize(HandleTerminal(released, TurnEvent("turn_failed", None)), None)

\* Mutant: a replacement that failed to start keeps the agent busy.
RejectedHoldingBusy(s, p, stale) ==
    SettleForegroundRun(
        IF stale
        THEN [s EXCEPT !.lifecycle = IF s.fg = None THEN "idle" ELSE @]
        ELSE Finalize(HandleTerminal(s, TurnEvent("turn_failed", None)), None),
        RunToken(p))

\* A stale provider session leaves the agent idle, any other error is a failed
\* turn.
Rejected(s, p, stale) ==
    LET released == [s EXCEPT !.replacing = FALSE] IN
    SettleForegroundRun(
        IF stale
        THEN [released EXCEPT !.lifecycle = IF s.fg = None THEN "idle" ELSE @]
        ELSE Finalize(HandleTerminal(released, TurnEvent("turn_failed", None)), None),
        RunToken(p))

\* session.startTurn rejects.
StartRejects(p, stale) ==
    /\ pc[p] = "starting"
    /\ turn[p] \in {"none", "aborted"}
    /\ IF RunToken(p) \in agent.settled
       THEN UNCHANGED <<agent, staged>>
       ELSE agent' = Rejected(agent, p, stale) /\ staged' = <<>>
    /\ turn' = [turn EXCEPT ![p] = "aborted"]
    /\ Goto(p, "failed")
    /\ UNCHANGED <<queue, barrier, steering, laneVars, captured, acked, expected, result,
                   interrupts, items, asked, timeline>>

\* The turn's stream saw its terminal event: the generator's finally block.
StreamEnds(p) ==
    /\ pc[p] = "streaming"
    /\ p \notin agent.waiters
    /\ agent' = SettleForegroundRun(agent, RunToken(p))
    /\ Goto(p, "done")
    /\ UNCHANGED <<staged, queue, barrier, steering, laneVars, captured, acked, expected, result,
                   providerVars, timeline>>

-----------------------------------------------------------------------------
(* Cancellation: cancelAgentRun in the lane of foreground mutations, asked   *)
(* for by Stop or by a prompt that replaces the running turn.                *)

Stop(o) ==
    /\ pc[o] = "idle"
    /\ EnterLane(o, micro)
    /\ Goto(o, "cancelQueued")
    /\ UNCHANGED <<agent, staged, queue, barrier, steering, captured, acked, expected, result,
                   providerVars, timeline>>

CancelReturns(s, o, status, m) ==
    /\ agent' = s
    /\ captured' = [captured EXCEPT ![o] = NoRun]
    /\ acked' = [acked EXCEPT ![o] = FALSE]
    /\ result' = [result EXCEPT ![o] = status]
    /\ LeaveLane(o, m)
    /\ Goto(o, "returned")

\* A running agent without a tracked run is given one to wait for.
CancelStarts(o) ==
    LET tracked == IF agent.lifecycle = "running"
                   THEN TrackAutonomousRun(agent, CancelToken(o), None) ELSE agent
    IN
    /\ pc[o] = "cancelQueued"
    /\ Continues("start", o)
    /\ \/ /\ ~ HasRun(tracked)
          /\ CancelReturns(agent, o, "not_running", Tail(micro))
          /\ UNCHANGED interrupts
       \/ /\ HasRun(tracked)
          /\ agent' = tracked
          /\ captured' = [captured EXCEPT ![o] = tracked.run]
          /\ interrupts' = [interrupts EXCEPT ![o] =
                {p \in Prompts : \/ turn[p] \in {"accepted", "running"}
                                 \/ turn[p] = "none" /\ pc[p] = "starting"}]
          /\ micro' = Tail(micro)
          /\ Goto(o, "interrupting")
          /\ UNCHANGED <<acked, lane, result>>
    /\ UNCHANGED <<staged, queue, barrier, steering, expected, turn, items, asked, timeline>>

\* session.interrupt() resolves once no foreground turn that predates the call
\* can run or become active, with or without a terminal event of that turn.
\* An autonomous turn is not its business: it ends with an event, if at all.
InterruptAcknowledged(o) ==
    /\ pc[o] = "interrupting"
    /\ acked' = [acked EXCEPT ![o] = TRUE]
    /\ Goto(o, "settling")
    /\ interrupts' = [interrupts EXCEPT ![o] = {}]
    /\ turn' = [t \in Turns |->
                  IF t \notin interrupts[o] THEN turn[t]
                  ELSE IF turn[t] \in {"accepted", "running"} THEN "over"
                  ELSE IF turn[t] = "none" THEN "aborted" ELSE turn[t]]
    /\ UNCHANGED <<managerVars, captured, expected, result, items, asked, timeline>>

\* session.interrupt() rejects or does not answer in time.
InterruptRefused(o) ==
    /\ pc[o] = "interrupting"
    /\ Goto(o, "settling")
    /\ interrupts' = [interrupts EXCEPT ![o] = {}]
    /\ UNCHANGED <<managerVars, captured, acked, expected, result, turn, items, asked, timeline>>

HasSettled(s, o) == captured[o].token \in s.settled

\* The captured run has settled by itself.
CancelCompletes(o) ==
    /\ pc[o] = "settling"
    /\ HasSettled(agent, o)
    /\ CancelReturns(agent, o, "settled", micro)
    /\ UNCHANGED <<staged, queue, barrier, steering, expected, providerVars, timeline>>

\* Mutant: the forced terminal event does not name its turn.
ForcedAnonymous(o) ==
    IF agent.run.turn = None /\ captured[o].kind = "foreground"
    THEN [SettleForegroundRun(agent, captured[o].token) EXCEPT
             !.lifecycle = IF agent.replacing THEN @ ELSE "idle"]
    ELSE HandleTerminal(agent, TurnEvent("turn_canceled", None))

\* The captured run has not settled in time: an acknowledged run is forced to
\* end, an unacknowledged one goes on.  A forced terminal event has to settle
\* the captured run, or the cancellation never returns.
Forced(o) ==
    IF agent.run.turn # None
    THEN HandleTerminal(agent, TurnEvent("turn_canceled", agent.run.turn))
    ELSE IF captured[o].kind = "foreground"
    THEN [SettleForegroundRun(agent, captured[o].token) EXCEPT
             !.lifecycle = IF agent.replacing THEN @ ELSE "idle"]
    ELSE HandleTerminal(agent, TurnEvent("turn_canceled", None))

\* Mutant: a refused interrupt counts as done.
CancelTimesOutTrusting(o) ==
    /\ pc[o] = "settling"
    /\ ~ HasSettled(agent, o)
    /\ agent.run.turn # None => HasSettled(Forced(o), o)
    /\ CancelReturns(Forced(o), o, "settled", micro)
    /\ UNCHANGED <<staged, queue, barrier, steering, expected, providerVars, timeline>>

CancelTimesOut(o) ==
    /\ pc[o] = "settling"
    /\ ~ HasSettled(agent, o)
    /\ \/ /\ ~ acked[o]
          /\ CancelReturns(agent, o, "refused", micro)
       \/ /\ acked[o]
          /\ agent.run.turn # None => HasSettled(Forced(o), o)
          /\ CancelReturns(Forced(o), o, "settled", micro)
    /\ UNCHANGED <<staged, queue, barrier, steering, expected, providerVars, timeline>>

\* cancelAgentRunBefore and the try/catch of replaceAgentRun: a refused
\* cancellation gives the replacement up, else the prompt starts its run.
CancelResumes(o) ==
    LET givenUp == [agent EXCEPT !.replacing = FALSE] IN
    /\ pc[o] = "returned"
    /\ Continues("resume", o)
    /\ micro' = Tail(micro)
    /\ \/ /\ o \in Stops
          /\ Goto(o, "done")
          /\ UNCHANGED <<agent, staged>>
       \/ /\ o \in Prompts /\ result[o] = "refused"
          /\ agent' = givenUp
          /\ Goto(o, "failed")
          /\ UNCHANGED staged
       \/ /\ o \in Prompts /\ result[o] # "refused"
          /\ StreamAgent(agent, o, givenUp)
    /\ UNCHANGED <<queue, barrier, steering, lane, captured, acked, expected, result,
                   providerVars, timeline>>

-----------------------------------------------------------------------------
(* Steering: runSteerAdmission and steerOrReplaceActiveTurn.                 *)

SteerStarts(p) ==
    /\ pc[p] = "steerQueued"
    /\ Continues("start", p)
    /\ micro' = Tail(micro)
    /\ Goto(p, "admitting")
    /\ UNCHANGED <<agent, staged, queue, barrier, steering, lane, captured, acked, expected,
                   result, providerVars, timeline>>

\* Mutant: a steer is offered to whatever turn is open by then.
SteerAdmittedUnchecked(p) ==
    /\ pc[p] = "admitting"
    /\ queue = <<>>
    /\ steering' = p
    /\ barrier' = <<>>
    /\ asked' = asked \cup {p}
    /\ Goto(p, "steering")
    /\ UNCHANGED <<agent, staged, queue, laneVars, captured, acked, expected, result, turn,
                   interrupts, items, timeline>>

\* The session events so far are dispatched; then the prompt is offered to
\* the turn it was meant for, and later events wait behind the barrier.
SteerAdmitted(p) ==
    /\ pc[p] = "admitting"
    /\ queue = <<>>
    /\ \/ /\ agent.active = expected[p]
          /\ steering' = p
          /\ barrier' = <<>>
          /\ asked' = asked \cup {p}
          /\ Goto(p, "steering")
          /\ UNCHANGED <<laneVars, result>>
       \/ /\ agent.active # expected[p]
          /\ result' = [result EXCEPT ![p] = "error"]
          /\ LeaveLane(p, micro)
          /\ Goto(p, "steerReturned")
          /\ UNCHANGED <<steering, barrier, asked>>
    /\ UNCHANGED <<agent, staged, queue, captured, acked, expected, turn, interrupts, items,
                   timeline>>

\* session.steerActiveTurn() answers; the events held back are dispatched next.
SteerAnswered(p, answer) ==
    /\ pc[p] = "steering"
    /\ answer = "accepted" => turn[expected[p]] \in {"accepted", "running"}
    /\ IF answer = "accepted" THEN RecordSubmittedPrompt(p, {p}) ELSE UNCHANGED timeline
    /\ steering' = None
    /\ barrier' = <<>>
    /\ staged' = IF IsPending(agent) THEN staged \o barrier ELSE staged
    /\ queue' = IF IsPending(agent) THEN queue ELSE queue \o barrier
    /\ result' = [result EXCEPT ![p] = answer]
    /\ Goto(p, "draining")
    /\ UNCHANGED <<agent, laneVars, captured, acked, expected, providerVars>>

SteerDrained(p) ==
    /\ pc[p] = "draining"
    /\ queue = <<>>
    /\ LeaveLane(p, micro)
    /\ Goto(p, "steerReturned")
    /\ UNCHANGED <<agent, staged, queue, barrier, steering, captured, acked, expected, result,
                   providerVars, timeline>>

\* A steer the session could not take falls back to a replacement as long as
\* its turn is still the open one.
SteerResumes(p) ==
    /\ pc[p] = "steerReturned"
    /\ Continues("resume", p)
    /\ \/ /\ result[p] = "unavailable" => agent.active # expected[p]
          /\ Goto(p, IF result[p] = "accepted" THEN "done" ELSE "failed")
          /\ lane' = lane /\ micro' = Tail(micro)
          /\ UNCHANGED <<agent, staged>>
       \/ /\ result[p] = "unavailable" /\ agent.active = expected[p]
          /\ HasInFlightRun(agent)
          /\ Replace(p)
          /\ EnterLane(p, Tail(micro))
       \/ /\ result[p] = "unavailable" /\ agent.active = expected[p]
          /\ ~ HasInFlightRun(agent)
          /\ StreamAgent(agent, p, agent)
          /\ lane' = lane /\ micro' = Tail(micro)
    /\ UNCHANGED <<queue, barrier, steering, captured, acked, expected, result, providerVars,
                   timeline>>

-----------------------------------------------------------------------------
(* The provider session, as the manager relies on it (agent-sdk-types.ts):   *)
(* one foreground turn at a time, one turn of its own at a time, turns that  *)
(* start, produce output and end once, events in order.                      *)

ProviderAccepts(p) ==
    /\ pc[p] = "starting"
    /\ turn[p] = "none"
    /\ \A q \in Prompts : turn[q] \notin {"accepted", "running"}
    /\ turn' = [turn EXCEPT ![p] = "accepted"]
    /\ UNCHANGED <<managerVars, opVars, interrupts, items, asked, timeline>>

\* Sessions keep one turn of their own and start no other before it ended
\* (claude/agent.ts:3635-3638, opencode-agent.ts:4584, 4670).
ProviderBegins(t) ==
    /\ turn[t] = IF t \in Prompts THEN "accepted" ELSE "none"
    /\ t \in Autos => \A x \in Autos : turn[x] # "running"
    /\ turn' = [turn EXCEPT ![t] = "running"]
    /\ Emit(<<TurnEvent("turn_started", t)>>)
    /\ UNCHANGED <<opVars, interrupts, items, asked, timeline>>

ProviderOutputs(t) ==
    /\ turn[t] = "running"
    /\ items[t] < MaxItems
    /\ items' = [items EXCEPT ![t] = @ + 1]
    /\ Emit(<<[type |-> "item", turn |-> t, asked |-> asked]>>)
    /\ UNCHANGED <<opVars, turn, interrupts, asked, timeline>>

ProviderEnds(t, type) ==
    /\ turn[t] = "running"
    /\ type = "turn_canceled" => \E o \in Ops : pc[o] = "interrupting"
    /\ turn' = [turn EXCEPT ![t] = "over"]
    /\ Emit(<<TurnEvent(type, t)>>)
    /\ UNCHANGED <<opVars, interrupts, items, asked, timeline>>

-----------------------------------------------------------------------------

Agent == [lifecycle : {"idle", "running", "error"}, fg : Turns \cup {None},
          active : Turns \cup {None}, failed : BOOLEAN, replacing : BOOLEAN, run : Run,
          settled : SUBSET Tokens, finalized : SUBSET Turns, waiters : SUBSET Prompts]

Entry == [type : {"item", "user_message"}, turn : Turns, asked : SUBSET Prompts]

PromptSteps == {"starting", "streaming"}
CancelSteps == {"cancelQueued", "interrupting", "settling", "returned"}
SteerSteps == {"steerQueued", "admitting", "steering", "draining", "steerReturned"}

TypeOK ==
    /\ agent \in Agent
    /\ staged \in Seq(Event) /\ queue \in Seq(Event) /\ barrier \in Seq(Event)
    /\ steering \in Prompts \cup {None}
    /\ lane \in Seq(Ops) /\ micro \in Seq({"start", "resume"} \X Ops)
    /\ pc \in [Ops -> {"idle", "done", "failed"} \cup PromptSteps \cup CancelSteps \cup SteerSteps]
    /\ captured \in [Ops -> Run]
    /\ acked \in [Ops -> BOOLEAN]
    /\ expected \in [Prompts -> Turns \cup {None}]
    /\ result \in [Ops -> {"none", "not_running", "settled", "refused",
                           "accepted", "unavailable", "error"}]
    /\ turn \in [Turns -> {"none", "accepted", "running", "aborted", "over"}]
    /\ interrupts \in [Ops -> SUBSET Prompts]
    /\ items \in [Turns -> 0 .. MaxItems]
    /\ asked \subseteq Prompts
    /\ timeline \in Seq(Entry)

Init ==
    /\ agent = [lifecycle |-> "idle", fg |-> None, active |-> None, failed |-> FALSE,
                replacing |-> FALSE, run |-> NoRun, settled |-> {}, finalized |-> {},
                waiters |-> {}]
    /\ staged = <<>> /\ queue = <<>> /\ barrier = <<>>
    /\ steering = None
    /\ lane = <<>> /\ micro = <<>>
    /\ pc = [o \in Ops |-> "idle"]
    /\ captured = [o \in Ops |-> NoRun]
    /\ acked = [o \in Ops |-> FALSE]
    /\ expected = [p \in Prompts |-> None]
    /\ result = [o \in Ops |-> "none"]
    /\ turn = [t \in Turns |-> "none"]
    /\ interrupts = [o \in Ops |-> {}]
    /\ items = [t \in Turns |-> 0]
    /\ asked = {}
    /\ timeline = <<>>

CancelStep(o) ==
    \/ InterruptAcknowledged(o) \/ InterruptRefused(o)
    \/ CancelCompletes(o) \/ CancelTimesOut(o)

SteerStep(p) ==
    \/ SteerAdmitted(p) \/ SteerDrained(p)
    \/ \E answer \in {"accepted", "unavailable", "error"} : SteerAnswered(p, answer)

ProviderStep ==
    \/ \E p \in Prompts : ProviderAccepts(p)
    \/ \E t \in Turns : ProviderBegins(t) \/ ProviderOutputs(t)
    \/ \E t \in Turns, type \in Terminals : ProviderEnds(t, type)

Task ==
    \/ \E p \in Prompts, mode \in Modes : Send(p, mode)
    \/ \E p \in Prompts : StartResolves(p) \/ StreamEnds(p) \/ SteerStep(p)
    \/ \E p \in Prompts, stale \in BOOLEAN : StartRejects(p, stale)
    \/ \E o \in Stops : Stop(o)
    \/ \E o \in Ops : CancelStep(o)
    \/ ProviderStep

\* The event loop takes the next task when no continuation is left.  The
\* dispatch of a session event awaits nothing but resolved promises.
Idle == micro = <<>> /\ queue = <<>>

Continuation ==
    \/ \E o \in Ops : CancelStarts(o) \/ CancelResumes(o)
    \/ \E p \in Prompts : SteerStarts(p) \/ SteerResumes(p)

Next ==
    \/ Continuation
    \/ DispatchNext
    \/ Idle /\ Task

Spec == Init /\ [][Next]_vars

\* Continuations and timers run, and the provider answers a steer (the manager
\* puts no limit on that call); nothing makes a start resolve.
Fairness ==
    /\ WF_vars(Continuation)
    /\ WF_vars(DispatchNext)
    /\ \A o \in Ops : WF_vars(Idle /\ CancelStep(o))
    /\ \A p \in Prompts : WF_vars(Idle /\ (StreamEnds(p) \/ SteerStep(p)))

FairSpec == Spec /\ Fairness

-----------------------------------------------------------------------------
(* What the turns of an agent promise.                                       *)

IsLive(p) == pc[p] = "starting" /\ RunToken(p) \notin agent.settled
IsCancelling(o) == pc[o] \in {"interrupting", "settling"}

\* The open foreground turn is the turn of the tracked run and the active turn,
\* it is not over and the agent is running: the fields written by a start, by
\* terminal events, by forced cancellations and by the provider's own turns agree
\* (agent-manager.ts:2565-2570, 2644-2704, 4616-4628).
TurnOwnership ==
    agent.fg # None =>
        /\ agent.run.kind = "foreground"
        /\ agent.run.turn = agent.fg
        /\ agent.active = agent.fg
        /\ agent.fg \notin agent.finalized
        /\ agent.lifecycle = "running"

\* "The captured run token prevents an older cancellation from settling a newer
\* turn": until the run a cancellation captured settles, no other run takes its
\* place, so the forced terminal event, which names the turn of the run tracked
\* by then, ends the captured one (agent-manager.ts:3077-3089).
CapturedRunIsTracked ==
    \A o \in Ops : IsCancelling(o) /\ ~ HasSettled(agent, o) =>
        agent.run.token = captured[o].token

\* A prompt whose start is awaited, and was not cancelled, owns the tracked run.
StartingRunIsTracked ==
    \A p \in Prompts : IsLive(p) => IsPending(agent) /\ agent.run.token = RunToken(p)

\* "Accepting new work after an ambiguous interruption would create a
\* split-brain session": while a prompt is being started no other foreground
\* turn can still run in the provider (docs/agent-lifecycle.md:45-51).
NoSplitBrain ==
    \A p, q \in Prompts : IsLive(p) /\ p # q => turn[q] \notin {"accepted", "running"}

\* Nobody is replacing, cancelling or starting a turn and none is running.
Quiet ==
    /\ Idle /\ lane = <<>>
    /\ \A p \in Prompts : ~ IsLive(p) /\ pc[p] # "streaming"
    /\ \A t \in Turns : turn[t] \notin {"accepted", "running"}

\* Whatever the order in which turns end, fail to start and replace each other,
\* an agent nobody works with is not running, unless a cancellation was refused
\* or Stop was pressed (then StopSettles below is what the code promises).
QuietMeansSettled ==
    /\ Quiet
    /\ \A o \in Ops : result[o] # "refused"
    /\ \A o \in Stops : pc[o] = "idle"
    => ~ HasInFlightRun(agent)

\* agent-manager.test.ts:8224-8225: once Stop reported that the run is settled,
\* with nothing else under way, the agent has no run in flight.
StopSettles ==
    \A o \in Stops : Quiet /\ pc[o] = "done" /\ result[o] = "settled" =>
        ~ HasInFlightRun(agent)

\* The agent is held busy for a replacement (pendingReplacement), and then never
\* shows as idle, only as long as a prompt is on its way to replace the turn, as
\* long as Stop is not pressed.
ReplacingHasOwner ==
    agent.replacing =>
        /\ agent.lifecycle # "idle"
        /\ (\A o \in Stops : pc[o] = "idle") => \E p \in Prompts :
            \/ pc[p] \in {"cancelQueued", "interrupting", "settling", "returned"}
            \/ IsLive(p)

\* A prompt whose cancellation succeeded is turned away ("already has an active
\* run") only for another prompt or cancellation, or a turn of the provider's own.
RejectedForAnother ==
    [][\A p \in Prompts :
         pc[p] = "returned" /\ result[p] # "refused" /\ pc'[p] = "failed" =>
            \/ \E o \in Ops \ {p} : IsCancelling(o) \/ pc[o] = "streaming"
            \/ \E q \in Prompts \ {p} : IsLive(q)
            \/ \E x \in Autos : turn[x] = "running"]_vars

\* While a steer is offered to the session the turn it is meant for stays the
\* open one: its end and its successor wait behind the barrier and in the lane.
SteeredTurnStaysOpen ==
    steering # None => agent.active = expected[steering] /\ pc[steering] = "steering"

\* The timeline keeps the order in which things were asked: the prompt of a turn
\* comes before all output of that turn, also when the provider was faster than
\* the answer of startTurn, and a prompt that steered a turn is between the output
\* the provider emitted before it was asked and the output it emitted since.
OutputAfterItsPrompt ==
    /\ \A i \in DOMAIN timeline :
        timeline[i].type = "item" /\ timeline[i].turn \in Prompts =>
            \E j \in 1 .. i : timeline[j] = UserMessage(timeline[i].turn, {})
    /\ \A i, j \in DOMAIN timeline :
        timeline[i] = UserMessage(timeline[i].turn, {timeline[i].turn}) /\ timeline[j].type = "item" =>
            (timeline[i].turn \in timeline[j].asked <=> i < j)

\* The turns of an agent are turns of ForegroundTurns: one at a time, each
\* opened once, none given up before it is over in the provider.
ForegroundTurn == INSTANCE ForegroundTurns WITH
    open <- agent.fg, ended <- agent.finalized,
    over <- {t \in Turns : turn[t] \in {"over", "aborted"}}
OneTurnAfterAnother == ForegroundTurn!Spec

\* A cancellation comes back to who asked for it.
CancellationReturns ==
    \A o \in Ops : pc[o] = "cancelQueued" ~>
        pc[o] \in {"starting", "streaming", "done", "failed"}

\* The stream of a turn ends once the turn is over for the manager, however it
\* ended, so that who consumes it is not left waiting.
StreamEndsWithTurn ==
    \A p \in Prompts : pc[p] = "streaming" /\ p \in agent.finalized ~> pc[p] = "done"

=============================================================================
