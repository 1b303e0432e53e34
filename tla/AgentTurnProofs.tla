--------------------------- MODULE AgentTurnProofs ---------------------------
(***************************************************************************)
(* Proofs about the turns of an agent.                                     *)
(*                                                                         *)
(* The first part is about the agent record alone: whatever a session      *)
(* event, a failed start or a forced cancellation does to it is a sound    *)
(* step (Advances) from a sound record to a sound record.  The second part *)
(* ties the record to the prompts, the cancellations and their positions,  *)
(* the third to the lane they wait in.  The fourth adds what the provider  *)
(* does with the turns, and shows that they follow one another.            *)
(***************************************************************************)
EXTENDS AgentTurn, TLAPS

\* The runs an agent record may track.
RunShape(s) ==
    /\ s.run.kind = "none" => s.run = NoRun
    /\ s.run.kind # "none" => s.run.token \in Tokens
    /\ s.run.kind = "autonomous" => \A p \in Prompts : s.run.token # RunToken(p)
    /\ s.run.kind = "foreground" =>
          /\ s.run.token \notin s.settled
          /\ \E p \in Prompts : s.run.token = RunToken(p) /\ s.run.turn \in {None, p}
    /\ s.run.kind = "foreground" /\ s.run.turn # None =>
          s.fg = s.run.turn /\ s.run.turn \in s.waiters

Owned(s) ==
    s.fg # None =>
        /\ s.fg \in Prompts
        /\ s.run.kind = "foreground"
        /\ s.run.turn = s.fg
        /\ s.active = s.fg
        /\ s.fg \notin s.finalized
        /\ s.lifecycle = "running"

Sound(s) == s \in Agent /\ RunShape(s) /\ Owned(s)

\* What a step that starts no prompt may do to the tracked run and to the
\* memory of finished turns.
Advances(s, n) ==
    /\ Sound(n)
    /\ \/ n.run = s.run /\ n.settled = s.settled
       \/ HasRun(s) /\ n.run = NoRun /\ n.settled = s.settled \cup {s.run.token}
       \/ ~ HasRun(s) /\ n.run.kind = "autonomous" /\ n.settled = s.settled
    /\ n.finalized = s.finalized \/ (s.fg # None /\ n.finalized = s.finalized \cup {s.fg})

LEMMA TokensDiffer ==
    /\ \A p, q \in Prompts : RunToken(p) = RunToken(q) => p = q
    /\ \A p \in Prompts : \A t : RunToken(p) # TurnToken(t) /\ RunToken(p) # CancelToken(t)
    /\ \A p \in Prompts : RunToken(p) \in Tokens
    /\ \A t \in Turns : TurnToken(t) \in Tokens
    /\ \A o \in Ops : CancelToken(o) \in Tokens
  BY DEF RunToken, TurnToken, CancelToken, Tokens

LEMMA NoneIsNoPrompt == None \notin Turns /\ None \notin Ops /\ None \notin Prompts
  BY AgentTurnAssumption DEF Turns, Ops

\* None is no token: tokens are pairs, whatever None is, so the record NoRun
\* is told apart by its kind.
LEMMA RunTypes ==
    /\ NoRun \in Run
    /\ \A p \in Prompts, r \in BOOLEAN : PendingRun(p, r) \in Run
    /\ \A token \in Tokens, t \in Turns \cup {None} : AutonomousRun(token, t) \in Run
  BY TokensDiffer DEF NoRun, PendingRun, AutonomousRun, Run, Turns

-----------------------------------------------------------------------------
(* The operators on the agent record keep it typed.                          *)

LEMMA ClearRunType ==
    ASSUME NEW s \in Agent, HasRun(s), s.run.token \in Tokens
    PROVE  ClearRun(s) \in Agent
  BY RunTypes DEF ClearRun, Agent

LEMMA CloseActiveTurnType ==
    ASSUME NEW s \in Agent, NEW t \in Turns \cup {None}
    PROVE  CloseActiveTurn(s, t) \in Agent
  BY DEF CloseActiveTurn, Agent

LEMMA OnTurnEndType ==
    ASSUME NEW s \in Agent, NEW type, NEW t \in Turns \cup {None}
    PROVE  OnTurnEnd(s, type, t) \in Agent
  BY DEF OnTurnEnd, IsForeground, Agent

LEMMA FinalizeType ==
    ASSUME NEW s \in Agent, NEW t \in Turns \cup {None}
    PROVE  Finalize(s, t) \in Agent
  BY ZenonT(40) DEF Finalize, CloseActiveTurn, IsStale, Agent

LEMMA FinalizeEffect ==
    ASSUME NEW s \in Agent, NEW t \in Turns \cup {None}
    PROVE  LET n == Finalize(s, t) IN
           /\ n.fg = None /\ n.run = s.run /\ n.settled = s.settled
           /\ n.finalized = IF t = None THEN s.finalized ELSE s.finalized \cup {t}
           /\ n.waiters = s.waiters
  BY DEF Finalize, CloseActiveTurn, IsStale, Agent

LEMMA TerminalTurnType ==
    ASSUME NEW s \in Agent, NEW t \in Turns \cup {None}
    PROVE  TerminalTurn(s, t) \in Turns \cup {None}
  BY DEF TerminalTurn, Agent

-----------------------------------------------------------------------------
(* Sound steps of the agent record.                                          *)

LEMMA AdvancesNothing == ASSUME NEW s, Sound(s) PROVE Advances(s, s)
  BY DEF Advances

\* A terminal event ends the open turn and its run together or leaves both; a
\* run that waits for its turn is left alone.
LEMMA HandleTerminalAdvances ==
    ASSUME NEW s, Sound(s), NEW e, e.turn \in Turns \cup {None}
    PROVE  /\ Advances(s, HandleTerminal(s, e))
           /\ IsPending(s) => HandleTerminal(s, e).run = s.run
  <1> DEFINE t == TerminalTurn(s, e.turn)
             ended == IF IsStale(s, t) THEN s ELSE OnTurnEnd(CloseActiveTurn(s, t), e.type, t)
             settled == SettleTerminalRun(ended, t)
             final == IF IsForeground(s, t) THEN Finalize(settled, t) ELSE settled
             woken == [final EXCEPT !.waiters = @ \ {e.turn}]
  <1>1. s \in Agent /\ RunShape(s) /\ Owned(s)
    BY DEF Sound
  <1>2. e.turn \in Turns \cup {None}
    OBVIOUS
  <1>3. t \in Turns \cup {None}
    BY <1>1, <1>2, TerminalTurnType
  <1>4. HandleTerminal(s, e) = IF t # None /\ t \in s.finalized THEN s ELSE woken
    BY DEF HandleTerminal
  <1>5. /\ ended \in Agent
        /\ ended.run = s.run /\ ended.fg = s.fg /\ ended.settled = s.settled
        /\ ended.finalized = s.finalized /\ ended.waiters = s.waiters
    <2>1. CASE IsStale(s, t)
      BY <1>1, <2>1
    <2>2. CASE ~ IsStale(s, t)
      <3>1. CloseActiveTurn(s, t) \in Agent
        BY <1>1, <1>3, CloseActiveTurnType
      <3>2. ended \in Agent
        BY <1>3, <2>2, <3>1, OnTurnEndType
      <3>3. CloseActiveTurn(s, t) = [s EXCEPT !.active = None]
        BY <2>2 DEF CloseActiveTurn
      <3> QED
        BY <1>1, <2>2, <3>2, <3>3 DEF OnTurnEnd, Agent
    <2> QED
      BY <2>1, <2>2
  <1>6. CASE t # None /\ t \in s.finalized
    BY <1>4, <1>6, AdvancesNothing
  <1>a. /\ final = IF IsForeground(s, t) THEN Finalize(settled, t) ELSE settled
        /\ woken = [final EXCEPT !.waiters = @ \ {e.turn}]
        /\ settled = SettleTerminalRun(ended, t)
        /\ IsStale(s, t) => ended = s
    OBVIOUS
  <1> HIDE DEF ended, settled, final, woken, t
  <1>b. ASSUME final \in Agent
        PROVE  /\ woken \in Agent /\ woken.waiters = final.waiters \ {e.turn}
               /\ woken.run = final.run /\ woken.fg = final.fg /\ woken.settled = final.settled
               /\ woken.finalized = final.finalized /\ woken.active = final.active
               /\ woken.lifecycle = final.lifecycle
    BY <1>a, <1>b DEF Agent
  <1>c. ASSUME settled = ClearRun(ended), HasRun(s)
        PROVE  /\ settled \in Agent /\ settled.run = NoRun
               /\ settled.settled = s.settled \cup {s.run.token}
               /\ settled.fg = s.fg /\ settled.finalized = s.finalized
    <2>1. settled \in Agent
      BY <1>1, <1>5, <1>c, ClearRunType DEF RunShape, HasRun
    <2> QED
      BY <1>5, <1>c, <2>1 DEF ClearRun, Agent
  <1>7. CASE ~ (t # None /\ t \in s.finalized) /\ s.fg = None
    <2>1. final = settled
      BY <1>7, <1>a DEF IsForeground
    <2>2. ~ (s.run.kind = "foreground" /\ s.run.turn # None)
      BY <1>1, <1>7 DEF RunShape
    <2>3. \/ settled = ended
          \/ HasRun(s) /\ s.run.kind = "autonomous" /\ settled = ClearRun(ended)
      BY <1>5, <1>a, <2>2 DEF SettleTerminalRun, HasRun
    <2>4. /\ woken \in Agent /\ woken.fg = None /\ woken.finalized = s.finalized
          /\ \/ woken.run = s.run /\ woken.settled = s.settled
             \/ /\ HasRun(s) /\ woken.run = NoRun
                /\ woken.settled = s.settled \cup {s.run.token}
      BY <1>5, <1>7, <1>b, <1>c, <2>1, <2>3
    <2>5. RunShape(woken)
      <3>1. CASE woken.run = s.run /\ woken.settled = s.settled
        BY <1>1, <2>2, <3>1 DEF RunShape
      <3>2. CASE woken.run = NoRun
        BY <3>2 DEF RunShape, NoRun
      <3> QED
        BY <2>4, <3>1, <3>2
    <2>6. Owned(woken)
      BY <2>4 DEF Owned
    <2> QED
      BY <1>4, <1>7, <1>5, <1>b, <2>1, <2>3, <2>4, <2>5, <2>6 DEF Advances, Sound, IsPending
  <1>8. CASE ~ (t # None /\ t \in s.finalized) /\ s.fg # None /\ t = s.fg
    <2>1. HasRun(s) /\ s.run.kind = "foreground" /\ s.run.turn = s.fg /\ s.fg # None
      BY <1>1, <1>8 DEF Owned, HasRun
    <2>2. settled = ClearRun(ended)
      BY <1>5, <1>8, <1>a, <2>1 DEF SettleTerminalRun
    <2>3. final = Finalize(settled, t) /\ final \in Agent
      BY <1>3, <1>8, <1>a, <1>c, <2>1, <2>2, FinalizeType DEF IsForeground
    <2>4. /\ final.fg = None /\ final.run = settled.run /\ final.settled = settled.settled
          /\ final.finalized = settled.finalized \cup {t}
      <3>1. settled \in Agent
        BY <1>c, <2>1, <2>2
      <3>2. /\ Finalize(settled, t).fg = None /\ Finalize(settled, t).run = settled.run
            /\ Finalize(settled, t).settled = settled.settled
            /\ Finalize(settled, t).finalized
                 = IF t = None THEN settled.finalized ELSE settled.finalized \cup {t}
        BY ONLY <1>3, <3>1, FinalizeEffect
      <3>3. t # None
        BY <1>8
      <3>4. final = Finalize(settled, t)
        BY <2>3
      <3> QED
        BY ONLY <3>2, <3>3, <3>4
    <2>5. /\ woken \in Agent
          /\ woken.fg = None /\ woken.run = NoRun /\ woken.settled = s.settled \cup {s.run.token}
          /\ woken.finalized = s.finalized \cup {s.fg}
      BY <1>8, <1>b, <1>c, <2>1, <2>2, <2>3, <2>4
    <2>6. RunShape(woken) /\ Owned(woken)
      BY <2>5 DEF RunShape, Owned, NoRun
    <2> QED
      BY <1>4, <1>8, <2>1, <2>5, <2>6 DEF Advances, Sound, IsPending
  <1>9. CASE ~ (t # None /\ t \in s.finalized) /\ s.fg # None /\ t # s.fg
    <2>1. t # None /\ t = e.turn
      BY <1>9, <1>2 DEF TerminalTurn, t
    <2>2. s.run.kind = "foreground" /\ s.run.turn = s.fg /\ s.active = s.fg
      BY <1>1, <1>9 DEF Owned
    <2>3. IsStale(s, t)
      BY <1>9, <2>1, <2>2 DEF IsStale
    <2>4. final = s
      BY <1>9, <1>a, <2>2, <2>3 DEF SettleTerminalRun, IsForeground
    <2>5. /\ woken \in Agent
          /\ woken.run = s.run /\ woken.fg = s.fg /\ woken.settled = s.settled
          /\ woken.finalized = s.finalized /\ woken.active = s.active
          /\ woken.lifecycle = s.lifecycle /\ woken.waiters = s.waiters \ {e.turn}
      BY <1>1, <1>b, <2>4
    <2>6. RunShape(woken)
      BY <1>1, <1>9, <2>1, <2>2, <2>5 DEF RunShape
    <2>7. Owned(woken)
      BY <1>1, <2>5 DEF Owned
    <2> QED
      BY <1>4, <1>9, <2>5, <2>6, <2>7 DEF Advances, Sound
  <1> QED
    BY <1>6, <1>7, <1>8, <1>9

\* A turn that starts while no foreground turn is open becomes the active one
\* and is tracked unless a run is.
LEMMA HandleStartedAdvances ==
    ASSUME NEW s, Sound(s), NEW e, e.turn \in Turns
    PROVE  Advances(s, HandleStarted(s, e))
  <1> DEFINE tracked == TrackAutonomousRun(s, TurnToken(e.turn), e.turn)
             n == [tracked EXCEPT !.active = e.turn, !.lifecycle = "running"]
  <1>1. s \in Agent /\ RunShape(s) /\ Owned(s)
    BY DEF Sound
  <1>2. CASE s.fg # None
    BY <1>2, AdvancesNothing DEF HandleStarted
  <1>3. CASE s.fg = None
    <2>1. HandleStarted(s, e) = n
      BY <1>3 DEF HandleStarted
    <2>2. /\ tracked \in Agent /\ tracked.fg = None /\ tracked.finalized = s.finalized
          /\ tracked.settled = s.settled
          /\ tracked.run = IF HasRun(s) THEN s.run ELSE AutonomousRun(TurnToken(e.turn), e.turn)
      <3>1. AutonomousRun(TurnToken(e.turn), e.turn) \in Run
        BY RunTypes, TokensDiffer
      <3> QED
        BY <1>1, <1>3, <3>1 DEF TrackAutonomousRun, Agent
    <2> HIDE DEF tracked
    <2>3. /\ n \in Agent /\ n.fg = None /\ n.finalized = s.finalized
          /\ n.settled = s.settled
          /\ n.run = IF HasRun(s) THEN s.run ELSE AutonomousRun(TurnToken(e.turn), e.turn)
      BY <2>2 DEF Agent
    <2> HIDE DEF n
    <2>4. RunShape(n)
      <3>1. CASE HasRun(s)
        <4>1. ~ (s.run.kind = "foreground" /\ s.run.turn # None)
          BY <1>1, <1>3 DEF RunShape
        <4> QED
          BY <1>1, <2>3, <3>1, <4>1 DEF RunShape
      <3>2. CASE ~ HasRun(s)
        <4>1. /\ n.run.kind = "autonomous" /\ n.run.token = TurnToken(e.turn)
          BY <2>3, <3>2 DEF AutonomousRun
        <4> QED
          BY <4>1, TokensDiffer DEF RunShape
      <3> QED
        BY <3>1, <3>2
    <2>5. Owned(n)
      BY <2>3 DEF Owned
    <2> QED
      BY <2>1, <2>3, <2>4, <2>5 DEF Advances, Sound, AutonomousRun
  <1> QED
    BY <1>2, <1>3

\* Every dispatched event is a sound step of the agent.
LEMMA HandleAdvances ==
    ASSUME NEW s, Sound(s), NEW e \in Event
    PROVE  Advances(s, Handle(s, e))
  <1>1. e.turn \in Turns /\ e.type \in Terminals \cup {"turn_started", "item"}
    BY DEF Event
  <1>2. CASE e.type \in Terminals
    <2>1. Handle(s, e) = HandleTerminal(s, e)
      BY <1>2 DEF Handle, Terminals
    <2> QED
      BY <1>1, <2>1, HandleTerminalAdvances
  <1>3. CASE e.type = "turn_started"
    <2>1. Handle(s, e) = HandleStarted(s, e)
      BY <1>3 DEF Handle, Terminals
    <2> QED
      BY <1>1, <1>3, <2>1, HandleStartedAdvances
  <1>4. CASE e.type = "item"
    <2>1. Handle(s, e) = s
      BY <1>4 DEF Handle, Terminals
    <2> QED
      BY <2>1, AdvancesNothing
  <1> QED
    BY <1>1, <1>2, <1>3, <1>4

\* The agent is held busy for a replacement, or no longer.
LEMMA ReplaceAdvances ==
    ASSUME NEW s, Sound(s)
    PROVE  /\ Advances(s, [s EXCEPT !.replacing = TRUE, !.lifecycle = "running"])
           /\ Advances(s, [s EXCEPT !.replacing = FALSE])
  <1>1. s \in Agent /\ RunShape(s) /\ Owned(s)
    BY DEF Sound
  <1>2. ASSUME NEW n \in Agent,
               n.run = s.run, n.settled = s.settled, n.finalized = s.finalized,
               n.fg = s.fg, n.active = s.active, n.waiters = s.waiters,
               n.lifecycle \in {s.lifecycle, "running"}
        PROVE  Advances(s, n)
    <2>1. RunShape(n)
      BY <1>1, <1>2 DEF RunShape
    <2>2. Owned(n)
      BY <1>1, <1>2 DEF Owned
    <2> QED
      BY <1>2, <2>1, <2>2 DEF Advances, Sound
  <1>3. Advances(s, [s EXCEPT !.replacing = TRUE, !.lifecycle = "running"])
    <2> DEFINE n == [s EXCEPT !.replacing = TRUE, !.lifecycle = "running"]
    <2>1. /\ n \in Agent /\ n.run = s.run /\ n.settled = s.settled /\ n.finalized = s.finalized
          /\ n.fg = s.fg /\ n.active = s.active /\ n.waiters = s.waiters
          /\ n.lifecycle = "running"
      BY <1>1 DEF Agent
    <2> HIDE DEF n
    <2>2. Advances(s, n)
      BY <1>2, <2>1
    <2> QED
      BY <2>2 DEF n
  <1>4. Advances(s, [s EXCEPT !.replacing = FALSE])
    <2> DEFINE n == [s EXCEPT !.replacing = FALSE]
    <2>1. /\ n \in Agent /\ n.run = s.run /\ n.settled = s.settled /\ n.finalized = s.finalized
          /\ n.fg = s.fg /\ n.active = s.active /\ n.waiters = s.waiters
          /\ n.lifecycle = s.lifecycle
      BY <1>1 DEF Agent
    <2> HIDE DEF n
    <2>2. Advances(s, n)
      BY <1>2, <2>1
    <2> QED
      BY <2>2 DEF n
  <1> QED
    BY <1>3, <1>4

\* A pending run that is settled leaves no run behind, whatever else the step
\* does to the state shown to clients.
LEMMA SettlePendingAdvances ==
    ASSUME NEW s, Sound(s), IsPending(s), NEW lifecycle \in {"idle", "running", "error"}
    PROVE  LET n == [SettleForegroundRun(s, s.run.token) EXCEPT !.lifecycle = lifecycle] IN
           Advances(s, n) /\ n.run = NoRun /\ n.settled = s.settled \cup {s.run.token}
  <1> DEFINE c == ClearRun(s)
             n == [c EXCEPT !.lifecycle = lifecycle]
  <1>1. s \in Agent /\ RunShape(s) /\ Owned(s) /\ HasRun(s)
    BY DEF Sound, IsPending, HasRun
  <1>2. SettleForegroundRun(s, s.run.token) = c
    BY DEF SettleForegroundRun, IsPending
  <1>3. s.fg = None
    BY <1>1 DEF Owned, IsPending
  <1>4. c \in Agent
    BY <1>1, ClearRunType DEF RunShape, HasRun
  <1>5. /\ c.run = NoRun /\ c.settled = s.settled \cup {s.run.token}
        /\ c.fg = None /\ c.finalized = s.finalized
    BY <1>1, <1>3, <1>4 DEF ClearRun, Agent
  <1> HIDE DEF c
  <1>6. /\ n \in Agent /\ n.run = NoRun /\ n.settled = s.settled \cup {s.run.token}
        /\ n.fg = None /\ n.finalized = s.finalized
    BY <1>4, <1>5 DEF Agent
  <1> HIDE DEF n
  <1>7. RunShape(n) /\ Owned(n)
    BY <1>6 DEF RunShape, Owned, NoRun
  <1>8. Advances(s, n)
    BY <1>1, <1>6, <1>7 DEF Advances, Sound
  <1> QED
    BY <1>2, <1>6, <1>8 DEF n

\* A forced cancellation is a sound step of the agent.
LEMMA ForcedAdvances ==
    ASSUME NEW o, Sound(agent)
    PROVE  Advances(agent, Forced(o))
  <1>1. agent \in Agent /\ agent.run \in Run
    BY DEF Sound, Agent
  <1>2. CASE agent.run.turn # None
    <2>1. TurnEvent("turn_canceled", agent.run.turn).turn \in Turns \cup {None}
      BY <1>1 DEF TurnEvent, Run
    <2> QED
      BY <1>2, <2>1, HandleTerminalAdvances DEF Forced
  <1>3. CASE agent.run.turn = None /\ captured[o].kind = "foreground"
    <2> DEFINE lifecycle == IF agent.replacing THEN agent.lifecycle ELSE "idle"
               r == SettleForegroundRun(agent, captured[o].token)
    <2>1. Forced(o) = [r EXCEPT !.lifecycle = IF agent.replacing THEN @ ELSE "idle"]
      BY <1>3 DEF Forced
    <2>2. lifecycle \in {"idle", "running", "error"}
      BY <1>1 DEF Agent
    <2>3. CASE agent.run.kind = "foreground" /\ agent.run.token = captured[o].token
      <3>1. IsPending(agent)
        BY <1>3, <2>3 DEF IsPending
      <3>2. r.lifecycle = agent.lifecycle
        BY <1>1, <2>3 DEF SettleForegroundRun, ClearRun, Agent
      <3>3. Forced(o) = [SettleForegroundRun(agent, agent.run.token) EXCEPT !.lifecycle = lifecycle]
        BY <2>1, <2>3, <3>2
      <3> HIDE DEF lifecycle, r
      <3>4. Advances(agent,
                [SettleForegroundRun(agent, agent.run.token) EXCEPT !.lifecycle = lifecycle])
        BY <2>2, <3>1, SettlePendingAdvances
      <3> QED
        BY <3>3, <3>4
    <2>4. CASE ~ (agent.run.kind = "foreground" /\ agent.run.token = captured[o].token)
      <3>1. r = agent
        BY <2>4 DEF SettleForegroundRun
      <3>2. Forced(o) = [agent EXCEPT !.lifecycle = lifecycle]
        BY <2>1, <3>1
      <3>3. agent.fg = None
        BY <1>3 DEF Sound, Owned
      <3> HIDE DEF lifecycle
      <3>4. /\ Forced(o) \in Agent
            /\ Forced(o).run = agent.run /\ Forced(o).settled = agent.settled
            /\ Forced(o).finalized = agent.finalized /\ Forced(o).fg = agent.fg
            /\ Forced(o).waiters = agent.waiters
        BY <1>1, <2>2, <3>2 DEF Agent
      <3>5. RunShape(Forced(o)) /\ Owned(Forced(o))
        BY <3>3, <3>4 DEF Sound, RunShape, Owned
      <3> QED
        BY <3>4, <3>5 DEF Advances, Sound
    <2> QED
      BY <2>3, <2>4
  <1>4. CASE agent.run.turn = None /\ captured[o].kind # "foreground"
    <2>1. TurnEvent("turn_canceled", None).turn \in Turns \cup {None}
      BY DEF TurnEvent
    <2> QED
      BY <1>4, <2>1, HandleTerminalAdvances DEF Forced
  <1> QED
    BY <1>2, <1>3, <1>4

\* A start that failed clears its run, whatever it leaves for clients to see.
LEMMA RejectedAdvances ==
    ASSUME NEW s, Sound(s), IsPending(s), NEW p, s.run.token = RunToken(p),
           NEW stale \in BOOLEAN
    PROVE  /\ Advances(s, Rejected(s, p, stale))
           /\ Rejected(s, p, stale).run = NoRun
           /\ Rejected(s, p, stale).settled = s.settled \cup {RunToken(p)}
  <1> DEFINE released == [s EXCEPT !.replacing = FALSE]
             failed == HandleTerminal(released, TurnEvent("turn_failed", None))
             n == IF stale
                  THEN [released EXCEPT !.lifecycle = IF s.fg = None THEN "idle" ELSE @]
                  ELSE Finalize(failed, None)
             c == ClearRun(n)
  <1>1. s \in Agent /\ RunShape(s) /\ Owned(s) /\ s.fg = None
    BY DEF Sound, Owned, IsPending
  <1>2. /\ released \in Agent /\ released.run = s.run /\ released.fg = None
        /\ released.settled = s.settled /\ released.finalized = s.finalized
    BY <1>1 DEF Agent
  <1>3. Advances(s, released)
    BY ReplaceAdvances
  <1>4. Rejected(s, p, stale) = SettleForegroundRun(n, RunToken(p))
    BY DEF Rejected
  <1>5. /\ n \in Agent /\ n.run = s.run /\ n.fg = None
        /\ n.settled = s.settled /\ n.finalized = s.finalized
    <2>1. CASE stale
      BY <1>1, <1>2, <2>1 DEF Agent
    <2>2. CASE ~ stale
      <3> HIDE DEF released
      <3>1. Sound(released) /\ IsPending(released)
        BY <1>2, <1>3 DEF Advances, IsPending
      <3>2. TurnEvent("turn_failed", None).turn \in Turns \cup {None}
        BY DEF TurnEvent
      <3>3. Advances(released, failed) /\ failed.run = released.run
        BY <3>1, <3>2, HandleTerminalAdvances
      <3> HIDE DEF failed
      <3>4. /\ failed \in Agent /\ failed.run = s.run /\ failed.finalized = s.finalized
            /\ failed.settled = s.settled
        BY <1>2, <3>1, <3>3 DEF Advances, Sound, HasRun, IsPending, NoRun
      <3>5. Finalize(failed, None) \in Agent
        BY <3>4, FinalizeType
      <3>6. /\ Finalize(failed, None).fg = None /\ Finalize(failed, None).run = failed.run
            /\ Finalize(failed, None).settled = failed.settled
            /\ Finalize(failed, None).finalized = failed.finalized
        BY <3>4, FinalizeEffect
      <3> QED
        BY <2>2, <3>4, <3>5, <3>6
    <2> QED
      BY <2>1, <2>2
  <1> HIDE DEF n
  <1>6. HasRun(n) /\ n.run.token \in Tokens
    BY <1>1, <1>5 DEF RunShape, HasRun, IsPending
  <1>7. Rejected(s, p, stale) = c
    BY <1>4, <1>5 DEF SettleForegroundRun, IsPending
  <1>8. c \in Agent
    BY <1>5, <1>6, ClearRunType
  <1>9. /\ c.run = NoRun /\ c.settled = s.settled \cup {s.run.token}
        /\ c.fg = None /\ c.finalized = s.finalized
    BY <1>5, <1>8 DEF ClearRun, Agent
  <1> HIDE DEF c
  <1>10. RunShape(c) /\ Owned(c)
    BY <1>9 DEF RunShape, Owned, NoRun
  <1>11. HasRun(s)
    BY DEF HasRun, IsPending
  <1> QED
    BY <1>7, <1>8, <1>9, <1>10, <1>11 DEF Advances, Sound

-----------------------------------------------------------------------------
(* The agent record, the positions of the operations and the runs that       *)
(* cancellations act on, taken together.                                     *)

Steps == {"idle", "done", "failed"} \cup PromptSteps \cup CancelSteps \cup SteerSteps

\* The tracked foreground run is the run of a prompt that is being started or
\* streamed, a prompt that is being started owns the tracked run until it is
\* settled, only prompts that got that far have settled runs or finished turns,
\* and a cancellation acts on the tracked run until that is settled.
Consistent(s, at, cap) ==
    /\ Sound(s)
    /\ at \in [Ops -> Steps] /\ cap \in [Ops -> Run]
    /\ \A p \in Prompts : s.run.kind = "foreground" /\ s.run.token = RunToken(p) =>
          at[p] = IF s.run.turn = None THEN "starting" ELSE "streaming"
    /\ \A p \in Prompts : at[p] = "starting" /\ RunToken(p) \notin s.settled =>
          IsPending(s) /\ s.run.token = RunToken(p)
    /\ \A p \in Prompts : RunToken(p) \in s.settled =>
          at[p] \in {"starting", "streaming", "done", "failed"}
    /\ \A p \in Prompts : p \in s.finalized => at[p] \in {"streaming", "done"}
    /\ \A o \in Ops : at[o] \in {"interrupting", "settling"} =>
          /\ cap[o].token \in Tokens
          /\ cap[o].token \notin s.settled => HasRun(s) /\ s.run.token = cap[o].token

\* A step of one operation that neither starts a run nor leaves its own.
LEMMA StepsAside ==
    ASSUME NEW s, NEW at, NEW cap, Consistent(s, at, cap),
           NEW n, Advances(s, n),
           NEW at2 \in [Ops -> Steps], NEW cap2 \in [Ops -> Run],
           \A o \in Ops : \/ at2[o] = at[o]
                          \/ /\ at[o] \notin {"starting", "streaming", "done", "failed"}
                             /\ at2[o] # "starting",
           \A o \in Ops : at2[o] \in {"interrupting", "settling"} =>
              \/ at[o] \in {"interrupting", "settling"} /\ cap2[o] = cap[o]
              \/ HasRun(n) /\ n.run.token \in Tokens /\ cap2[o].token = n.run.token
    PROVE  Consistent(n, at2, cap2)
  <1>1. /\ Sound(s) /\ Sound(n) /\ RunShape(s) /\ RunShape(n) /\ Owned(s)
        /\ \A p \in Prompts : p \in Ops
    BY DEF Consistent, Advances, Sound, Ops
  <1>2. \A p \in Prompts : n.run.kind = "foreground" /\ n.run.token = RunToken(p) =>
          at2[p] = IF n.run.turn = None THEN "starting" ELSE "streaming"
    BY <1>1 DEF Consistent, Advances, NoRun
  <1>3. \A p \in Prompts : at2[p] = "starting" /\ RunToken(p) \notin n.settled =>
          IsPending(n) /\ n.run.token = RunToken(p)
    <2> SUFFICES ASSUME NEW p \in Prompts, at2[p] = "starting", RunToken(p) \notin n.settled
                 PROVE  IsPending(n) /\ n.run.token = RunToken(p)
      OBVIOUS
    <2>1. at[p] = "starting" /\ RunToken(p) \notin s.settled
      BY <1>1 DEF Advances
    <2>2. IsPending(s) /\ s.run.token = RunToken(p)
      BY <2>1 DEF Consistent
    <2>3. n.run = s.run
      BY <2>2 DEF Advances, IsPending, HasRun
    <2> QED
      BY <2>2, <2>3 DEF IsPending
  <1>4. \A p \in Prompts : RunToken(p) \in n.settled /\ RunToken(p) \notin s.settled =>
          s.run.kind = "foreground" /\ s.run.token = RunToken(p)
    <2> SUFFICES ASSUME NEW p \in Prompts, RunToken(p) \in n.settled, RunToken(p) \notin s.settled
                 PROVE  s.run.kind = "foreground" /\ s.run.token = RunToken(p)
      OBVIOUS
    <2>1. HasRun(s) /\ s.run.token = RunToken(p)
      BY DEF Advances
    <2>2. s.run.kind \in {"none", "foreground", "autonomous"}
      BY <1>1 DEF Sound, Agent, Run
    <2> QED
      BY <1>1, <2>1, <2>2 DEF RunShape, HasRun
  <1>5. \A p \in Prompts : RunToken(p) \in n.settled =>
          at2[p] \in {"starting", "streaming", "done", "failed"}
    BY <1>1, <1>4 DEF Consistent
  <1>6. \A p \in Prompts : p \in n.finalized => at2[p] \in {"streaming", "done"}
    <2>1. s.fg # None => at[s.fg] = "streaming"
      BY <1>1 DEF Owned, RunShape, Consistent
    <2> QED
      BY <1>1, <2>1 DEF Advances, Consistent
  <1>7. \A o \in Ops : at2[o] \in {"interrupting", "settling"} =>
          /\ cap2[o].token \in Tokens
          /\ cap2[o].token \notin n.settled => HasRun(n) /\ n.run.token = cap2[o].token
    BY <1>1 DEF Consistent, Advances, HasRun
  <1> QED
    BY <1>1, <1>2, <1>3, <1>5, <1>6, <1>7 DEF Consistent

\* A prompt leaves a run that is not tracked any more.
LEMMA LeavesRun ==
    ASSUME NEW s, NEW at, NEW cap, Consistent(s, at, cap),
           NEW p \in Prompts, NEW l \in {"done", "failed"},
           at[p] = IF l = "done" THEN "streaming" ELSE "starting",
           ~ (s.run.kind = "foreground" /\ s.run.token = RunToken(p))
    PROVE  Consistent(s, [at EXCEPT ![p] = l], cap)
  <1> DEFINE at2 == [at EXCEPT ![p] = l]
  <1>1. /\ at2 \in [Ops -> Steps]
        /\ at2[p] = l
        /\ \A o \in Ops : o # p => at2[o] = at[o]
        /\ \A q \in Prompts : q \in Ops
    BY DEF Consistent, Steps, Ops
  <1> HIDE DEF at2
  <1>2. \A q \in Prompts : s.run.kind = "foreground" /\ s.run.token = RunToken(q) =>
          at2[q] = IF s.run.turn = None THEN "starting" ELSE "streaming"
    BY <1>1 DEF Consistent
  <1>3. \A q \in Prompts : at2[q] = "starting" /\ RunToken(q) \notin s.settled =>
          IsPending(s) /\ s.run.token = RunToken(q)
    BY <1>1 DEF Consistent
  <1>4. \A q \in Prompts : RunToken(q) \in s.settled =>
          at2[q] \in {"starting", "streaming", "done", "failed"}
    BY <1>1 DEF Consistent
  <1>5. \A q \in Prompts : q \in s.finalized => at2[q] \in {"streaming", "done"}
    BY <1>1 DEF Consistent
  <1>6. \A o \in Ops : at2[o] \in {"interrupting", "settling"} =>
          /\ cap[o].token \in Tokens
          /\ cap[o].token \notin s.settled => HasRun(s) /\ s.run.token = cap[o].token
    BY <1>1 DEF Consistent
  <1>7. Consistent(s, at2, cap)
    BY <1>1, <1>2, <1>3, <1>4, <1>5, <1>6 DEF Consistent
  <1> QED
    BY <1>7 DEF at2

\* A prompt that finds no run starts its own.
LEMMA StartsRun ==
    ASSUME NEW s, NEW at, NEW cap, Consistent(s, at, cap),
           NEW p \in Prompts, at[p] \notin {"starting", "streaming", "done", "failed"},
           s.fg = None, ~ HasRun(s)
    PROVE  Consistent([s EXCEPT !.failed = FALSE, !.run = PendingRun(p, s.replacing)],
                      [at EXCEPT ![p] = "starting"], cap)
  <1> DEFINE at2 == [at EXCEPT ![p] = "starting"]
             n == [s EXCEPT !.failed = FALSE, !.run = PendingRun(p, s.replacing)]
  <1>1. /\ at2 \in [Ops -> Steps]
        /\ at2[p] = "starting"
        /\ \A o \in Ops : o # p => at2[o] = at[o]
        /\ \A q \in Prompts : q \in Ops
    BY DEF Consistent, Steps, Ops, PromptSteps
  <1>2. s \in Agent /\ RunShape(s)
    BY DEF Consistent, Sound
  <1>3. PendingRun(p, s.replacing) \in Run
    BY <1>2, RunTypes DEF Agent
  <1>4. /\ n \in Agent /\ n.run = PendingRun(p, s.replacing) /\ n.fg = None
        /\ n.settled = s.settled /\ n.finalized = s.finalized
    BY <1>2, <1>3 DEF Agent
  <1> HIDE DEF n, at2
  <1>5. /\ n.run.kind = "foreground" /\ n.run.token = RunToken(p) /\ n.run.turn = None
        /\ IsPending(n) /\ HasRun(n)
    BY <1>4 DEF PendingRun, IsPending, HasRun
  <1>6. RunToken(p) \notin s.settled
    BY DEF Consistent
  <1>7. RunShape(n)
    BY <1>4, <1>5, <1>6, TokensDiffer DEF RunShape
  <1>8. Sound(n)
    BY <1>4, <1>7 DEF Sound, Owned
  <1>9. \A q \in Prompts : n.run.kind = "foreground" /\ n.run.token = RunToken(q) =>
          at2[q] = IF n.run.turn = None THEN "starting" ELSE "streaming"
    BY <1>1, <1>5, TokensDiffer
  <1>10. \A q \in Prompts : at2[q] = "starting" /\ RunToken(q) \notin n.settled =>
          IsPending(n) /\ n.run.token = RunToken(q)
    <2> SUFFICES ASSUME NEW q \in Prompts, q # p, at[q] = "starting", RunToken(q) \notin s.settled
                 PROVE  FALSE
      BY <1>1, <1>4, <1>5
    <2> QED
      BY DEF Consistent, IsPending, HasRun
  <1>11. \A q \in Prompts : RunToken(q) \in n.settled =>
          at2[q] \in {"starting", "streaming", "done", "failed"}
    BY <1>1, <1>4 DEF Consistent
  <1>12. \A q \in Prompts : q \in n.finalized => at2[q] \in {"streaming", "done"}
    BY <1>1, <1>4 DEF Consistent
  <1>13. \A o \in Ops : at2[o] \in {"interrupting", "settling"} =>
          /\ cap[o].token \in Tokens
          /\ cap[o].token \notin n.settled => HasRun(n) /\ n.run.token = cap[o].token
    BY <1>1, <1>4 DEF Consistent
  <1>14. Consistent(n, at2, cap)
    BY <1>1, <1>8, <1>9, <1>10, <1>11, <1>12, <1>13 DEF Consistent
  <1> QED
    BY <1>14 DEF n, at2

\* The provider's answer to a start opens the turn of the tracked run.
LEMMA OpensTurn ==
    ASSUME NEW s, NEW at, NEW cap, Consistent(s, at, cap),
           NEW p \in Prompts, at[p] = "starting", RunToken(p) \notin s.settled
    PROVE  Consistent(Opened(s, p), [at EXCEPT ![p] = "streaming"], cap)
  <1> DEFINE at2 == [at EXCEPT ![p] = "streaming"]
             n == Opened(s, p)
  <1>1. /\ at2 \in [Ops -> Steps]
        /\ at2[p] = "streaming"
        /\ \A o \in Ops : o # p => at2[o] = at[o]
        /\ \A q \in Prompts : q \in Ops
    BY DEF Consistent, Steps, Ops, PromptSteps
  <1>2. s \in Agent /\ RunShape(s) /\ IsPending(s) /\ s.run.token = RunToken(p)
    BY DEF Consistent, Sound
  <1>3. p \in Turns /\ p # None
    BY NoneIsNoPrompt DEF Turns
  <1>4. /\ n \in Agent /\ n.fg = p /\ n.active = p /\ n.lifecycle = "running"
        /\ n.settled = s.settled /\ n.finalized = s.finalized /\ p \in n.waiters
        /\ n.run.kind = "foreground" /\ n.run.token = RunToken(p) /\ n.run.turn = p
    BY <1>2, <1>3 DEF Opened, Agent, Run, IsPending
  <1> HIDE DEF n, at2
  <1>5. RunShape(n)
    BY <1>3, <1>4, TokensDiffer DEF RunShape
  <1>6. p \notin s.finalized
    BY DEF Consistent
  <1>7. Sound(n)
    BY <1>4, <1>5, <1>6 DEF Sound, Owned
  <1>8. \A q \in Prompts : n.run.kind = "foreground" /\ n.run.token = RunToken(q) =>
          at2[q] = IF n.run.turn = None THEN "starting" ELSE "streaming"
    BY <1>1, <1>3, <1>4, TokensDiffer
  <1>9. \A q \in Prompts : at2[q] = "starting" /\ RunToken(q) \notin n.settled =>
          IsPending(n) /\ n.run.token = RunToken(q)
    BY <1>1, <1>2, <1>4, TokensDiffer DEF Consistent
  <1>10. \A q \in Prompts : RunToken(q) \in n.settled =>
          at2[q] \in {"starting", "streaming", "done", "failed"}
    BY <1>1, <1>4 DEF Consistent
  <1>11. \A q \in Prompts : q \in n.finalized => at2[q] \in {"streaming", "done"}
    BY <1>1, <1>4 DEF Consistent
  <1>12. \A o \in Ops : at2[o] \in {"interrupting", "settling"} =>
          /\ cap[o].token \in Tokens
          /\ cap[o].token \notin n.settled => HasRun(n) /\ n.run.token = cap[o].token
    BY <1>1, <1>2, <1>4 DEF Consistent, HasRun
  <1>13. Consistent(n, at2, cap)
    BY <1>1, <1>7, <1>8, <1>9, <1>10, <1>11, <1>12 DEF Consistent
  <1> QED
    BY <1>13 DEF n, at2

-----------------------------------------------------------------------------
(* The actions.                                                              *)

\* An operation that is not started or streamed goes on.
LEMMA MovesOn ==
    ASSUME Consistent(agent, pc, captured),
           NEW o \in Ops, pc[o] \notin {"starting", "streaming", "done", "failed"},
           NEW l \in Steps \ {"starting", "interrupting"}, Goto(o, l),
           Advances(agent, agent'),
           \/ captured' = captured /\ (l = "settling" => pc[o] = "interrupting")
           \/ captured' = [captured EXCEPT ![o] = NoRun] /\ l # "settling"
    PROVE  Consistent(agent', pc', captured')
  <1>1. /\ pc' \in [Ops -> Steps] /\ pc'[o] = l
        /\ \A x \in Ops : x # o => pc'[x] = pc[x]
    BY DEF Goto, Consistent
  <1>2. captured' \in [Ops -> Run] /\ \A x \in Ops : x # o => captured'[x] = captured[x]
    BY RunTypes DEF Consistent
  <1>3. \A x \in Ops : \/ pc'[x] = pc[x]
                       \/ /\ pc[x] \notin {"starting", "streaming", "done", "failed"}
                          /\ pc'[x] # "starting"
    BY <1>1
  <1>4. \A x \in Ops : pc'[x] \in {"interrupting", "settling"} =>
             pc[x] \in {"interrupting", "settling"} /\ captured'[x] = captured[x]
    BY <1>1, <1>2
  <1> QED
    BY <1>1, <1>2, <1>3, <1>4, StepsAside

\* No operation moves.
LEMMA StaysPut ==
    ASSUME Consistent(agent, pc, captured), Advances(agent, agent'),
           pc' = pc, captured' = captured
    PROVE  Consistent(agent', pc', captured')
  <1>1. pc' \in [Ops -> Steps] /\ captured' \in [Ops -> Run]
    BY DEF Consistent
  <1> QED
    BY <1>1, StepsAside

LEMMA StreamAgentConsistent ==
    ASSUME Consistent(agent, pc, captured),
           NEW p \in Prompts, pc[p] \notin {"starting", "streaming", "done", "failed"},
           NEW refused, Advances(agent, refused), StreamAgent(agent, p, refused),
           captured' = captured
    PROVE  Consistent(agent', pc', captured')
  <1>1. CASE agent.fg # None \/ HasRun(agent)
    <2>1. agent' = refused /\ Goto(p, "failed") /\ "failed" \in Steps /\ p \in Ops
      BY <1>1 DEF StreamAgent, Steps, Ops
    <2> QED
      BY <2>1, MovesOn
  <1>2. CASE ~ (agent.fg # None \/ HasRun(agent))
    <2>1. /\ agent' = [agent EXCEPT !.failed = FALSE, !.run = PendingRun(p, agent.replacing)]
          /\ pc' = [pc EXCEPT ![p] = "starting"]
      BY <1>2 DEF StreamAgent, Goto
    <2> QED
      BY <1>2, <2>1, StartsRun
  <1> QED
    BY <1>1, <1>2

LEMMA SendConsistent ==
    ASSUME Consistent(agent, pc, captured), NEW p \in Prompts, NEW mode, Send(p, mode)
    PROVE  Consistent(agent', pc', captured')
  <1>1. /\ pc[p] \notin {"starting", "streaming", "done", "failed"} /\ captured' = captured
        /\ p \in Ops /\ Sound(agent) /\ Advances(agent, agent)
    BY AdvancesNothing DEF Send, Ops, Consistent
  <1>2. CASE StreamAgent(agent, p, agent)
    BY <1>1, <1>2, StreamAgentConsistent
  <1>3. CASE agent' = agent /\ Goto(p, "steerQueued")
    BY <1>1, <1>3, MovesOn DEF Steps, SteerSteps
  <1>4. CASE Replace(p)
    <2>1. Advances(agent, agent') /\ Goto(p, "cancelQueued")
      BY <1>1, <1>4, ReplaceAdvances DEF Replace
    <2> QED
      BY <1>1, <2>1, MovesOn DEF Steps, CancelSteps
  <1> QED
    BY <1>2, <1>3, <1>4 DEF Send

LEMMA StartResolvesConsistent ==
    ASSUME Consistent(agent, pc, captured), NEW p \in Prompts, StartResolves(p)
    PROVE  Consistent(agent', pc', captured')
  <1>1. pc[p] = "starting" /\ captured' = captured /\ agent \in Agent /\ RunShape(agent)
    BY DEF StartResolves, Consistent, Sound
  <1>2. CASE RunToken(p) \in agent.settled
    <2>1. agent' = agent /\ pc' = [pc EXCEPT ![p] = "failed"]
      BY <1>2 DEF StartResolves, Goto
    <2>2. ~ (agent.run.kind = "foreground" /\ agent.run.token = RunToken(p))
      BY <1>1, <1>2 DEF RunShape
    <2> QED
      BY <1>1, <2>1, <2>2, LeavesRun
  <1>3. CASE RunToken(p) \notin agent.settled
    <2>1. agent' = Opened(agent, p) /\ pc' = [pc EXCEPT ![p] = "streaming"]
      BY <1>3 DEF StartResolves, Goto
    <2> QED
      BY <1>1, <1>3, <2>1, OpensTurn
  <1> QED
    BY <1>2, <1>3

LEMMA StartRejectsConsistent ==
    ASSUME Consistent(agent, pc, captured), NEW p \in Prompts, NEW stale \in BOOLEAN,
           StartRejects(p, stale)
    PROVE  Consistent(agent', pc', captured')
  <1>1. /\ pc[p] = "starting" /\ captured' = captured /\ Sound(agent)
        /\ pc' = [pc EXCEPT ![p] = "failed"]
    BY DEF StartRejects, Consistent, Goto
  <1>2. CASE RunToken(p) \in agent.settled
    <2>1. agent' = agent
      BY <1>2 DEF StartRejects
    <2>2. ~ (agent.run.kind = "foreground" /\ agent.run.token = RunToken(p))
      BY <1>1, <1>2 DEF RunShape, Sound
    <2> QED
      BY <1>1, <2>1, <2>2, LeavesRun
  <1>3. CASE RunToken(p) \notin agent.settled
    <2>1. agent' = Rejected(agent, p, stale)
      BY <1>3 DEF StartRejects
    <2>2. IsPending(agent) /\ agent.run.token = RunToken(p)
      BY <1>1, <1>3 DEF Consistent
    <2>3. Advances(agent, agent') /\ agent'.run = NoRun
      BY <1>1, <2>1, <2>2, RejectedAdvances
    <2>4. Consistent(agent', pc, captured)
      <3>1. pc \in [Ops -> Steps] /\ captured \in [Ops -> Run]
        BY DEF Consistent
      <3> QED
        BY <2>3, <3>1, StepsAside
    <2>5. ~ (agent'.run.kind = "foreground" /\ agent'.run.token = RunToken(p))
      BY <2>3 DEF NoRun
    <2> QED
      BY <1>1, <2>4, <2>5, LeavesRun
  <1> QED
    BY <1>2, <1>3

\* The run of a stream that ends is not tracked any more: its turn ended it.
LEMMA StreamEndsConsistent ==
    ASSUME Consistent(agent, pc, captured), NEW p \in Prompts, StreamEnds(p)
    PROVE  Consistent(agent', pc', captured')
  <1>1. /\ pc[p] = "streaming" /\ p \notin agent.waiters /\ captured' = captured
        /\ RunShape(agent) /\ pc' = [pc EXCEPT ![p] = "done"]
    BY DEF StreamEnds, Consistent, Goto, Sound
  <1>2. ~ (agent.run.kind = "foreground" /\ agent.run.token = RunToken(p))
    <2> SUFFICES ASSUME agent.run.kind = "foreground", agent.run.token = RunToken(p)
                 PROVE  FALSE
      OBVIOUS
    <2>1. agent.run.turn # None
      BY <1>1 DEF Consistent
    <2> QED
      BY <1>1, <2>1, TokensDiffer DEF RunShape
  <1>3. agent' = agent
    BY <1>2 DEF StreamEnds, SettleForegroundRun
  <1> QED
    BY <1>1, <1>2, <1>3, LeavesRun

LEMMA CancelReturnsConsistent ==
    ASSUME Consistent(agent, pc, captured),
           NEW o \in Ops, pc[o] \notin {"starting", "streaming", "done", "failed"},
           NEW s, Advances(agent, s), NEW status, NEW m, CancelReturns(s, o, status, m)
    PROVE  Consistent(agent', pc', captured')
  <1>1. /\ agent' = s /\ captured' = [captured EXCEPT ![o] = NoRun] /\ Goto(o, "returned")
    BY DEF CancelReturns
  <1> QED
    BY <1>1, MovesOn DEF Steps, CancelSteps

\* The phantom run that a cancellation tracks is sound.
LEMMA TracksAutonomous ==
    ASSUME NEW s, Sound(s), NEW o \in Ops
    PROVE  Advances(s, TrackAutonomousRun(s, CancelToken(o), None))
  <1> DEFINE n == TrackAutonomousRun(s, CancelToken(o), None)
  <1>1. s \in Agent /\ RunShape(s) /\ Owned(s)
    BY DEF Sound
  <1>2. CASE HasRun(s)
    BY <1>2, AdvancesNothing DEF TrackAutonomousRun
  <1>3. CASE ~ HasRun(s)
    <2>1. AutonomousRun(CancelToken(o), None) \in Run
      BY RunTypes, TokensDiffer
    <2>2. /\ n \in Agent /\ n.run = AutonomousRun(CancelToken(o), None) /\ n.fg = s.fg
          /\ n.settled = s.settled /\ n.finalized = s.finalized
      BY <1>1, <1>3, <2>1 DEF TrackAutonomousRun, Agent
    <2> HIDE DEF n
    <2>3. s.fg = None
      BY <1>1, <1>3 DEF Owned, HasRun
    <2>4. n.run.kind = "autonomous" /\ n.run.token = CancelToken(o)
      BY <2>2 DEF AutonomousRun
    <2>5. RunShape(n)
      BY <2>4, TokensDiffer DEF RunShape
    <2>6. Sound(n)
      BY <2>2, <2>3, <2>5 DEF Sound, Owned
    <2>7. Advances(s, n)
      BY <1>3, <2>2, <2>4, <2>6 DEF Advances
    <2> QED
      BY <2>7 DEF n
  <1> QED
    BY <1>2, <1>3

LEMMA CancelStartsConsistent ==
    ASSUME Consistent(agent, pc, captured), NEW o \in Ops, CancelStarts(o)
    PROVE  Consistent(agent', pc', captured')
  <1> DEFINE tracked == IF agent.lifecycle = "running"
                        THEN TrackAutonomousRun(agent, CancelToken(o), None) ELSE agent
  <1>1. pc[o] = "cancelQueued" /\ Sound(agent)
    BY DEF CancelStarts, Consistent
  <1>2. Advances(agent, tracked) /\ Advances(agent, agent)
    BY <1>1, TracksAutonomous, AdvancesNothing
  <1>3. \/ CancelReturns(agent, o, "not_running", Tail(micro))
        \/ /\ HasRun(tracked) /\ agent' = tracked
           /\ captured' = [captured EXCEPT ![o] = tracked.run]
           /\ pc' = [pc EXCEPT ![o] = "interrupting"]
    BY DEF CancelStarts, Goto
  <1> HIDE DEF tracked
  <1>4. CASE CancelReturns(agent, o, "not_running", Tail(micro))
    BY <1>1, <1>2, <1>4, CancelReturnsConsistent
  <1>5. CASE /\ HasRun(tracked) /\ agent' = tracked
             /\ captured' = [captured EXCEPT ![o] = tracked.run]
             /\ pc' = [pc EXCEPT ![o] = "interrupting"]
    <2>1. /\ pc' \in [Ops -> Steps] /\ pc'[o] = "interrupting"
          /\ \A x \in Ops : x # o => pc'[x] = pc[x]
      BY <1>5 DEF Consistent, Steps, CancelSteps
    <2>2. tracked.run \in Run /\ tracked.run.token \in Tokens
      BY <1>2, <1>5 DEF Advances, Sound, Agent, RunShape, HasRun
    <2>3. /\ captured' \in [Ops -> Run] /\ captured'[o] = tracked.run
          /\ \A x \in Ops : x # o => captured'[x] = captured[x]
      BY <1>5, <2>2 DEF Consistent
    <2>4. \A x \in Ops : \/ pc'[x] = pc[x]
                         \/ /\ pc[x] \notin {"starting", "streaming", "done", "failed"}
                            /\ pc'[x] # "starting"
      BY <1>1, <2>1
    <2>5. \A x \in Ops : pc'[x] \in {"interrupting", "settling"} =>
              \/ pc[x] \in {"interrupting", "settling"} /\ captured'[x] = captured[x]
              \/ HasRun(agent') /\ agent'.run.token \in Tokens /\ captured'[x].token = agent'.run.token
      BY <1>5, <2>1, <2>2, <2>3
    <2>6. Advances(agent, agent')
      BY <1>2, <1>5
    <2> QED
      BY <2>1, <2>3, <2>4, <2>5, <2>6, StepsAside
  <1> QED
    BY <1>3, <1>4, <1>5

LEMMA CancelStepConsistent ==
    ASSUME Consistent(agent, pc, captured), NEW o \in Ops, CancelStep(o)
    PROVE  Consistent(agent', pc', captured')
  <1>1. Sound(agent) /\ Advances(agent, agent) /\ Advances(agent, Forced(o))
    BY AdvancesNothing, ForcedAdvances DEF Consistent
  <1>2. CASE InterruptAcknowledged(o) \/ InterruptRefused(o)
    <2>1. pc[o] = "interrupting" /\ Goto(o, "settling") /\ agent' = agent /\ captured' = captured
      BY <1>2 DEF InterruptAcknowledged, InterruptRefused, managerVars
    <2> QED
      BY <1>1, <2>1, MovesOn DEF Steps, CancelSteps
  <1>3. CASE CancelCompletes(o)
    <2>1. pc[o] = "settling" /\ CancelReturns(agent, o, "settled", micro)
      BY <1>3 DEF CancelCompletes
    <2> QED
      BY <1>1, <2>1, CancelReturnsConsistent
  <1>4. CASE CancelTimesOut(o)
    <2>1. /\ pc[o] = "settling"
          /\ \/ CancelReturns(agent, o, "refused", micro)
             \/ CancelReturns(Forced(o), o, "settled", micro)
      BY <1>4 DEF CancelTimesOut
    <2> QED
      BY <1>1, <2>1, CancelReturnsConsistent
  <1> QED
    BY <1>2, <1>3, <1>4 DEF CancelStep

LEMMA CancelResumesConsistent ==
    ASSUME Consistent(agent, pc, captured), NEW o \in Ops, CancelResumes(o)
    PROVE  Consistent(agent', pc', captured')
  <1> DEFINE givenUp == [agent EXCEPT !.replacing = FALSE]
  <1>1. /\ pc[o] = "returned" /\ captured' = captured
        /\ Advances(agent, agent) /\ Advances(agent, givenUp)
    BY AdvancesNothing, ReplaceAdvances DEF CancelResumes, Consistent
  <1>2. CASE agent' = agent /\ Goto(o, "done")
    BY <1>1, <1>2, MovesOn DEF Steps
  <1>3. CASE agent' = givenUp /\ Goto(o, "failed")
    BY <1>1, <1>3, MovesOn DEF Steps
  <1>4. CASE o \in Prompts /\ StreamAgent(agent, o, givenUp)
    BY <1>1, <1>4, StreamAgentConsistent
  <1> QED
    BY <1>2, <1>3, <1>4 DEF CancelResumes

LEMMA SteerConsistent ==
    ASSUME Consistent(agent, pc, captured), NEW p \in Prompts,
           SteerStarts(p) \/ SteerStep(p) \/ SteerResumes(p)
    PROVE  Consistent(agent', pc', captured')
  <1>1. /\ p \in Ops /\ pc[p] \in SteerSteps /\ captured' = captured
        /\ Advances(agent, agent)
    BY AdvancesNothing DEF SteerStarts, SteerStep, SteerAdmitted, SteerAnswered, SteerDrained,
          SteerResumes, SteerSteps, Consistent, Ops
  <1>2. pc[p] \notin {"starting", "streaming", "done", "failed"}
    BY <1>1 DEF SteerSteps
  <1>3. CASE SteerStarts(p)
    <2>1. agent' = agent /\ Goto(p, "admitting")
      BY <1>3 DEF SteerStarts
    <2> QED
      BY <1>1, <1>2, <2>1, MovesOn DEF Steps, SteerSteps
  <1>4. CASE SteerStep(p)
    <2>1. /\ agent' = agent
          /\ Goto(p, "steering") \/ Goto(p, "draining") \/ Goto(p, "steerReturned")
      BY <1>4 DEF SteerStep, SteerAdmitted, SteerAnswered, SteerDrained
    <2>2. CASE Goto(p, "steering")
      BY <1>1, <1>2, <2>1, <2>2, MovesOn DEF Steps, SteerSteps
    <2>3. CASE Goto(p, "draining")
      BY <1>1, <1>2, <2>1, <2>3, MovesOn DEF Steps, SteerSteps
    <2>4. CASE Goto(p, "steerReturned")
      BY <1>1, <1>2, <2>1, <2>4, MovesOn DEF Steps, SteerSteps
    <2> QED
      BY <2>1, <2>2, <2>3, <2>4
  <1>5. CASE SteerResumes(p)
    <2>1. \/ agent' = agent /\ (Goto(p, "done") \/ Goto(p, "failed"))
          \/ Replace(p)
          \/ StreamAgent(agent, p, agent)
      BY <1>5 DEF SteerResumes
    <2>2. CASE agent' = agent /\ Goto(p, "done")
      BY <1>1, <1>2, <2>2, MovesOn DEF Steps
    <2>3. CASE agent' = agent /\ Goto(p, "failed")
      BY <1>1, <1>2, <2>3, MovesOn DEF Steps
    <2>4. CASE Replace(p)
      <3>1. Advances(agent, agent') /\ Goto(p, "cancelQueued")
        BY <2>4, ReplaceAdvances DEF Replace, Consistent
      <3> QED
        BY <1>1, <1>2, <3>1, MovesOn DEF Steps, CancelSteps
    <2>5. CASE StreamAgent(agent, p, agent)
      BY <1>1, <1>2, <2>5, StreamAgentConsistent
    <2> QED
      BY <2>1, <2>2, <2>3, <2>4, <2>5
  <1> QED
    BY <1>3, <1>4, <1>5

-----------------------------------------------------------------------------
(* Session events on their way to the agent.                                 *)

Buffered ==
    /\ staged \in Seq(Event) /\ queue \in Seq(Event) /\ barrier \in Seq(Event)
    /\ asked \subseteq Prompts

bufferVars == <<staged, queue, barrier, asked>>

LEMMA EventTypes ==
    /\ \A t \in Turns, type \in Terminals \cup {"turn_started"} : TurnEvent(type, t) \in Event
    /\ \A t \in Turns, asks \in SUBSET Prompts :
          [type |-> "item", turn |-> t, asked |-> asks] \in Event
    /\ <<>> \in Seq(Event)
    /\ \A e \in Event : <<e>> \in Seq(Event)
    /\ \A a, b \in Seq(Event) : a \o b \in Seq(Event)
    /\ Prompts \subseteq Turns
  <1>1. \A t \in Turns, type \in Terminals \cup {"turn_started"} : TurnEvent(type, t) \in Event
    BY DEF TurnEvent, Event
  <1>2. \A t \in Turns, asks \in SUBSET Prompts :
          [type |-> "item", turn |-> t, asked |-> asks] \in Event
    BY DEF Event
  <1>3. /\ <<>> \in Seq(Event)
        /\ \A e \in Event : <<e>> \in Seq(Event)
        /\ \A a, b \in Seq(Event) : a \o b \in Seq(Event)
    OBVIOUS
  <1>4. Prompts \subseteq Turns
    BY DEF Turns
  <1> QED
    BY <1>1, <1>2, <1>3, <1>4

LEMMA WithoutStartType ==
    ASSUME NEW events \in Seq(Event), NEW p
    PROVE  WithoutStart(events, p) \in Seq(Event)
  <1> DEFINE starts == {i \in DOMAIN events : events[i] = TurnEvent("turn_started", p)}
             i == CHOOSE j \in starts : TRUE
  <1>1. CASE starts = {}
    BY <1>1 DEF WithoutStart
  <1>2. CASE starts # {}
    <2>1. i \in starts
      BY <1>2
    <2>2. i \in 1 .. Len(events)
      BY <2>1
    <2> HIDE DEF i
    <2>3. SubSeq(events, 1, i - 1) \in Seq(Event) /\ SubSeq(events, i + 1, Len(events)) \in Seq(Event)
      BY <2>2
    <2> DEFINE w == SubSeq(events, 1, i - 1) \o SubSeq(events, i + 1, Len(events))
    <2>4. w \in Seq(Event)
      BY <2>3
    <2>5. WithoutStart(events, p) = w
      BY <1>2 DEF WithoutStart, i
    <2> QED
      BY <2>4, <2>5
  <1> QED
    BY <1>1, <1>2

LEMMA EmitBuffered ==
    ASSUME Buffered, NEW events \in Seq(Event), Emit(events), asked' = asked
    PROVE  Buffered'
  <1>1. /\ barrier' \in {barrier, barrier \o events}
        /\ staged' \in {staged, staged \o events}
        /\ queue' \in {queue, queue \o events}
    BY DEF Emit, Enqueue
  <1> QED
    BY <1>1, EventTypes DEF Buffered

LEMMA TaskBuffered ==
    ASSUME Buffered, Task
    PROVE  Buffered'
  <1>1. ASSUME NEW p \in Prompts, NEW mode, Send(p, mode)
        PROVE  Buffered'
    <2>1. /\ queue' = queue /\ barrier' = barrier /\ asked' = asked
          /\ staged' = staged \/ staged' = <<>>
      BY <1>1 DEF Send, StreamAgent, Replace, providerVars
    <2> QED
      BY <2>1, EventTypes DEF Buffered
  <1>2. ASSUME NEW p \in Prompts, StartResolves(p)
        PROVE  Buffered'
    <2>1. WithoutStart(staged, p) \in Seq(Event)
      BY WithoutStartType DEF Buffered
    <2>2. /\ queue' \in {queue, queue \o WithoutStart(staged, p)}
          /\ barrier' \in {barrier, barrier \o WithoutStart(staged, p)}
          /\ asked' = asked /\ staged' \in {staged, <<>>}
      BY <1>2 DEF StartResolves, providerVars
    <2> QED
      BY <2>1, <2>2, EventTypes DEF Buffered
  <1>3. ASSUME NEW p \in Prompts, NEW stale, StartRejects(p, stale)
        PROVE  Buffered'
    <2>1. /\ queue' = queue /\ barrier' = barrier /\ asked' = asked
          /\ staged' = staged \/ staged' = <<>>
      BY <1>3 DEF StartRejects
    <2> QED
      BY <2>1, EventTypes DEF Buffered
  <1>4. ASSUME NEW p \in Prompts, StreamEnds(p)
        PROVE  Buffered'
    BY <1>4 DEF StreamEnds, Buffered, providerVars
  <1>5. ASSUME NEW p \in Prompts, SteerStep(p)
        PROVE  Buffered'
    <2>1. CASE SteerAdmitted(p)
      <3>1. /\ queue' = queue /\ staged' = staged /\ barrier' \in {barrier, <<>>}
            /\ asked' \in {asked, asked \cup {p}}
        BY <2>1 DEF SteerAdmitted
      <3> QED
        BY <3>1, EventTypes DEF Buffered
    <2>2. CASE SteerDrained(p)
      BY <2>2 DEF SteerDrained, Buffered, providerVars
    <2>3. ASSUME NEW answer, SteerAnswered(p, answer)
          PROVE  Buffered'
      <3>1. /\ queue' \in {queue, queue \o barrier} /\ staged' \in {staged, staged \o barrier}
            /\ barrier' = <<>> /\ asked' = asked
        BY <2>3 DEF SteerAnswered, providerVars
      <3> QED
        BY <3>1, EventTypes DEF Buffered
    <2> QED
      BY <1>5, <2>1, <2>2, <2>3 DEF SteerStep
  <1>6. ASSUME NEW o \in Stops, Stop(o)
        PROVE  Buffered'
    BY <1>6 DEF Stop, Buffered, providerVars
  <1>7. ASSUME NEW o \in Ops, CancelStep(o)
        PROVE  Buffered'
    <2>1. UNCHANGED bufferVars
      BY <1>7 DEF CancelStep, InterruptAcknowledged, InterruptRefused, CancelCompletes,
            CancelTimesOut, CancelReturns, managerVars, providerVars, bufferVars
    <2> QED
      BY <2>1 DEF Buffered, bufferVars
  <1>8. ASSUME ProviderStep
        PROVE  Buffered'
    <2>1. ASSUME NEW p \in Prompts, ProviderAccepts(p)
          PROVE  Buffered'
      BY <2>1 DEF ProviderAccepts, Buffered, managerVars
    <2>2. ASSUME NEW t \in Turns, ProviderBegins(t)
          PROVE  Buffered'
      <3>1. TurnEvent("turn_started", t) \in Event
        BY EventTypes
      <3> QED
        BY <2>2, <3>1, EventTypes, EmitBuffered DEF ProviderBegins
    <2>3. ASSUME NEW t \in Turns, ProviderOutputs(t)
          PROVE  Buffered'
      <3>1. [type |-> "item", turn |-> t, asked |-> asked] \in Event
        BY EventTypes DEF Buffered
      <3> QED
        BY <2>3, <3>1, EventTypes, EmitBuffered DEF ProviderOutputs
    <2>4. ASSUME NEW t \in Turns, NEW type \in Terminals, ProviderEnds(t, type)
          PROVE  Buffered'
      <3>1. TurnEvent(type, t) \in Event
        BY EventTypes
      <3> QED
        BY <2>4, <3>1, EventTypes, EmitBuffered DEF ProviderEnds
    <2> QED
      BY <1>8, <2>1, <2>2, <2>3, <2>4 DEF ProviderStep
  <1> QED
    BY <1>1, <1>2, <1>3, <1>4, <1>5, <1>6, <1>7, <1>8 DEF Task

LEMMA ContinuationBuffered ==
    ASSUME Buffered, Continuation
    PROVE  Buffered'
  <1>1. /\ queue' = queue /\ barrier' = barrier /\ asked' = asked
        /\ staged' = staged \/ staged' = <<>>
    BY DEF Continuation, CancelStarts, CancelReturns, CancelResumes, SteerStarts, SteerResumes,
           StreamAgent, Replace, providerVars
  <1> QED
    BY <1>1, EventTypes DEF Buffered

-----------------------------------------------------------------------------
(* The inductive invariant and what follows from it.                         *)

IInv == Consistent(agent, pc, captured) /\ Buffered

LEMMA InitIInv == Init => IInv
  <1> SUFFICES ASSUME Init PROVE IInv
    OBVIOUS
  <1>1. /\ agent.lifecycle = "idle" /\ agent.fg = None /\ agent.run = NoRun
        /\ agent.settled = {} /\ agent.finalized = {}
        /\ agent \in Agent
    BY RunTypes DEF Init, Agent
  <1>2. Sound(agent)
    BY <1>1 DEF Sound, RunShape, Owned, NoRun
  <1>3. /\ pc \in [Ops -> Steps] /\ captured \in [Ops -> Run]
        /\ \A o \in Ops : pc[o] = "idle"
        /\ \A p \in Prompts : p \in Ops
    BY RunTypes DEF Init, Steps, Ops
  <1>4. Consistent(agent, pc, captured)
    BY <1>1, <1>2, <1>3 DEF Consistent, NoRun
  <1>5. Buffered
    BY EventTypes DEF Init, Buffered
  <1> QED
    BY <1>4, <1>5 DEF IInv

LEMMA TaskConsistent ==
    ASSUME Consistent(agent, pc, captured), Task
    PROVE  Consistent(agent', pc', captured')
  <1>1. ASSUME NEW p \in Prompts, NEW mode \in Modes, Send(p, mode)
        PROVE  Consistent(agent', pc', captured')
    BY <1>1, SendConsistent
  <1>2. ASSUME NEW p \in Prompts, StartResolves(p) \/ StreamEnds(p) \/ SteerStep(p)
        PROVE  Consistent(agent', pc', captured')
    BY <1>2, StartResolvesConsistent, StreamEndsConsistent, SteerConsistent
  <1>3. ASSUME NEW p \in Prompts, NEW stale \in BOOLEAN, StartRejects(p, stale)
        PROVE  Consistent(agent', pc', captured')
    BY <1>3, StartRejectsConsistent
  <1>4. ASSUME NEW o \in Stops, Stop(o)
        PROVE  Consistent(agent', pc', captured')
    <2>1. /\ o \in Ops /\ pc[o] = "idle" /\ agent' = agent /\ captured' = captured
          /\ Goto(o, "cancelQueued") /\ Advances(agent, agent)
      BY <1>4, AdvancesNothing DEF Stop, Ops, Consistent
    <2> QED
      BY <2>1, MovesOn DEF Steps, CancelSteps
  <1>5. ASSUME NEW o \in Ops, CancelStep(o)
        PROVE  Consistent(agent', pc', captured')
    BY <1>5, CancelStepConsistent
  <1>6. ASSUME ProviderStep
        PROVE  Consistent(agent', pc', captured')
    <2>1. agent' = agent /\ pc' = pc /\ captured' = captured
      BY <1>6 DEF ProviderStep, ProviderAccepts, ProviderBegins, ProviderOutputs, ProviderEnds,
            Emit, managerVars, opVars
    <2> QED
      BY <2>1
  <1> QED
    BY <1>1, <1>2, <1>3, <1>4, <1>5, <1>6 DEF Task

LEMMA NextIInv == IInv /\ [Next]_vars => IInv'
  <1> SUFFICES ASSUME IInv, [Next]_vars
               PROVE  Consistent(agent', pc', captured') /\ Buffered'
    BY DEF IInv
  <1>1. Consistent(agent, pc, captured) /\ Buffered /\ Sound(agent)
    BY DEF IInv, Consistent
  <1>2. ASSUME Continuation
        PROVE  Consistent(agent', pc', captured') /\ Buffered'
    <2>1. ASSUME NEW o \in Ops, CancelStarts(o) \/ CancelResumes(o)
          PROVE  Consistent(agent', pc', captured')
      BY <1>1, <2>1, CancelStartsConsistent, CancelResumesConsistent
    <2>2. ASSUME NEW p \in Prompts, SteerStarts(p) \/ SteerResumes(p)
          PROVE  Consistent(agent', pc', captured')
      BY <1>1, <2>2, SteerConsistent
    <2>3. Consistent(agent', pc', captured')
      BY <1>2, <2>1, <2>2 DEF Continuation
    <2> QED
      BY <1>1, <1>2, <2>3, ContinuationBuffered
  <1>3. ASSUME DispatchNext
        PROVE  Consistent(agent', pc', captured') /\ Buffered'
    <2>1. /\ queue \in Seq(Event) /\ queue # <<>> /\ queue' = Tail(queue)
          /\ agent' = Handle(agent, Head(queue))
          /\ UNCHANGED <<staged, barrier, asked, pc, captured>>
      BY <1>1, <1>3 DEF DispatchNext, Buffered, opVars, providerVars
    <2>2. Head(queue) \in Event /\ Tail(queue) \in Seq(Event)
      BY <2>1
    <2>3. Advances(agent, agent')
      BY <1>1, <2>1, <2>2, HandleAdvances
    <2>4. Consistent(agent', pc', captured')
      BY <1>1, <2>1, <2>3, StaysPut
    <2>5. Buffered'
      BY <1>1, <2>1, <2>2 DEF Buffered
    <2> QED
      BY <2>4, <2>5
  <1>4. ASSUME Task
        PROVE  Consistent(agent', pc', captured') /\ Buffered'
    BY <1>1, <1>4, TaskConsistent, TaskBuffered
  <1>5. ASSUME UNCHANGED vars
        PROVE  Consistent(agent', pc', captured') /\ Buffered'
    <2>1. UNCHANGED <<agent, pc, captured, staged, queue, barrier, asked>>
      BY <1>5 DEF vars, managerVars, opVars, providerVars
    <2> QED
      BY <1>1, <2>1 DEF Buffered
  <1> QED
    BY <1>2, <1>3, <1>4, <1>5 DEF Next

\* The runs, the turns and the operations of an agent stay consistent.
THEOREM Invariant == Spec => []IInv
  BY InitIInv, NextIInv, PTL DEF Spec

\* However starts, terminal events and forced cancellations interleave, the
\* open foreground turn is the turn of the tracked run, is the active one, is
\* not over and the agent is running.
THEOREM TurnOwned == Spec => []TurnOwnership
  <1>1. IInv => TurnOwnership
    BY DEF IInv, Consistent, Sound, Owned, TurnOwnership
  <1> QED
    BY <1>1, Invariant, PTL

\* A cancellation never ends a later run than the one it captured.
THEOREM CancellationKeepsToItsRun == Spec => []CapturedRunIsTracked
  <1>1. IInv => CapturedRunIsTracked
    BY DEF IInv, Consistent, CapturedRunIsTracked, IsCancelling, HasSettled
  <1> QED
    BY <1>1, Invariant, PTL

\* A prompt that is being started, and was not cancelled, owns the tracked run.
THEOREM StartOwnsRun == Spec => []StartingRunIsTracked
  <1>1. IInv => StartingRunIsTracked
    BY DEF IInv, Consistent, StartingRunIsTracked, IsLive
  <1> QED
    BY <1>1, Invariant, PTL

-----------------------------------------------------------------------------
(* The lane of foreground mutations and the continuations.                   *)

Queued == {"cancelQueued", "steerQueued"}
InLane == {"interrupting", "settling", "admitting", "steering", "draining"}

\* Mutations wait in the lane behind the one that runs, which is its head; at
\* most one continuation starts a mutation, and that is the head.
LaneInOrder(ln, mc, at) ==
    /\ ln \in Seq(Ops) /\ mc \in Seq({"start", "resume"} \X Ops) /\ at \in [Ops -> Steps]
    /\ \A i \in 1 .. Len(ln) : at[ln[i]] \in Queued \/ (i = 1 /\ at[ln[i]] \in InLane)
    /\ \A i, j \in 1 .. Len(ln) : ln[i] = ln[j] => i = j
    /\ \A o \in Ops : at[o] \in InLane => Len(ln) > 0 /\ ln[1] = o
    /\ \A i \in 1 .. Len(mc) : mc[i][1] = "start" =>
          Len(ln) > 0 /\ mc[i][2] = ln[1] /\ at[ln[1]] \in Queued
    /\ \A i, j \in 1 .. Len(mc) : mc[i][1] = "start" /\ mc[j][1] = "start" => i = j

\* A continuation that starts nothing is taken.
LEMMA LanePops ==
    ASSUME NEW ln, NEW mc, NEW at, LaneInOrder(ln, mc, at), mc # <<>>
    PROVE  LaneInOrder(ln, Tail(mc), at)
  <1>1. /\ Tail(mc) \in Seq({"start", "resume"} \X Ops) /\ Len(Tail(mc)) = Len(mc) - 1
        /\ \A i \in 1 .. Len(Tail(mc)) : Tail(mc)[i] = mc[i + 1] /\ i + 1 \in 1 .. Len(mc)
    BY DEF LaneInOrder
  <1> DEFINE m == Tail(mc)
  <1> HIDE DEF m
  <1>2. \A i \in 1 .. Len(m) : m[i][1] = "start" =>
          Len(ln) > 0 /\ m[i][2] = ln[1] /\ at[ln[1]] \in Queued
    BY <1>1 DEF LaneInOrder, m
  <1>3. \A i, j \in 1 .. Len(m) : m[i][1] = "start" /\ m[j][1] = "start" => i = j
    BY <1>1 DEF LaneInOrder, m
  <1>4. LaneInOrder(ln, m, at)
    BY <1>1, <1>2, <1>3 DEF LaneInOrder, m
  <1> QED
    BY <1>4 DEF m

\* After the continuation that starts the head, no other one does.
LEMMA NoOtherStart ==
    ASSUME NEW ln, NEW mc, NEW at, LaneInOrder(ln, mc, at), NEW o \in Ops,
           mc # <<>>, Head(mc) = <<"start", o>>
    PROVE  /\ Len(ln) > 0 /\ ln[1] = o /\ at[o] \in Queued
           /\ \A i \in 1 .. Len(Tail(mc)) : Tail(mc)[i][1] # "start"
  <1>1. 1 \in 1 .. Len(mc) /\ mc[1] = <<"start", o>>
    BY DEF LaneInOrder
  <1>2. \A i \in 1 .. Len(Tail(mc)) : Tail(mc)[i] = mc[i + 1] /\ i + 1 \in 1 .. Len(mc) /\ i + 1 # 1
    BY DEF LaneInOrder
  <1>3. \A i \in 1 .. Len(Tail(mc)) : mc[i + 1][1] # "start"
    BY <1>1, <1>2 DEF LaneInOrder
  <1> QED
    BY <1>1, <1>2, <1>3 DEF LaneInOrder

\* An operation goes on without entering or leaving the lane.
LEMMA LaneUndisturbed ==
    ASSUME NEW ln, NEW mc, NEW at, LaneInOrder(ln, mc, at), NEW at2 \in [Ops -> Steps],
           \A o \in Ops : \/ at2[o] = at[o]
                          \/ at[o] \in InLane /\ at2[o] \in InLane
                          \/ at[o] \notin Queued \cup InLane /\ at2[o] \notin Queued \cup InLane
    PROVE  LaneInOrder(ln, mc, at2)
  <1>1. \A i \in 1 .. Len(ln) : ln[i] \in Ops
    BY DEF LaneInOrder
  <1>2. Queued \cap InLane = {}
    BY DEF Queued, InLane
  <1>3. \A i \in 1 .. Len(ln) : at2[ln[i]] \in Queued \/ (i = 1 /\ at2[ln[i]] \in InLane)
    BY <1>1, <1>2 DEF LaneInOrder
  <1>4. \A o \in Ops : at2[o] \in InLane => Len(ln) > 0 /\ ln[1] = o
    BY <1>2 DEF LaneInOrder
  <1>5. \A i \in 1 .. Len(mc) : mc[i][1] = "start" =>
          Len(ln) > 0 /\ mc[i][2] = ln[1] /\ at2[ln[1]] \in Queued
    BY <1>1, <1>2 DEF LaneInOrder
  <1> QED
    BY <1>3, <1>4, <1>5 DEF LaneInOrder

\* The head of the lane starts.
LEMMA LaneStarts ==
    ASSUME NEW ln, NEW mc, NEW at, LaneInOrder(ln, mc, at), NEW o \in Ops,
           mc # <<>>, Head(mc) = <<"start", o>>, NEW l \in InLane
    PROVE  LaneInOrder(ln, Tail(mc), [at EXCEPT ![o] = l])
  <1> DEFINE at2 == [at EXCEPT ![o] = l]
             m == Tail(mc)
  <1>1. LaneInOrder(ln, m, at)
    BY LanePops
  <1>2. /\ Len(ln) > 0 /\ ln[1] = o /\ at[o] \in Queued
        /\ \A i \in 1 .. Len(m) : m[i][1] # "start"
    BY NoOtherStart
  <1>3. /\ at2 \in [Ops -> Steps] /\ at2[o] = l
        /\ \A x \in Ops : x # o => at2[x] = at[x]
    BY DEF LaneInOrder, Steps, CancelSteps, SteerSteps, InLane
  <1> HIDE DEF m, at2
  <1>4. \A i \in 1 .. Len(ln) : at2[ln[i]] \in Queued \/ (i = 1 /\ at2[ln[i]] \in InLane)
    <2>1. \A i \in 1 .. Len(ln) : ln[i] \in Ops /\ (ln[i] = o => i = 1)
      BY <1>1, <1>2 DEF LaneInOrder
    <2> QED
      BY <1>1, <1>3, <2>1 DEF LaneInOrder
  <1>5. \A x \in Ops : at2[x] \in InLane => Len(ln) > 0 /\ ln[1] = x
    BY <1>1, <1>2, <1>3 DEF LaneInOrder
  <1>6. LaneInOrder(ln, m, at2)
    BY <1>1, <1>2, <1>3, <1>4, <1>5 DEF LaneInOrder
  <1> QED
    BY <1>6 DEF m, at2

\* An operation enters the lane.
LEMMA LaneEnters ==
    ASSUME NEW ln, NEW mc, NEW at, LaneInOrder(ln, mc, at), NEW o \in Ops,
           at[o] \notin Queued \cup InLane, NEW l \in Queued
    PROVE  LaneInOrder(Append(ln, o), IF ln = <<>> THEN Append(mc, <<"start", o>>) ELSE mc,
                       [at EXCEPT ![o] = l])
  <1> DEFINE at2 == [at EXCEPT ![o] = l]
             n == Append(ln, o)
             m == IF ln = <<>> THEN Append(mc, <<"start", o>>) ELSE mc
  <1>1. /\ at2 \in [Ops -> Steps] /\ at2[o] \in Queued
        /\ \A x \in Ops : x # o => at2[x] = at[x]
    BY DEF LaneInOrder, Steps, CancelSteps, SteerSteps, Queued
  <1>2. /\ n \in Seq(Ops) /\ Len(n) = Len(ln) + 1 /\ n[Len(n)] = o
        /\ \A i \in 1 .. Len(ln) : n[i] = ln[i]
        /\ \A i \in 1 .. Len(n) : i = Len(n) \/ i \in 1 .. Len(ln)
        /\ Len(ln) \in Nat
    BY DEF LaneInOrder
  <1>3. \A i \in 1 .. Len(ln) : ln[i] \in Ops /\ ln[i] # o
    BY DEF LaneInOrder
  <1>4. /\ m \in Seq({"start", "resume"} \X Ops)
        /\ \A i \in 1 .. Len(m) :
              (i \in 1 .. Len(mc) /\ m[i] = mc[i]) \/ (Len(ln) = 0 /\ m[i] = <<"start", o>>
                                                        /\ i = Len(mc) + 1)
    <2> DEFINE e == <<"start", o>>
    <2>0. mc \in Seq({"start", "resume"} \X Ops) /\ e \in {"start", "resume"} \X Ops
      BY DEF LaneInOrder
    <2>1. CASE ln = <<>>
      <3>1. m = Append(mc, e) /\ Len(ln) = 0
        BY <2>1
      <3> HIDE DEF m, e
      <3>2. /\ m \in Seq({"start", "resume"} \X Ops) /\ Len(m) = Len(mc) + 1
            /\ m[Len(mc) + 1] = e /\ \A i \in 1 .. Len(mc) : m[i] = mc[i]
        BY <2>0, <3>1
      <3>3. \A i \in 1 .. Len(m) : i \in 1 .. Len(mc) \/ i = Len(mc) + 1
        BY <2>0, <3>2
      <3>4. \A i \in 1 .. Len(m) :
              (i \in 1 .. Len(mc) /\ m[i] = mc[i]) \/ (Len(ln) = 0 /\ m[i] = e
                                                        /\ i = Len(mc) + 1)
        BY <3>1, <3>2, <3>3
      <3> QED
        BY <3>2, <3>4 DEF e
    <2>2. CASE ln # <<>>
      <3>1. m = mc
        BY <2>2
      <3> HIDE DEF m
      <3> QED
        BY <2>0, <3>1
    <2> QED
      BY <2>1, <2>2
  <1> HIDE DEF at2, n, m
  <1>5. \A i \in 1 .. Len(n) : at2[n[i]] \in Queued \/ (i = 1 /\ at2[n[i]] \in InLane)
    BY <1>1, <1>2, <1>3 DEF LaneInOrder
  <1>6. \A i, j \in 1 .. Len(n) : n[i] = n[j] => i = j
    BY <1>2, <1>3 DEF LaneInOrder
  <1>7. \A x \in Ops : at2[x] \in InLane => Len(n) > 0 /\ n[1] = x
    <2>1. Queued \cap InLane = {}
      BY DEF Queued, InLane
    <2>2. \A x \in Ops : at2[x] \in InLane => Len(ln) > 0 /\ ln[1] = x
      BY <1>1, <2>1 DEF LaneInOrder
    <2> QED
      BY <1>2, <2>2
  <1>8. \A i \in 1 .. Len(m) : m[i][1] = "start" =>
          Len(n) > 0 /\ m[i][2] = n[1] /\ at2[n[1]] \in Queued
    <2> SUFFICES ASSUME NEW i \in 1 .. Len(m), m[i][1] = "start"
                 PROVE  Len(n) > 0 /\ m[i][2] = n[1] /\ at2[n[1]] \in Queued
      OBVIOUS
    <2>1. CASE i \in 1 .. Len(mc) /\ m[i] = mc[i]
      <3>1. Len(ln) > 0 /\ mc[i][2] = ln[1] /\ at[ln[1]] \in Queued
        BY <2>1 DEF LaneInOrder
      <3>2. 1 \in 1 .. Len(ln)
        BY <1>2, <3>1
      <3> QED
        BY <1>1, <1>2, <1>3, <2>1, <3>1, <3>2
    <2>2. CASE Len(ln) = 0 /\ m[i] = <<"start", o>>
      BY <1>1, <1>2, <2>2
    <2> QED
      BY <1>4, <2>1, <2>2
  <1>9. \A i, j \in 1 .. Len(m) : m[i][1] = "start" /\ m[j][1] = "start" => i = j
    <2>1. Len(ln) = 0 => \A i \in 1 .. Len(mc) : mc[i][1] # "start"
      BY DEF LaneInOrder
    <2>2. \A i, j \in 1 .. Len(mc) : mc[i][1] = "start" /\ mc[j][1] = "start" => i = j
      BY DEF LaneInOrder
    <2> QED
      BY <1>4, <2>1, <2>2
  <1>10. LaneInOrder(n, m, at2)
    BY <1>1, <1>2, <1>4, <1>5, <1>6, <1>7, <1>8, <1>9 DEF LaneInOrder
  <1> QED
    BY <1>10 DEF n, m, at2

\* The head leaves the lane, the next operation is told to start and the
\* caller of the one that left to resume.
LEMMA LaneLeaves ==
    ASSUME NEW ln, NEW m, NEW at, NEW o \in Ops, NEW at2 \in [Ops -> Steps],
           ln \in Seq(Ops), Len(ln) > 0, ln[1] = o,
           m \in Seq({"start", "resume"} \X Ops), \A i \in 1 .. Len(m) : m[i][1] # "start",
           \A i \in 2 .. Len(ln) : at[ln[i]] \in Queued,
           \A i, j \in 1 .. Len(ln) : ln[i] = ln[j] => i = j,
           \A x \in Ops : at[x] \in InLane => x = o,
           at2[o] \notin Queued \cup InLane,
           \A x \in Ops : x # o => at2[x] = at[x]
    PROVE  LaneInOrder(Tail(ln),
                       m \o (IF Len(ln) > 1 THEN << <<"start", ln[2]>> >> ELSE <<>>)
                         \o << <<"resume", o>> >>,
                       at2)
  <1> DEFINE T == {"start", "resume"} \X Ops
             starts == IF Len(ln) > 1 THEN << <<"start", ln[2]>> >> ELSE <<>>
             resumes == << <<"resume", o>> >>
             n == Tail(ln)
             c == m \o starts
             r == c \o resumes
  <1>1. /\ n \in Seq(Ops) /\ Len(n) = Len(ln) - 1
        /\ \A i \in 1 .. Len(n) : n[i] = ln[i + 1] /\ i + 1 \in 2 .. Len(ln) /\ i + 1 \in 1 .. Len(ln)
        /\ \A i \in 2 .. Len(ln) : ln[i] \in Ops /\ ln[i] # o
    <2>1. \A i \in 2 .. Len(ln) : i \in 1 .. Len(ln) /\ i # 1 /\ 1 \in 1 .. Len(ln)
      OBVIOUS
    <2> QED
      BY <2>1
  <1>2. starts \in Seq(T) /\ resumes \in Seq(T) /\ Len(resumes) = 1 /\ resumes[1] = <<"resume", o>>
    <2>1. Len(ln) > 1 => ln[2] \in Ops
      OBVIOUS
    <2>2. resumes \in Seq(T) /\ Len(resumes) = 1 /\ resumes[1] = <<"resume", o>>
      OBVIOUS
    <2>3. CASE Len(ln) > 1
      <3>1. <<"start", ln[2]>> \in T
        BY <2>1, <2>3
      <3>2. starts = << <<"start", ln[2]>> >>
        BY <2>3
      <3> HIDE DEF T
      <3>3. << <<"start", ln[2]>> >> \in Seq(T)
        BY <3>1
      <3> QED
        BY <2>2, <3>2, <3>3
    <2>4. CASE ~ (Len(ln) > 1)
      BY <2>2, <2>4
    <2> QED
      BY <2>3, <2>4
  <1>3. /\ Len(ln) > 1 => Len(starts) = 1 /\ starts[1] = <<"start", ln[2]>>
        /\ ~ (Len(ln) > 1) => Len(starts) = 0
    OBVIOUS
  <1> HIDE DEF n, starts, resumes, T
  <1>4. /\ c \in Seq(T) /\ Len(c) = Len(m) + Len(starts)
        /\ \A i \in 1 .. Len(m) : c[i] = m[i]
        /\ \A i \in 1 .. Len(starts) : c[i + Len(m)] = starts[i]
    BY <1>2 DEF T
  <1>5. /\ Len(m) \in Nat /\ Len(starts) \in Nat
    BY <1>2
  <1>6. \A i \in 1 .. Len(c) : c[i][1] = "start" =>
           i = Len(m) + 1 /\ Len(ln) > 1 /\ c[i] = <<"start", ln[2]>>
    <2> SUFFICES ASSUME NEW i \in 1 .. Len(c), c[i][1] = "start"
                 PROVE  i = Len(m) + 1 /\ Len(ln) > 1 /\ c[i] = <<"start", ln[2]>>
      OBVIOUS
    <2>1. i \notin 1 .. Len(m)
      BY <1>4
    <2>2. i - Len(m) \in 1 .. Len(starts) /\ i = (i - Len(m)) + Len(m)
      BY <1>4, <1>5, <2>1
    <2>3. Len(ln) > 1 /\ Len(starts) = 1
      BY <1>3, <2>2
    <2> QED
      BY <1>3, <1>4, <2>2, <2>3
  <1> HIDE DEF c
  <1>7. /\ r \in Seq(T) /\ Len(r) = Len(c) + 1 /\ Len(c) \in Nat
        /\ \A i \in 1 .. Len(c) : r[i] = c[i]
        /\ r[Len(c) + 1] = <<"resume", o>>
    <2>1. c \in Seq(T) /\ resumes \in Seq(T)
      BY <1>2, <1>4
    <2>2. /\ r \in Seq(T) /\ Len(r) = Len(c) + Len(resumes) /\ Len(c) \in Nat
          /\ \A i \in 1 .. Len(c) : r[i] = c[i]
      BY <2>1
    <2>3. 1 \in 1 .. Len(resumes) => r[Len(c) + 1] = resumes[1]
      BY <2>1
    <2> QED
      BY <1>2, <2>2, <2>3
  <1> HIDE DEF r
  <1>8. \A i \in 1 .. Len(r) : r[i][1] = "start" =>
           i = Len(m) + 1 /\ Len(ln) > 1 /\ r[i] = <<"start", ln[2]>>
    <2> SUFFICES ASSUME NEW i \in 1 .. Len(r), r[i][1] = "start"
                 PROVE  i = Len(m) + 1 /\ Len(ln) > 1 /\ r[i] = <<"start", ln[2]>>
      OBVIOUS
    <2>1. i \in 1 .. Len(c) \/ i = Len(c) + 1
      BY <1>7
    <2>2. i \in 1 .. Len(c)
      BY <1>7, <2>1
    <2> QED
      BY <1>6, <1>7, <2>2
  <1>9. \A i \in 1 .. Len(n) : at2[n[i]] \in Queued
    BY <1>1
  <1>10. \A i, j \in 1 .. Len(n) : n[i] = n[j] => i = j
    BY <1>1
  <1>11. \A x \in Ops : at2[x] \notin InLane
    OBVIOUS
  <1>12. \A i \in 1 .. Len(r) : r[i][1] = "start" =>
            Len(n) > 0 /\ r[i][2] = n[1] /\ at2[n[1]] \in Queued
    <2> SUFFICES ASSUME NEW i \in 1 .. Len(r), r[i][1] = "start"
                 PROVE  Len(n) > 0 /\ r[i][2] = n[1] /\ at2[n[1]] \in Queued
      OBVIOUS
    <2>1. Len(ln) > 1 /\ r[i][2] = ln[2]
      BY <1>8
    <2>2. 1 \in 1 .. Len(n) /\ n[1] = ln[2] /\ Len(n) > 0
      BY <1>1, <2>1
    <2> QED
      BY <1>9, <2>1, <2>2
  <1>13. \A i, j \in 1 .. Len(r) : r[i][1] = "start" /\ r[j][1] = "start" => i = j
    BY <1>8
  <1>14. LaneInOrder(n, r, at2)
    BY <1>1, <1>7, <1>9, <1>10, <1>11, <1>12, <1>13 DEF LaneInOrder, T
  <1> QED
    BY <1>14 DEF n, r, c, starts, resumes

LaneInv == LaneInOrder(lane, micro, pc)

\* Only operations of the lane run it.
LEMMA EnterLaneInv ==
    ASSUME NEW m, LaneInOrder(lane, m, pc), NEW o \in Ops, pc[o] \notin Queued \cup InLane,
           NEW l \in Queued, EnterLane(o, m), Goto(o, l)
    PROVE  LaneInOrder(lane', micro', pc')
  <1>1. /\ lane' = Append(lane, o) /\ pc' = [pc EXCEPT ![o] = l]
        /\ micro' = IF lane = <<>> THEN Append(m, <<"start", o>>) ELSE m
    BY DEF EnterLane, Goto
  <1> QED
    BY <1>1, LaneEnters

LEMMA LeaveLaneInv ==
    ASSUME LaneInv, NEW m \in Seq({"start", "resume"} \X Ops), NEW o \in Ops,
           \A i \in 1 .. Len(m) : m[i][1] # "start",
           Len(lane) > 0, lane[1] = o,
           NEW l \in Steps \ (Queued \cup InLane), LeaveLane(o, m), Goto(o, l)
    PROVE  LaneInOrder(lane', micro', pc')
  <1>1. /\ lane' = Tail(lane) /\ pc' = [pc EXCEPT ![o] = l]
        /\ micro' = m \o (IF Len(lane) > 1 THEN << <<"start", lane[2]>> >> ELSE <<>>)
                      \o << <<"resume", o>> >>
    BY DEF LeaveLane, Goto
  <1>2. /\ pc' \in [Ops -> Steps] /\ pc'[o] \notin Queued \cup InLane
        /\ \A x \in Ops : x # o => pc'[x] = pc[x]
    BY <1>1 DEF LaneInv, LaneInOrder
  <1>3. /\ lane \in Seq(Ops)
        /\ \A i \in 2 .. Len(lane) : pc[lane[i]] \in Queued
        /\ \A i, j \in 1 .. Len(lane) : lane[i] = lane[j] => i = j
        /\ \A x \in Ops : pc[x] \in InLane => x = o
    BY DEF LaneInv, LaneInOrder
  <1> QED
    BY <1>1, <1>2, <1>3, LaneLeaves

\* What runs in the lane is its head and nothing is about to start.
LEMMA RunningIsHead ==
    ASSUME LaneInv, NEW o \in Ops, pc[o] \in InLane
    PROVE  /\ Len(lane) > 0 /\ lane[1] = o
           /\ micro \in Seq({"start", "resume"} \X Ops)
           /\ \A i \in 1 .. Len(micro) : micro[i][1] # "start"
  BY DEF LaneInv, LaneInOrder, Queued, InLane

\* An operation moves, inside the lane or outside of it.
LEMMA GotoInv ==
    ASSUME NEW m, LaneInOrder(lane, m, pc), NEW o \in Ops, NEW l \in Steps, Goto(o, l),
           \/ pc[o] \in InLane /\ l \in InLane
           \/ pc[o] \notin Queued \cup InLane /\ l \notin Queued \cup InLane,
           lane' = lane, micro' = m
    PROVE  LaneInOrder(lane', micro', pc')
  <1>1. /\ pc' \in [Ops -> Steps] /\ pc'[o] = l
        /\ \A x \in Ops : x # o => pc'[x] = pc[x]
    BY DEF LaneInOrder, Goto
  <1> QED
    BY <1>1, LaneUndisturbed

\* CancelStarts and SteerStarts.
LEMMA StartInv ==
    ASSUME LaneInv, NEW o \in Ops, Continues("start", o), NEW l \in InLane, Goto(o, l),
           lane' = lane, micro' = Tail(micro)
    PROVE  LaneInOrder(lane', micro', pc')
  BY LaneStarts DEF LaneInv, Continues, Goto

LEMMA StepNames ==
    /\ Queued \subseteq Steps /\ InLane \subseteq Steps
    /\ {"idle", "starting", "streaming", "returned", "steerReturned", "done", "failed"}
          \subseteq Steps \ (Queued \cup InLane)
  BY DEF Queued, InLane, Steps, PromptSteps, CancelSteps, SteerSteps

\* A prompt that starts its run, or is refused, is not in the lane.
LEMMA StreamAgentLane ==
    ASSUME NEW m, LaneInOrder(lane, m, pc), NEW p \in Prompts, pc[p] \notin Queued \cup InLane,
           NEW refused, StreamAgent(agent, p, refused), lane' = lane, micro' = m
    PROVE  LaneInOrder(lane', micro', pc')
  <1>1. p \in Ops /\ (Goto(p, "failed") \/ Goto(p, "starting"))
    BY DEF StreamAgent, Ops
  <1>2. CASE Goto(p, "failed")
    BY <1>1, <1>2, StepNames, GotoInv
  <1>3. CASE Goto(p, "starting")
    BY <1>1, <1>3, StepNames, GotoInv
  <1> QED
    BY <1>1, <1>2, <1>3

LEMMA SendLane ==
    ASSUME LaneInv, NEW p \in Prompts, NEW mode, Send(p, mode)
    PROVE  LaneInOrder(lane', micro', pc')
  <1>1. /\ p \in Ops /\ LaneInOrder(lane, micro, pc)
        /\ pc[p] \notin Queued \cup InLane
    BY DEF Send, Ops, LaneInv, Queued, InLane
  <1>2. \/ StreamAgent(agent, p, agent) /\ lane' = lane /\ micro' = micro
        \/ EnterLane(p, micro) /\ Goto(p, "steerQueued")
        \/ EnterLane(p, micro) /\ Goto(p, "cancelQueued")
    BY DEF Send, Replace, laneVars
  <1>3. CASE StreamAgent(agent, p, agent) /\ lane' = lane /\ micro' = micro
    BY <1>1, <1>3, StreamAgentLane
  <1>4. CASE EnterLane(p, micro) /\ Goto(p, "steerQueued")
    BY <1>1, <1>4, EnterLaneInv DEF Queued
  <1>5. CASE EnterLane(p, micro) /\ Goto(p, "cancelQueued")
    BY <1>1, <1>5, EnterLaneInv DEF Queued
  <1> QED
    BY <1>2, <1>3, <1>4, <1>5

LEMMA StopLane ==
    ASSUME LaneInv, NEW o \in Stops, Stop(o)
    PROVE  LaneInOrder(lane', micro', pc')
  <1>1. /\ o \in Ops /\ LaneInOrder(lane, micro, pc) /\ pc[o] \notin Queued \cup InLane
        /\ EnterLane(o, micro) /\ Goto(o, "cancelQueued") /\ "cancelQueued" \in Queued
    BY DEF Stop, Ops, LaneInv, Queued, InLane
  <1> QED
    BY <1>1, EnterLaneInv

\* Starts and streams happen outside of the lane.
LEMMA StreamLane ==
    ASSUME LaneInv, NEW p \in Prompts, NEW stale,
           StartResolves(p) \/ StartRejects(p, stale) \/ StreamEnds(p)
    PROVE  LaneInOrder(lane', micro', pc')
  <1>1. /\ p \in Ops /\ LaneInOrder(lane, micro, pc) /\ pc[p] \notin Queued \cup InLane
        /\ lane' = lane /\ micro' = micro
        /\ Goto(p, "failed") \/ Goto(p, "streaming") \/ Goto(p, "done")
    BY DEF StartResolves, StartRejects, StreamEnds, Ops, LaneInv, Queued, InLane, laneVars
  <1>2. CASE Goto(p, "failed")
    BY <1>1, <1>2, StepNames, GotoInv
  <1>3. CASE Goto(p, "streaming")
    BY <1>1, <1>3, StepNames, GotoInv
  <1>4. CASE Goto(p, "done")
    BY <1>1, <1>4, StepNames, GotoInv
  <1> QED
    BY <1>1, <1>2, <1>3, <1>4

LEMMA CancelLane ==
    ASSUME LaneInv, NEW o \in Ops, CancelStarts(o) \/ CancelStep(o) \/ CancelResumes(o)
    PROVE  LaneInOrder(lane', micro', pc')
  <1>1. CASE CancelStarts(o)
    <2>1. pc[o] = "cancelQueued" /\ Continues("start", o)
      BY <1>1 DEF CancelStarts
    <2>2. CASE Goto(o, "interrupting") /\ micro' = Tail(micro) /\ lane' = lane
      BY <2>1, <2>2, StartInv DEF InLane
    <2>3. CASE LeaveLane(o, Tail(micro)) /\ Goto(o, "returned")
      <3>1. Tail(micro) \in Seq({"start", "resume"} \X Ops)
        BY <2>1 DEF LaneInv, LaneInOrder, Continues
      <3>2. /\ Len(lane) > 0 /\ lane[1] = o
            /\ \A i \in 1 .. Len(Tail(micro)) : Tail(micro)[i][1] # "start"
        BY <2>1, NoOtherStart DEF LaneInv, Continues
      <3> QED
        BY <2>3, <3>1, <3>2, StepNames, LeaveLaneInv
    <2> QED
      BY <1>1, <2>2, <2>3 DEF CancelStarts, CancelReturns
  <1>2. CASE CancelStep(o)
    <2>1. CASE Goto(o, "settling") /\ pc[o] = "interrupting" /\ lane' = lane /\ micro' = micro
      <3>1. LaneInOrder(lane, micro, pc) /\ "settling" \in InLane /\ "interrupting" \in InLane
        BY DEF LaneInv, InLane
      <3> QED
        BY <2>1, <3>1, StepNames, GotoInv
    <2>2. CASE LeaveLane(o, micro) /\ Goto(o, "returned") /\ pc[o] = "settling"
      <3>1. pc[o] \in InLane
        BY <2>2 DEF InLane
      <3> QED
        BY <2>2, <3>1, RunningIsHead, StepNames, LeaveLaneInv
    <2> QED
      BY <1>2, <2>1, <2>2 DEF CancelStep, InterruptAcknowledged, InterruptRefused,
          CancelCompletes, CancelTimesOut, CancelReturns, managerVars, laneVars
  <1>3. CASE CancelResumes(o)
    <2>1. /\ LaneInOrder(lane, Tail(micro), pc) /\ pc[o] \notin Queued \cup InLane
          /\ lane' = lane /\ micro' = Tail(micro)
      BY <1>3, LanePops DEF CancelResumes, Continues, LaneInv, Queued, InLane
    <2>2. CASE Goto(o, "done")
      BY <2>1, <2>2, StepNames, GotoInv
    <2>3. CASE Goto(o, "failed")
      BY <2>1, <2>3, StepNames, GotoInv
    <2>4. ASSUME NEW refused, o \in Prompts, StreamAgent(agent, o, refused)
          PROVE  LaneInOrder(lane', micro', pc')
      BY <2>1, <2>4, StreamAgentLane
    <2> QED
      BY <1>3, <2>2, <2>3, <2>4 DEF CancelResumes
  <1> QED
    BY <1>1, <1>2, <1>3

LEMMA SteerLane ==
    ASSUME LaneInv, NEW p \in Prompts, SteerStarts(p) \/ SteerStep(p) \/ SteerResumes(p)
    PROVE  LaneInOrder(lane', micro', pc')
  <1>1. p \in Ops
    BY DEF Ops
  <1>2. CASE SteerStarts(p)
    BY <1>1, <1>2, StartInv DEF SteerStarts, InLane
  <1>3. CASE SteerStep(p)
    <2>1. pc[p] \in InLane /\ LaneInOrder(lane, micro, pc)
      BY <1>3 DEF SteerStep, SteerAdmitted, SteerDrained, SteerAnswered, InLane, LaneInv
    <2>2. \/ (Goto(p, "steering") \/ Goto(p, "draining")) /\ lane' = lane /\ micro' = micro
          \/ LeaveLane(p, micro) /\ Goto(p, "steerReturned")
      BY <1>3 DEF SteerStep, SteerAdmitted, SteerDrained, SteerAnswered, laneVars
    <2>3. CASE Goto(p, "steering") /\ lane' = lane /\ micro' = micro
      BY <1>1, <2>1, <2>3, StepNames, GotoInv DEF InLane
    <2>4. CASE Goto(p, "draining") /\ lane' = lane /\ micro' = micro
      BY <1>1, <2>1, <2>4, StepNames, GotoInv DEF InLane
    <2>5. CASE LeaveLane(p, micro) /\ Goto(p, "steerReturned")
      BY <1>1, <2>1, <2>5, RunningIsHead, StepNames, LeaveLaneInv
    <2> QED
      BY <2>2, <2>3, <2>4, <2>5
  <1>4. CASE SteerResumes(p)
    <2>1. LaneInOrder(lane, Tail(micro), pc) /\ pc[p] \notin Queued \cup InLane
      BY <1>4, LanePops DEF SteerResumes, Continues, LaneInv, Queued, InLane
    <2>2. \/ (Goto(p, "done") \/ Goto(p, "failed")) /\ lane' = lane /\ micro' = Tail(micro)
          \/ EnterLane(p, Tail(micro)) /\ Goto(p, "cancelQueued")
          \/ StreamAgent(agent, p, agent) /\ lane' = lane /\ micro' = Tail(micro)
      BY <1>4 DEF SteerResumes, Replace
    <2>3. CASE Goto(p, "done") /\ lane' = lane /\ micro' = Tail(micro)
      BY <1>1, <2>1, <2>3, StepNames, GotoInv
    <2>4. CASE Goto(p, "failed") /\ lane' = lane /\ micro' = Tail(micro)
      BY <1>1, <2>1, <2>4, StepNames, GotoInv
    <2>5. CASE EnterLane(p, Tail(micro)) /\ Goto(p, "cancelQueued")
      BY <1>1, <2>1, <2>5, EnterLaneInv DEF Queued
    <2>6. CASE StreamAgent(agent, p, agent) /\ lane' = lane /\ micro' = Tail(micro)
      BY <2>1, <2>6, StreamAgentLane
    <2> QED
      BY <2>2, <2>3, <2>4, <2>5, <2>6
  <1> QED
    BY <1>2, <1>3, <1>4

LEMMA NextLane == LaneInv /\ [Next]_vars => LaneInv'
  <1> SUFFICES ASSUME LaneInv, [Next]_vars
               PROVE  LaneInOrder(lane', micro', pc')
    BY DEF LaneInv
  <1>1. CASE Continuation
    BY <1>1, CancelLane, SteerLane DEF Continuation
  <1>2. ASSUME Task
        PROVE  LaneInOrder(lane', micro', pc')
    <2>1. ASSUME ProviderStep
          PROVE  LaneInOrder(lane', micro', pc')
      <3>1. lane' = lane /\ micro' = micro /\ pc' = pc
        BY <2>1 DEF ProviderStep, ProviderAccepts, ProviderBegins, ProviderOutputs, ProviderEnds,
            Emit, managerVars, opVars, laneVars
      <3> QED
        BY <3>1 DEF LaneInv
    <2> QED
      BY <1>2, <2>1, SendLane, StopLane, StreamLane, CancelLane, SteerLane DEF Task
  <1>3. CASE DispatchNext \/ UNCHANGED vars
    <2>1. lane' = lane /\ micro' = micro /\ pc' = pc
      BY <1>3 DEF DispatchNext, vars, managerVars, laneVars, opVars
    <2> QED
      BY <2>1 DEF LaneInv
  <1> QED
    BY <1>1, <1>2, <1>3 DEF Next

-----------------------------------------------------------------------------
(* Types.                                                                    *)

Results == {"none", "not_running", "settled", "refused", "accepted", "unavailable", "error"}

Typed ==
    /\ steering \in Prompts \cup {None}
    /\ acked \in [Ops -> BOOLEAN]
    /\ expected \in [Prompts -> Turns \cup {None}]
    /\ result \in [Ops -> Results]
    /\ turn \in [Turns -> {"none", "accepted", "running", "aborted", "over"}]
    /\ interrupts \in [Ops -> SUBSET Prompts]
    /\ items \in [Turns -> 0 .. MaxItems]
    /\ timeline \in Seq(Entry)

typedVars == <<steering, acked, expected, result, turn, interrupts, items, timeline>>

LEMMA TypedStutters == ASSUME Typed, UNCHANGED typedVars PROVE Typed'
  BY DEF Typed, typedVars

LEMMA RecordTypes ==
    ASSUME Typed, NEW p \in Prompts, NEW asks \in SUBSET Prompts, RecordSubmittedPrompt(p, asks)
    PROVE  timeline' \in Seq(Entry)
  <1>1. UserMessage(p, asks) \in Entry
    BY DEF UserMessage, Entry, Turns
  <1>2. timeline \in Seq(Entry)
    BY DEF Typed
  <1> DEFINE e == UserMessage(p, asks)
  <1>3. Append(timeline, e) \in Seq(Entry)
    <2> HIDE DEF e
    <2>1. e \in Entry
      BY <1>1 DEF e
    <2> QED
      BY <1>2, <2>1
  <1> QED
    BY <1>2, <1>3 DEF RecordSubmittedPrompt

LEMMA CancelReturnsTyped ==
    ASSUME Typed, NEW o \in Ops, NEW s, NEW status \in Results, NEW m,
           CancelReturns(s, o, status, m)
    PROVE  acked' \in [Ops -> BOOLEAN] /\ result' \in [Ops -> Results]
  BY DEF CancelReturns, Typed

LEMMA ContinuationTyped ==
    ASSUME Typed, Continuation
    PROVE  Typed'
  <1>1. ASSUME NEW o \in Ops, CancelStarts(o)
        PROVE  Typed'
    <2>1. /\ acked' \in [Ops -> BOOLEAN] /\ result' \in [Ops -> Results]
      BY <1>1, CancelReturnsTyped DEF CancelStarts, Typed, Results
    <2>2. interrupts' \in [Ops -> SUBSET Prompts]
      BY <1>1 DEF CancelStarts, Typed
    <2>3. UNCHANGED <<steering, expected, turn, items, timeline>>
      BY <1>1 DEF CancelStarts
    <2> QED
      BY <2>1, <2>2, <2>3 DEF Typed
  <1>2. ASSUME NEW o \in Ops, CancelResumes(o)
        PROVE  Typed'
    BY <1>2, TypedStutters DEF CancelResumes, typedVars, providerVars
  <1>3. ASSUME NEW p \in Prompts, SteerStarts(p) \/ SteerResumes(p)
        PROVE  Typed'
    BY <1>3, TypedStutters DEF SteerStarts, SteerResumes, typedVars, providerVars
  <1> QED
    BY <1>1, <1>2, <1>3 DEF Continuation

LEMMA CancelStepTyped ==
    ASSUME Typed, NEW o \in Ops, CancelStep(o)
    PROVE  Typed'
  <1>1. CASE InterruptAcknowledged(o)
    <2>1. /\ acked' \in [Ops -> BOOLEAN] /\ interrupts' \in [Ops -> SUBSET Prompts]
          /\ turn' \in [Turns -> {"none", "accepted", "running", "aborted", "over"}]
      BY <1>1 DEF InterruptAcknowledged, Typed
    <2>2. UNCHANGED <<steering, expected, result, items, timeline>>
      BY <1>1 DEF InterruptAcknowledged, managerVars
    <2> QED
      BY <2>1, <2>2 DEF Typed
  <1>2. CASE InterruptRefused(o)
    <2>1. interrupts' \in [Ops -> SUBSET Prompts]
      BY <1>2 DEF InterruptRefused, Typed
    <2>2. UNCHANGED <<steering, acked, expected, result, turn, items, timeline>>
      BY <1>2 DEF InterruptRefused, managerVars
    <2> QED
      BY <2>1, <2>2 DEF Typed
  <1>3. CASE CancelCompletes(o) \/ CancelTimesOut(o)
    <2>1. acked' \in [Ops -> BOOLEAN] /\ result' \in [Ops -> Results]
      BY <1>3, CancelReturnsTyped DEF CancelCompletes, CancelTimesOut, Results
    <2>2. UNCHANGED <<steering, expected, turn, interrupts, items, timeline>>
      BY <1>3 DEF CancelCompletes, CancelTimesOut, providerVars
    <2> QED
      BY <2>1, <2>2 DEF Typed
  <1> QED
    BY <1>1, <1>2, <1>3 DEF CancelStep

LEMMA SteerStepTyped ==
    ASSUME Typed, NEW p \in Prompts, SteerStep(p)
    PROVE  Typed'
  <1>1. CASE SteerAdmitted(p)
    <2>1. /\ steering' \in Prompts \cup {None} /\ result' \in [Ops -> Results]
      BY <1>1 DEF SteerAdmitted, Typed, Results
    <2>2. UNCHANGED <<acked, expected, turn, interrupts, items, timeline>>
      BY <1>1 DEF SteerAdmitted
    <2> QED
      BY <2>1, <2>2 DEF Typed
  <1>2. CASE SteerDrained(p)
    BY <1>2, TypedStutters DEF SteerDrained, typedVars, providerVars
  <1>3. ASSUME NEW answer \in {"accepted", "unavailable", "error"}, SteerAnswered(p, answer)
        PROVE  Typed'
    <2>1. /\ steering' \in Prompts \cup {None} /\ result' \in [Ops -> Results]
      BY <1>3 DEF SteerAnswered, Typed, Results
    <2>2. timeline' \in Seq(Entry)
      BY <1>3, RecordTypes DEF SteerAnswered, Typed
    <2>3. UNCHANGED <<acked, expected, turn, interrupts, items>>
      BY <1>3 DEF SteerAnswered, providerVars
    <2> QED
      BY <2>1, <2>2, <2>3 DEF Typed
  <1> QED
    BY <1>1, <1>2, <1>3 DEF SteerStep

LEMMA ProviderTyped ==
    ASSUME Typed, ProviderStep
    PROVE  Typed'
  <1>1. ASSUME NEW t \in Turns, ProviderOutputs(t)
        PROVE  Typed'
    <2>1. items' \in [Turns -> 0 .. MaxItems]
      BY <1>1, AgentTurnAssumption DEF ProviderOutputs, Typed
    <2>2. UNCHANGED <<steering, acked, expected, result, turn, interrupts, timeline>>
      BY <1>1 DEF ProviderOutputs, Emit, opVars
    <2> QED
      BY <2>1, <2>2 DEF Typed
  <1>2. ASSUME NEW p \in Prompts, ProviderAccepts(p)
        PROVE  Typed'
    <2>1. turn' \in [Turns -> {"none", "accepted", "running", "aborted", "over"}]
      BY <1>2 DEF ProviderAccepts, Typed
    <2>2. UNCHANGED <<steering, acked, expected, result, interrupts, items, timeline>>
      BY <1>2 DEF ProviderAccepts, managerVars, opVars
    <2> QED
      BY <2>1, <2>2 DEF Typed
  <1>3. ASSUME NEW t \in Turns, ProviderBegins(t) \/ \E type \in Terminals : ProviderEnds(t, type)
        PROVE  Typed'
    <2>1. turn' \in [Turns -> {"none", "accepted", "running", "aborted", "over"}]
      BY <1>3 DEF ProviderBegins, ProviderEnds, Typed
    <2>2. UNCHANGED <<steering, acked, expected, result, interrupts, items, timeline>>
      BY <1>3 DEF ProviderBegins, ProviderEnds, Emit, opVars
    <2> QED
      BY <2>1, <2>2 DEF Typed
  <1> QED
    BY <1>1, <1>2, <1>3 DEF ProviderStep

LEMMA TaskTyped ==
    ASSUME Typed, agent \in Agent, Task
    PROVE  Typed'
  <1>1. ASSUME NEW p \in Prompts, NEW mode, Send(p, mode)
        PROVE  Typed'
    <2>1. expected' \in [Prompts -> Turns \cup {None}]
      <3>1. OpenTurn \in Turns \cup {None}
        BY DEF OpenTurn, Agent
      <3> QED
        BY <1>1, <3>1 DEF Send, Typed
    <2>2. UNCHANGED <<steering, acked, result, turn, interrupts, items, timeline>>
      BY <1>1 DEF Send, providerVars
    <2> QED
      BY <2>1, <2>2 DEF Typed
  <1>2. ASSUME NEW p \in Prompts, StartResolves(p)
        PROVE  Typed'
    <2>1. timeline' \in Seq(Entry)
      BY <1>2, RecordTypes DEF StartResolves, Typed
    <2>2. UNCHANGED <<steering, acked, expected, result, turn, interrupts, items>>
      BY <1>2 DEF StartResolves, providerVars
    <2> QED
      BY <2>1, <2>2 DEF Typed
  <1>3. ASSUME NEW p \in Prompts, NEW stale, StartRejects(p, stale)
        PROVE  Typed'
    <2>1. turn' \in [Turns -> {"none", "accepted", "running", "aborted", "over"}]
      BY <1>3 DEF StartRejects, Typed
    <2>2. UNCHANGED <<steering, acked, expected, result, interrupts, items, timeline>>
      BY <1>3 DEF StartRejects
    <2> QED
      BY <2>1, <2>2 DEF Typed
  <1>4. ASSUME NEW p \in Prompts, StreamEnds(p)
        PROVE  Typed'
    BY <1>4, TypedStutters DEF StreamEnds, typedVars, providerVars
  <1>5. ASSUME NEW o \in Stops, Stop(o)
        PROVE  Typed'
    BY <1>5, TypedStutters DEF Stop, typedVars, providerVars
  <1> QED
    BY <1>1, <1>2, <1>3, <1>4, <1>5, CancelStepTyped, SteerStepTyped, ProviderTyped DEF Task

LEMMA DispatchTyped ==
    ASSUME Typed, Buffered, DispatchNext
    PROVE  Typed'
  <1>1. Head(queue) \in Event /\ timeline \in Seq(Entry)
    BY DEF DispatchNext, Buffered, Typed
  <1>2. timeline' \in Seq(Entry)
    <2> DEFINE e == Head(queue)
    <2>1. CASE e.type = "item"
      <3>1. e \in Entry
        BY <1>1, <2>1 DEF Event, Entry
      <3>2. timeline' = Append(timeline, e)
        BY <2>1 DEF DispatchNext
      <3> HIDE DEF e
      <3> QED
        BY <1>1, <3>1, <3>2
    <2>2. CASE e.type # "item"
      BY <1>1, <2>2 DEF DispatchNext
    <2> QED
      BY <2>1, <2>2
  <1>3. UNCHANGED <<steering, acked, expected, result, turn, interrupts, items>>
    BY DEF DispatchNext, opVars, providerVars
  <1> QED
    BY <1>2, <1>3 DEF Typed

TypedInv == IInv /\ LaneInv /\ Typed

LEMMA InitTyped == Init => TypedInv
  <1> SUFFICES ASSUME Init PROVE LaneInv /\ Typed
    BY InitIInv DEF TypedInv
  <1>1. LaneInv
    BY DEF Init, LaneInv, LaneInOrder, Steps, InLane, Queued
  <1>2. Typed
    BY AgentTurnAssumption DEF Init, Typed, Results
  <1> QED
    BY <1>1, <1>2

LEMMA NextTyped == TypedInv /\ [Next]_vars => TypedInv'
  <1> SUFFICES ASSUME TypedInv, [Next]_vars PROVE Typed'
    BY NextIInv, NextLane DEF TypedInv
  <1>1. Typed /\ Buffered /\ agent \in Agent
    BY DEF TypedInv, IInv, Consistent, Sound
  <1>2. CASE UNCHANGED vars
    BY <1>1, <1>2, TypedStutters DEF vars, managerVars, opVars, providerVars, typedVars
  <1> QED
    BY <1>1, <1>2, ContinuationTyped, DispatchTyped, TaskTyped DEF Next

\* Every state variable keeps its type.
THEOREM TypeCorrect == Spec => []TypeOK
  <1>1. Spec => []TypedInv
    BY InitTyped, NextTyped, PTL DEF Spec
  <1>2. TypedInv => TypeOK
    BY DEF TypedInv, IInv, Consistent, Sound, Buffered, LaneInv, LaneInOrder, Typed, TypeOK,
           Steps, Results
  <1> QED
    BY <1>1, <1>2, PTL

-----------------------------------------------------------------------------
(* What the provider does with the turns.                                    *)

\* The run that a terminal event of turn t settles.
Settles(s, t) ==
    \/ s.run.kind = "foreground" /\ s.run.turn # None /\ s.run.turn = t
    \/ s.run.kind = "autonomous" /\ (s.run.turn = None \/ t = None \/ s.run.turn = t)

-----------------------------------------------------------------------------
(* What a terminal event does, field by field.                               *)

LEMMA TerminalTurnNamed == ASSUME NEW s, NEW t, t # None PROVE TerminalTurn(s, t) = t
  BY DEF TerminalTurn

LEMMA TerminalTurnUnnamed ==
    ASSUME NEW s PROVE TerminalTurn(s, None) = IF s.fg # None THEN s.fg ELSE s.active
  BY DEF TerminalTurn

LEMMA CloseActiveTurnEffect ==
    ASSUME NEW s \in Agent, NEW t
    PROVE  LET n == CloseActiveTurn(s, t) IN
           /\ n.active = IF IsStale(s, t) THEN s.active ELSE None
           /\ n.run = s.run /\ n.fg = s.fg /\ n.settled = s.settled
           /\ n.finalized = s.finalized /\ n.waiters = s.waiters
           /\ n.replacing = s.replacing /\ n.failed = s.failed /\ n.lifecycle = s.lifecycle
  BY DEF CloseActiveTurn, Agent

LEMMA OnTurnEndEffect ==
    ASSUME NEW s \in Agent, NEW type, NEW t
    PROVE  LET n == OnTurnEnd(s, type, t)
               alone == ~ IsForeground(s, t) /\ s.fg = None
           IN
           /\ n.active = s.active /\ n.run = s.run /\ n.fg = s.fg /\ n.settled = s.settled
           /\ n.finalized = s.finalized /\ n.waiters = s.waiters /\ n.replacing = s.replacing
           /\ n.lifecycle = IF ~ alone THEN s.lifecycle
                            ELSE IF type = "turn_failed" THEN "error"
                            ELSE IF s.replacing THEN s.lifecycle ELSE "idle"
  <1> DEFINE alone == ~ IsForeground(s, t) /\ s.fg = None
  <1>1. CASE type = "turn_failed"
    <2>1. OnTurnEnd(s, type, t)
             = [s EXCEPT !.failed = TRUE, !.lifecycle = IF alone THEN "error" ELSE @]
      BY <1>1 DEF OnTurnEnd
    <2> HIDE DEF alone
    <2>2. LET n == OnTurnEnd(s, type, t) IN
           /\ n.active = s.active /\ n.run = s.run /\ n.fg = s.fg /\ n.settled = s.settled
           /\ n.finalized = s.finalized /\ n.waiters = s.waiters /\ n.replacing = s.replacing
           /\ n.lifecycle = IF alone THEN "error" ELSE s.lifecycle
      BY <2>1 DEF Agent
    <2> QED
      BY <1>1, <2>2 DEF alone
  <1>2. CASE type # "turn_failed"
    <2>1. OnTurnEnd(s, type, t)
             = [s EXCEPT !.failed = FALSE,
                         !.lifecycle = IF alone /\ ~ s.replacing THEN "idle" ELSE @]
      BY <1>2 DEF OnTurnEnd
    <2> HIDE DEF alone
    <2>2. LET n == OnTurnEnd(s, type, t) IN
           /\ n.active = s.active /\ n.run = s.run /\ n.fg = s.fg /\ n.settled = s.settled
           /\ n.finalized = s.finalized /\ n.waiters = s.waiters /\ n.replacing = s.replacing
           /\ n.lifecycle = IF alone /\ ~ s.replacing THEN "idle" ELSE s.lifecycle
      BY <2>1 DEF Agent
    <2> QED
      BY <1>2, <2>2 DEF alone
  <1> QED
    BY <1>1, <1>2

LEMMA SettleTerminalRunEffect ==
    ASSUME NEW s \in Agent, HasRun(s) => s.run.token \in Tokens, NEW t
    PROVE  LET n == SettleTerminalRun(s, t) IN
           /\ n \in Agent
           /\ n.run = IF Settles(s, t) THEN NoRun ELSE s.run
           /\ n.settled = IF Settles(s, t) THEN s.settled \cup {s.run.token} ELSE s.settled
           /\ n.active = s.active /\ n.fg = s.fg /\ n.finalized = s.finalized
           /\ n.waiters = s.waiters /\ n.replacing = s.replacing /\ n.lifecycle = s.lifecycle
           /\ n.failed = s.failed
  <1>1. CASE Settles(s, t)
    <2>1. SettleTerminalRun(s, t) = ClearRun(s) /\ HasRun(s)
      BY <1>1 DEF Settles, SettleTerminalRun, HasRun
    <2>2. ClearRun(s) \in Agent
      BY <2>1, ClearRunType
    <2> QED
      BY <1>1, <2>1, <2>2 DEF ClearRun, Agent
  <1>2. CASE ~ Settles(s, t)
    BY <1>2 DEF Settles, SettleTerminalRun
  <1> QED
    BY <1>1, <1>2

LEMMA FinalizeLifecycle ==
    ASSUME NEW s \in Agent, NEW t \in Turns \cup {None}
    PROVE  LET n == Finalize(s, t) IN
           /\ n.active = IF IsStale(s, t) THEN s.active ELSE None
           /\ n.replacing = s.replacing
           /\ n.lifecycle = IF s.failed THEN "error" ELSE IF s.replacing THEN "running" ELSE "idle"
  BY DEF Finalize, CloseActiveTurn, IsStale, Agent

\* A terminal event that counts ends the open turn it names, closes the active
\* turn it names, settles the run it is about, and shows the agent as running
\* afterwards only for a replacement or for something it is not about.
LEMMA HandleTerminalEffect ==
    ASSUME NEW s, Sound(s), NEW e, e.turn \in Turns \cup {None},
           NEW t, t = TerminalTurn(s, e.turn), ~ (t # None /\ t \in s.finalized)
    PROVE  LET n == HandleTerminal(s, e) IN
           /\ n.run = IF Settles(s, t) THEN NoRun ELSE s.run
           /\ n.settled = IF Settles(s, t) THEN s.settled \cup {s.run.token} ELSE s.settled
           /\ n.fg = IF IsForeground(s, t) THEN None ELSE s.fg
           /\ n.finalized = IF IsForeground(s, t) THEN s.finalized \cup {t} ELSE s.finalized
           /\ n.active = IF IsStale(s, t) THEN s.active ELSE None
           /\ n.replacing = s.replacing
           /\ n.waiters = s.waiters \ {e.turn}
           /\ n.lifecycle = "idle" => s.lifecycle = "idle" \/ ~ s.replacing
           /\ n.lifecycle = "running" =>
                 \/ s.replacing
                 \/ s.lifecycle = "running" /\ ~ IsForeground(s, t)
                    /\ (IsStale(s, t) \/ s.fg # None)
  <1> DEFINE closed == CloseActiveTurn(s, t)
             ended == IF IsStale(s, t) THEN s ELSE OnTurnEnd(closed, e.type, t)
             settled == SettleTerminalRun(ended, t)
             final == IF IsForeground(s, t) THEN Finalize(settled, t) ELSE settled
             woken == [final EXCEPT !.waiters = @ \ {e.turn}]
  <1>1. s \in Agent /\ RunShape(s) /\ Owned(s)
    BY DEF Sound
  <1>2. t \in Turns \cup {None}
    BY <1>1, TerminalTurnType
  <1>3. HandleTerminal(s, e) = woken
    BY DEF HandleTerminal
  <1>4. IsForeground(s, t) => ~ IsStale(s, t)
    BY <1>1 DEF Owned, IsForeground, IsStale
  <1>5. /\ ended \in Agent
        /\ ended.run = s.run /\ ended.fg = s.fg /\ ended.settled = s.settled
        /\ ended.finalized = s.finalized /\ ended.waiters = s.waiters
        /\ ended.replacing = s.replacing
        /\ ended.active = IF IsStale(s, t) THEN s.active ELSE None
        /\ ended.lifecycle = "idle" => s.lifecycle = "idle" \/ ~ s.replacing
        /\ ended.lifecycle = "running" =>
              s.lifecycle = "running" /\ (s.replacing \/ IsStale(s, t) \/ s.fg # None)
    <2>1. CASE IsStale(s, t)
      BY <1>1, <2>1
    <2>2. CASE ~ IsStale(s, t)
      <3>1. closed \in Agent
        BY <1>1, <1>2, CloseActiveTurnType
      <3>2. /\ closed.run = s.run /\ closed.fg = s.fg /\ closed.settled = s.settled
            /\ closed.finalized = s.finalized /\ closed.waiters = s.waiters
            /\ closed.replacing = s.replacing /\ closed.active = None
            /\ closed.lifecycle = s.lifecycle
        BY <1>1, <2>2, CloseActiveTurnEffect
      <3> HIDE DEF closed
      <3> DEFINE o == OnTurnEnd(closed, e.type, t)
      <3>3. o \in Agent
        BY <1>2, <3>1, OnTurnEndType
      <3>4. /\ o.active = closed.active /\ o.run = closed.run /\ o.fg = closed.fg
            /\ o.settled = closed.settled /\ o.finalized = closed.finalized
            /\ o.waiters = closed.waiters /\ o.replacing = closed.replacing
            /\ o.lifecycle = IF ~ (~ IsForeground(closed, t) /\ closed.fg = None)
                             THEN closed.lifecycle
                             ELSE IF e.type = "turn_failed" THEN "error"
                             ELSE IF closed.replacing THEN closed.lifecycle ELSE "idle"
        BY ONLY <3>1, OnTurnEndEffect
      <3>5. ended = o
        BY <2>2
      <3> HIDE DEF o, ended
      <3> QED
        BY <2>2, <3>2, <3>3, <3>4, <3>5 DEF IsForeground
    <2> QED
      BY <2>1, <2>2
  <1>6. /\ final = IF IsForeground(s, t) THEN Finalize(settled, t) ELSE settled
        /\ woken = [final EXCEPT !.waiters = @ \ {e.turn}]
        /\ settled = SettleTerminalRun(ended, t)
    OBVIOUS
  <1> HIDE DEF ended, settled, final, woken
  <1>7. /\ settled \in Agent
        /\ settled.run = IF Settles(s, t) THEN NoRun ELSE s.run
        /\ settled.settled = IF Settles(s, t) THEN s.settled \cup {s.run.token} ELSE s.settled
        /\ settled.active = ended.active /\ settled.fg = s.fg
        /\ settled.finalized = s.finalized /\ settled.waiters = s.waiters
        /\ settled.replacing = s.replacing /\ settled.lifecycle = ended.lifecycle
    <2>1. HasRun(ended) => ended.run.token \in Tokens
      BY <1>1, <1>5 DEF RunShape, HasRun
    <2>2. Settles(ended, t) <=> Settles(s, t)
      BY <1>5 DEF Settles
    <2> QED
      BY <1>5, <1>6, <2>1, <2>2, SettleTerminalRunEffect
  <1>8. CASE IsForeground(s, t)
    <2>1. final = Finalize(settled, t) /\ final \in Agent
      BY <1>2, <1>6, <1>7, <1>8, FinalizeType
    <2>2. t # None /\ ended.active = None
      BY <1>4, <1>5, <1>8 DEF IsForeground
    <2>3. /\ final.fg = None /\ final.run = settled.run /\ final.settled = settled.settled
          /\ final.finalized = s.finalized \cup {t} /\ final.waiters = s.waiters
      <3>1. /\ Finalize(settled, t).fg = None /\ Finalize(settled, t).run = settled.run
            /\ Finalize(settled, t).settled = settled.settled
            /\ Finalize(settled, t).finalized
                 = IF t = None THEN settled.finalized ELSE settled.finalized \cup {t}
            /\ Finalize(settled, t).waiters = settled.waiters
        BY ONLY <1>2, <1>7, FinalizeEffect
      <3> QED
        BY <1>7, <2>1, <2>2, <3>1
    <2>4. /\ final.active = None /\ final.replacing = s.replacing
          /\ final.lifecycle = "idle" => ~ s.replacing
          /\ final.lifecycle = "running" => s.replacing
      BY <1>2, <1>7, <2>1, <2>2, FinalizeLifecycle
    <2>5. /\ woken.run = final.run /\ woken.settled = final.settled /\ woken.fg = final.fg
          /\ woken.finalized = final.finalized /\ woken.active = final.active
          /\ woken.replacing = final.replacing /\ woken.lifecycle = final.lifecycle
          /\ woken.waiters = final.waiters \ {e.turn}
      BY <1>6, <2>1 DEF Agent
    <2> QED
      BY <1>3, <1>4, <1>7, <1>8, <2>3, <2>4, <2>5
  <1>9. CASE ~ IsForeground(s, t)
    <2>1. final = settled
      BY <1>6, <1>9
    <2>2. /\ woken.run = final.run /\ woken.settled = final.settled /\ woken.fg = final.fg
          /\ woken.finalized = final.finalized /\ woken.active = final.active
          /\ woken.replacing = final.replacing /\ woken.lifecycle = final.lifecycle
          /\ woken.waiters = final.waiters \ {e.turn}
      BY <1>6, <1>7, <2>1 DEF Agent
    <2> QED
      BY <1>3, <1>5, <1>7, <1>9, <2>1, <2>2
  <1> QED
    BY <1>8, <1>9

-----------------------------------------------------------------------------
(* Turns that are over in the provider.                                      *)

Ended == {"over", "aborted"}
Over(t) == turn[t] \in Ended

\* Every terminal event among events is of a turn that f says is over.
Told(events, f) == \A i \in DOMAIN events :
    events[i].type \in Terminals => f[events[i].turn] \in Ended

LEMMA ToldParts ==
    ASSUME NEW f
    PROVE  /\ Told(<<>>, f)
           /\ \A a, b \in Seq(Event) : Told(a, f) /\ Told(b, f) => Told(a \o b, f)
           /\ \A a \in Seq(Event) : a # <<>> /\ Told(a, f) => Told(Tail(a), f)
           /\ \A e \in Event : (e.type \in Terminals => f[e.turn] \in Ended) => Told(<<e>>, f)
  <1>1. Told(<<>>, f)
    BY DEF Told
  <1>2. ASSUME NEW a \in Seq(Event), NEW b \in Seq(Event), Told(a, f), Told(b, f)
        PROVE  Told(a \o b, f)
    <2> SUFFICES ASSUME NEW i \in 1 .. Len(a \o b), (a \o b)[i].type \in Terminals
                 PROVE  f[(a \o b)[i].turn] \in Ended
      BY <1>2 DEF Told
    <2>1. CASE i <= Len(a)
      BY <1>2, <2>1 DEF Told
    <2>2. CASE i > Len(a)
      <3>1. (a \o b)[i] = b[i - Len(a)] /\ i - Len(a) \in DOMAIN b
        BY <1>2, <2>2
      <3> QED
        BY <1>2, <3>1 DEF Told
    <2> QED
      BY <2>1, <2>2
  <1>3. ASSUME NEW a \in Seq(Event), a # <<>>, Told(a, f)
        PROVE  Told(Tail(a), f)
    <2> SUFFICES ASSUME NEW i \in 1 .. Len(Tail(a)), Tail(a)[i].type \in Terminals
                 PROVE  f[Tail(a)[i].turn] \in Ended
      BY <1>3 DEF Told
    <2>1. Tail(a)[i] = a[i + 1] /\ i + 1 \in DOMAIN a
      BY <1>3
    <2> QED
      BY <1>3, <2>1 DEF Told
  <1>4. ASSUME NEW e \in Event, e.type \in Terminals => f[e.turn] \in Ended
        PROVE  Told(<<e>>, f)
    BY <1>4 DEF Told
  <1> QED
    BY <1>1, <1>2, <1>3, <1>4

\* Where an event of the staged events goes when the start event is dropped.
LEMMA WithoutStartEvents ==
    ASSUME NEW events \in Seq(Event), NEW p
    PROVE  LET w == WithoutStart(events, p) IN
           \A i \in DOMAIN w : \E j \in DOMAIN events : w[i] = events[j]
  <1> DEFINE w == WithoutStart(events, p)
             starts == {i \in DOMAIN events : events[i] = TurnEvent("turn_started", p)}
             c == CHOOSE j \in starts : TRUE
  <1>1. CASE starts = {}
    BY <1>1 DEF WithoutStart
  <1>2. CASE starts # {}
    <2>1. c \in 1 .. Len(events)
      BY <1>2
    <2>2. w = SubSeq(events, 1, c - 1) \o SubSeq(events, c + 1, Len(events))
      BY <1>2 DEF WithoutStart
    <2> HIDE DEF c, w
    <2> DEFINE a == SubSeq(events, 1, c - 1)
               b == SubSeq(events, c + 1, Len(events))
    <2>3. /\ a \in Seq(Event) /\ Len(a) = c - 1
          /\ \A i \in 1 .. Len(a) : a[i] = events[i]
      BY <2>1
    <2>4. /\ b \in Seq(Event) /\ Len(b) = Len(events) - c
          /\ \A i \in 1 .. Len(b) : b[i] = events[i + c]
      BY <2>1
    <2>5. w = a \o b
      BY <2>2
    <2> HIDE DEF a, b
    <2> SUFFICES ASSUME NEW i \in DOMAIN w
                 PROVE  \E j \in DOMAIN events : w[i] = events[j]
      BY DEF w
    <2>6. i \in 1 .. Len(a) + Len(b)
      BY <2>3, <2>4, <2>5
    <2>7. CASE i <= Len(a)
      <3>1. w[i] = events[i] /\ i \in DOMAIN events
        BY <2>1, <2>3, <2>4, <2>5, <2>6, <2>7
      <3> QED
        BY <3>1
    <2>8. CASE i > Len(a)
      <3>1. w[i] = b[i - Len(a)] /\ i - Len(a) \in 1 .. Len(b)
        BY <2>3, <2>4, <2>5, <2>6, <2>8
      <3>2. i - Len(a) + c = i + 1 /\ i + 1 \in DOMAIN events
        BY <2>1, <2>3, <2>4, <2>6
      <3>3. w[i] = events[i - Len(a) + c]
        BY <2>4, <3>1
      <3> QED
        BY <3>2, <3>3
    <2> QED
      BY <2>6, <2>7, <2>8
  <1> QED
    BY <1>1, <1>2

LEMMA ToldWithoutStart ==
    ASSUME NEW f, NEW events \in Seq(Event), Told(events, f), NEW p
    PROVE  Told(WithoutStart(events, p), f)
  BY WithoutStartEvents DEF Told

\* Every terminal event on its way is of a turn that is over, a turn is over
\* when its run is settled, and it has a run until then.
EndsAreTold == Told(staged, turn) /\ Told(queue, turn) /\ Told(barrier, turn)
SettledIsOver == \A p \in Prompts : RunToken(p) \in agent.settled => Over(p)
TurnHasRun == \A p \in Prompts : turn[p] # "none" =>
    RunToken(p) \in agent.settled \/ (agent.run.kind = "foreground" /\ agent.run.token = RunToken(p))
StreamHasTurn == \A p \in Prompts : pc[p] = "streaming" => turn[p] # "none"

\* An interrupt is about the turn of the run its cancellation captured, and
\* once it is acknowledged that turn is over.
InterruptsHold ==
    /\ \A o \in Ops : acked[o] => pc[o] = "settling"
    /\ \A o \in Ops, p \in Prompts :
        /\ pc[o] = "interrupting" /\ captured[o].token = RunToken(p) => p \in interrupts[o] \/ Over(p)
        /\ p \in interrupts[o] => turn[p] # "none" \/ pc[p] = "starting"
        /\ acked[o] /\ captured[o].token = RunToken(p) => Over(p)

ProviderInv == EndsAreTold /\ SettledIsOver /\ TurnHasRun /\ StreamHasTurn /\ InterruptsHold

\* A turn that was asked for was asked for, and one that is over stays over.
LEMMA TurnsAdvance ==
    ASSUME Typed, [Next]_vars, NEW t \in Turns
    PROVE  /\ turn[t] # "none" => turn'[t] # "none"
           /\ Over(t) => turn'[t] \in Ended
  <1>1. turn \in [Turns -> {"none", "accepted", "running", "aborted", "over"}] /\ Prompts \subseteq Turns
    BY DEF Typed, Turns
  <1>2. CASE UNCHANGED turn
    BY <1>2 DEF Over
  <1>3. ASSUME NEW p \in Prompts, ProviderAccepts(p)
        PROVE  (turn[t] # "none" => turn'[t] # "none") /\ (Over(t) => turn'[t] \in Ended)
    BY <1>1, <1>3 DEF ProviderAccepts, Over, Ended
  <1>4. ASSUME NEW x \in Turns, ProviderBegins(x) \/ \E type \in Terminals : ProviderEnds(x, type)
        PROVE  (turn[t] # "none" => turn'[t] # "none") /\ (Over(t) => turn'[t] \in Ended)
    BY <1>1, <1>4 DEF ProviderBegins, ProviderEnds, Over, Ended
  <1>5. ASSUME NEW p \in Prompts, NEW stale, StartRejects(p, stale)
        PROVE  (turn[t] # "none" => turn'[t] # "none") /\ (Over(t) => turn'[t] \in Ended)
    BY <1>1, <1>5 DEF StartRejects, Over, Ended
  <1>6. ASSUME NEW o \in Ops, InterruptAcknowledged(o)
        PROVE  (turn[t] # "none" => turn'[t] # "none") /\ (Over(t) => turn'[t] \in Ended)
    BY <1>1, <1>6 DEF InterruptAcknowledged, Over, Ended
  <1>7. CASE UNCHANGED vars
    BY <1>2, <1>7 DEF vars, providerVars
  <1>8. CASE Continuation \/ DispatchNext
    <2>1. UNCHANGED turn
      BY <1>8 DEF Continuation, DispatchNext, CancelStarts, CancelResumes, SteerStarts,
            SteerResumes, providerVars
    <2> QED
      BY <1>2, <2>1
  <1>9. CASE Task
    <2>1. ASSUME NEW p \in Prompts, NEW mode, Send(p, mode)
          PROVE  UNCHANGED turn
      BY <2>1 DEF Send, providerVars
    <2>2. ASSUME NEW p \in Prompts, StartResolves(p) \/ StreamEnds(p) \/ SteerStep(p)
          PROVE  UNCHANGED turn
      BY <2>2 DEF StartResolves, StreamEnds, SteerStep, SteerAdmitted, SteerDrained,
            SteerAnswered, providerVars
    <2>3. ASSUME NEW o \in Stops, Stop(o)
          PROVE  UNCHANGED turn
      BY <2>3 DEF Stop, providerVars
    <2>4. ASSUME NEW o \in Ops, InterruptRefused(o) \/ CancelCompletes(o) \/ CancelTimesOut(o)
          PROVE  UNCHANGED turn
      BY <2>4 DEF InterruptRefused, CancelCompletes, CancelTimesOut, providerVars
    <2>5. ASSUME NEW x \in Turns, ProviderOutputs(x)
          PROVE  UNCHANGED turn
      BY <2>5 DEF ProviderOutputs
    <2> QED
      BY <1>2, <1>3, <1>4, <1>5, <1>6, <1>9, <2>1, <2>2, <2>3, <2>4, <2>5
         DEF Task, CancelStep, ProviderStep
  <1> QED
    BY <1>7, <1>8, <1>9 DEF Next

-----------------------------------------------------------------------------
(* What a step does to the open turn and to the tracked run.                 *)

\* The open turn stays; a run is settled only when its turn, if it is the run
\* of a prompt, is over.
Keeps(s, n, after) ==
    /\ n.fg = s.fg /\ n.finalized = s.finalized
    /\ \/ n.run = s.run /\ n.settled = s.settled
       \/ /\ HasRun(s) /\ n.run = NoRun /\ n.settled = s.settled \cup {s.run.token}
          /\ \A p \in Prompts : s.run.token = RunToken(p) => after[p] \in Ended
       \/ ~ HasRun(s) /\ n.settled = s.settled

Opens(s, n) ==
    \E p \in Prompts :
        /\ s.fg = None /\ n.fg = p
        /\ p \notin s.finalized /\ n.finalized = s.finalized
        /\ IsPending(s) /\ s.run.token = RunToken(p)
        /\ n.run.kind = "foreground" /\ n.run.token = RunToken(p) /\ n.settled = s.settled

\* The open turn ends, with its run, and is over in the provider.
Ends(s, n, before) ==
    /\ s.fg \in Prompts /\ n.fg = None
    /\ n.finalized = s.finalized \cup {s.fg}
    /\ n.run = NoRun /\ n.settled = s.settled \cup {s.run.token}
    /\ s.run.token = RunToken(s.fg)
    /\ before[s.fg] \in Ended

LEMMA KeepsSame ==
    ASSUME NEW s, NEW n, NEW f, n.fg = s.fg, n.finalized = s.finalized,
           n.run = s.run, n.settled = s.settled
    PROVE  Keeps(s, n, f)
  BY DEF Keeps

\* A terminal event of a turn that is over keeps or ends the open turn.
LEMMA HandleTerminalStep ==
    ASSUME NEW s, Sound(s), NEW e, e.turn \in Turns \cup {None}, NEW f,
           \A p \in Prompts : s.run.token = RunToken(p) /\ s.run.turn = p
                 /\ TerminalTurn(s, e.turn) = p => f[p] \in Ended
    PROVE  LET n == HandleTerminal(s, e) IN Keeps(s, n, f) \/ Ends(s, n, f)
  <1> DEFINE t == TerminalTurn(s, e.turn)
             n == HandleTerminal(s, e)
  <1>1. s \in Agent /\ RunShape(s) /\ Owned(s)
    BY DEF Sound
  <1>2. CASE t # None /\ t \in s.finalized
    <2>1. n = s
      BY <1>2 DEF HandleTerminal
    <2> QED
      BY <2>1, KeepsSame
  <1>3. CASE ~ (t # None /\ t \in s.finalized)
    <2>1. /\ n.run = IF Settles(s, t) THEN NoRun ELSE s.run
          /\ n.settled = IF Settles(s, t) THEN s.settled \cup {s.run.token} ELSE s.settled
          /\ n.fg = IF IsForeground(s, t) THEN None ELSE s.fg
          /\ n.finalized = IF IsForeground(s, t) THEN s.finalized \cup {t} ELSE s.finalized
      BY <1>3, HandleTerminalEffect
    <2> HIDE DEF n
    <2>2. CASE IsForeground(s, t)
      <3>1. /\ s.fg \in Prompts /\ s.fg = t /\ s.run.kind = "foreground" /\ s.run.turn = t
            /\ t # None
        BY <1>1, <2>2 DEF Owned, IsForeground
      <3>2. s.run.token = RunToken(t)
        BY <1>1, <3>1 DEF RunShape
      <3>3. Settles(s, t)
        BY <3>1 DEF Settles
      <3> QED
        BY <2>1, <2>2, <3>1, <3>2, <3>3 DEF Ends, n
    <2>3. CASE ~ IsForeground(s, t)
      <3>1. CASE Settles(s, t)
        <4>1. s.run.kind = "autonomous"
          BY <1>1, <2>3, <3>1 DEF Settles, RunShape, IsForeground
        <4>2. \A p \in Prompts : s.run.token # RunToken(p)
          BY <1>1, <4>1 DEF RunShape
        <4> QED
          BY <2>1, <2>3, <3>1, <4>1, <4>2 DEF Keeps, HasRun, n
      <3>2. CASE ~ Settles(s, t)
        BY <2>1, <2>3, <3>2, KeepsSame DEF n
      <3> QED
        BY <3>1, <3>2
    <2> QED
      BY <2>2, <2>3
  <1> QED
    BY <1>2, <1>3

\* A started turn is never the open one.
LEMMA HandleStartedStep ==
    ASSUME NEW s, Sound(s), NEW e, e.turn \in Turns, NEW f
    PROVE  Keeps(s, HandleStarted(s, e), f)
  <1>1. s \in Agent
    BY DEF Sound
  <1>2. CASE s.fg # None
    BY <1>2, KeepsSame DEF HandleStarted
  <1>3. CASE s.fg = None
    <2> DEFINE tracked == TrackAutonomousRun(s, TurnToken(e.turn), e.turn)
               n == [tracked EXCEPT !.active = e.turn, !.lifecycle = "running"]
    <2>1. HandleStarted(s, e) = n
      BY <1>3 DEF HandleStarted
    <2>2. tracked \in Agent
      <3>1. AutonomousRun(TurnToken(e.turn), e.turn) \in Run
        BY RunTypes, TokensDiffer
      <3> QED
        BY <1>1, <3>1 DEF TrackAutonomousRun, Agent
    <2>3. /\ tracked.fg = s.fg /\ tracked.finalized = s.finalized /\ tracked.settled = s.settled
          /\ HasRun(s) => tracked.run = s.run
      BY <1>1 DEF TrackAutonomousRun, Agent
    <2> HIDE DEF tracked
    <2>4. /\ n.fg = s.fg /\ n.finalized = s.finalized /\ n.settled = s.settled
          /\ HasRun(s) => n.run = s.run
      BY <2>2, <2>3 DEF Agent
    <2> QED
      BY <2>1, <2>4 DEF Keeps
  <1> QED
    BY <1>2, <1>3

LEMMA StreamAgentStep ==
    ASSUME NEW s \in Agent, NEW p \in Prompts, NEW refused, StreamAgent(s, p, refused), NEW f,
           Keeps(s, refused, f)
    PROVE  Keeps(s, agent', f)
  <1>1. CASE s.fg # None \/ HasRun(s)
    BY <1>1 DEF StreamAgent
  <1>2. CASE ~ (s.fg # None \/ HasRun(s))
    <2> DEFINE n == [s EXCEPT !.failed = FALSE, !.run = PendingRun(p, s.replacing)]
    <2>1. n.fg = s.fg /\ n.finalized = s.finalized /\ n.settled = s.settled
      BY DEF Agent
    <2> QED
      BY <1>2, <2>1 DEF StreamAgent, Keeps
  <1> QED
    BY <1>1, <1>2

LEMMA RejectedStep ==
    ASSUME NEW s, Sound(s), IsPending(s), NEW p \in Prompts, s.run.token = RunToken(p),
           NEW stale \in BOOLEAN, NEW f, f[p] \in Ended
    PROVE  Keeps(s, Rejected(s, p, stale), f)
  <1> DEFINE n == Rejected(s, p, stale)
  <1>1. s.fg = None /\ HasRun(s)
    BY DEF Sound, Owned, IsPending, HasRun
  <1>2. Advances(s, n) /\ n.run = NoRun /\ n.settled = s.settled \cup {RunToken(p)}
    BY RejectedAdvances
  <1> HIDE DEF n
  <1>3. n.fg = None /\ n.finalized = s.finalized
    BY <1>1, <1>2 DEF Advances, Sound, Owned, NoRun
  <1>4. \A q \in Prompts : s.run.token = RunToken(q) => f[q] \in Ended
    BY TokensDiffer
  <1> QED
    BY <1>1, <1>2, <1>3, <1>4 DEF Keeps, n

\* A forced cancellation acts on the run it captured, whose turn is over once
\* the interrupt is acknowledged.
LEMMA ForcedStep ==
    ASSUME IInv, InterruptsHold, NEW o \in Ops, pc[o] = "settling", acked[o],
           ~ HasSettled(agent, o)
    PROVE  Keeps(agent, Forced(o), turn) \/ Ends(agent, Forced(o), turn)
  <1>1. /\ Sound(agent) /\ HasRun(agent) /\ agent.run.token = captured[o].token
    BY DEF IInv, Consistent, HasSettled
  <1>2. agent \in Agent /\ agent.run \in Run
    BY <1>1 DEF Sound, Agent
  <1>3. \A p \in Prompts : agent.run.token = RunToken(p) => turn[p] \in Ended
    BY <1>1 DEF InterruptsHold, Over
  <1>4. CASE agent.run.turn # None
    <2>1. TurnEvent("turn_canceled", agent.run.turn).turn \in Turns \cup {None}
      BY <1>2 DEF TurnEvent, Run
    <2> QED
      BY <1>1, <1>3, <1>4, <2>1, HandleTerminalStep DEF Forced
  <1>5. CASE agent.run.turn = None /\ captured[o].kind = "foreground"
    <2> DEFINE r == SettleForegroundRun(agent, captured[o].token)
               n == [r EXCEPT !.lifecycle = IF agent.replacing THEN @ ELSE "idle"]
    <2>1. Forced(o) = n
      BY <1>5 DEF Forced
    <2>2. CASE agent.run.kind = "foreground"
      <3>1. r = ClearRun(agent)
        BY <1>1, <2>2 DEF SettleForegroundRun
      <3>2. r \in Agent
        BY <1>1, <1>2, <3>1, ClearRunType DEF Sound, RunShape, HasRun
      <3>3. /\ r.fg = agent.fg /\ r.finalized = agent.finalized /\ r.run = NoRun
            /\ r.settled = agent.settled \cup {agent.run.token}
        BY <1>2, <3>1 DEF ClearRun, Agent
      <3> HIDE DEF r
      <3>4. /\ n.fg = agent.fg /\ n.finalized = agent.finalized /\ n.run = NoRun
            /\ n.settled = agent.settled \cup {agent.run.token}
        BY <3>2, <3>3 DEF Agent
      <3> QED
        BY <1>1, <1>3, <2>1, <3>4 DEF Keeps
    <2>3. CASE agent.run.kind # "foreground"
      <3>1. r = agent
        BY <2>3 DEF SettleForegroundRun
      <3>2. /\ n.fg = agent.fg /\ n.finalized = agent.finalized /\ n.run = agent.run
            /\ n.settled = agent.settled
        BY <1>2, <3>1 DEF Agent
      <3> QED
        BY <2>1, <3>2, KeepsSame
    <2> QED
      BY <2>2, <2>3
  <1>6. CASE agent.run.turn = None /\ captured[o].kind # "foreground"
    <2>1. TurnEvent("turn_canceled", None).turn \in Turns \cup {None}
      BY DEF TurnEvent
    <2> QED
      BY <1>1, <1>3, <1>6, <2>1, HandleTerminalStep DEF Forced
  <1> QED
    BY <1>4, <1>5, <1>6

AgentStep ==
    \/ Keeps(agent, agent', turn')
    \/ turn' = turn /\ (Opens(agent, agent') \/ Ends(agent, agent', turn))

LEMMA AgentStays ==
    ASSUME agent' = agent
    PROVE  AgentStep
  BY KeepsSame DEF AgentStep

LEMMA DispatchStep ==
    ASSUME IInv, EndsAreTold, DispatchNext
    PROVE  AgentStep
  <1> DEFINE e == Head(queue)
  <1>1. Sound(agent) /\ e \in Event /\ turn' = turn /\ agent' = Handle(agent, e)
    BY DEF IInv, Consistent, Buffered, DispatchNext, providerVars
  <1>2. e.turn \in Turns /\ e.type \in Terminals \cup {"turn_started", "item"}
    BY <1>1 DEF Event
  <1>3. CASE e.type \in Terminals
    <2>1. agent' = HandleTerminal(agent, e)
      BY <1>1, <1>3 DEF Handle, Terminals
    <2>2. TerminalTurn(agent, e.turn) = e.turn
      BY <1>2, NoneIsNoPrompt, TerminalTurnNamed
    <2>3. turn[e.turn] \in Ended
      <3>1. 1 \in DOMAIN queue /\ e = queue[1]
        BY DEF DispatchNext, IInv, Buffered
      <3> QED
        BY <1>3, <3>1 DEF EndsAreTold, Told
    <2> HIDE DEF e
    <2> QED
      BY <1>1, <1>2, <2>1, <2>2, <2>3, HandleTerminalStep DEF AgentStep
  <1>4. CASE e.type = "turn_started"
    <2>1. agent' = HandleStarted(agent, e)
      BY <1>1, <1>4 DEF Handle, Terminals
    <2> HIDE DEF e
    <2> QED
      BY <1>1, <1>2, <2>1, HandleStartedStep DEF AgentStep
  <1>5. CASE e.type = "item"
    <2>1. agent' = agent
      BY <1>1, <1>5 DEF Handle, Terminals
    <2> QED
      BY <2>1, AgentStays
  <1> QED
    BY <1>2, <1>3, <1>4, <1>5

LEMMA SendStep ==
    ASSUME IInv, NEW p \in Prompts,
           \/ StreamAgent(agent, p, agent)
           \/ StreamAgent(agent, p, [agent EXCEPT !.replacing = FALSE])
           \/ Replace(p)
    PROVE  AgentStep
  <1>1. agent \in Agent
    BY DEF IInv, Consistent, Sound
  <1>2. CASE StreamAgent(agent, p, agent)
    BY <1>1, <1>2, KeepsSame, StreamAgentStep DEF AgentStep
  <1>3. CASE StreamAgent(agent, p, [agent EXCEPT !.replacing = FALSE])
    <2> DEFINE n == [agent EXCEPT !.replacing = FALSE]
    <2>1. /\ n.fg = agent.fg /\ n.finalized = agent.finalized /\ n.run = agent.run
          /\ n.settled = agent.settled
      BY <1>1 DEF Agent
    <2>2. Keeps(agent, n, turn')
      BY <2>1, KeepsSame
    <2> QED
      BY <1>1, <1>3, <2>2, StreamAgentStep DEF AgentStep
  <1>4. CASE Replace(p)
    <2>1. /\ agent'.fg = agent.fg /\ agent'.finalized = agent.finalized /\ agent'.run = agent.run
          /\ agent'.settled = agent.settled
      BY <1>1, <1>4 DEF Replace, Agent
    <2> QED
      BY <2>1, KeepsSame DEF AgentStep
  <1> QED
    BY <1>2, <1>3, <1>4

LEMMA ContinuationStep ==
    ASSUME IInv, Continuation
    PROVE  AgentStep
  <1>1. agent \in Agent
    BY DEF IInv, Consistent, Sound
  <1>2. ASSUME NEW o \in Ops, CancelStarts(o)
        PROVE  AgentStep
    <2> DEFINE tracked == IF agent.lifecycle = "running"
                          THEN TrackAutonomousRun(agent, CancelToken(o), None) ELSE agent
    <2>1. agent' = agent \/ agent' = tracked
      BY <1>2 DEF CancelStarts, CancelReturns
    <2>2. Keeps(agent, tracked, turn')
      <3>1. CASE HasRun(agent)
        <4>1. tracked = agent
          BY <3>1 DEF TrackAutonomousRun
        <4> QED
          BY <4>1, KeepsSame
      <3>2. CASE ~ HasRun(agent)
        <4>1. /\ tracked.fg = agent.fg /\ tracked.finalized = agent.finalized
              /\ tracked.settled = agent.settled
          BY <1>1 DEF TrackAutonomousRun, Agent
        <4> QED
          BY <3>2, <4>1 DEF Keeps
      <3> QED
        BY <3>1, <3>2
    <2> HIDE DEF tracked
    <2> QED
      BY <2>1, <2>2, AgentStays DEF AgentStep
  <1>3. ASSUME NEW o \in Ops, CancelResumes(o)
        PROVE  AgentStep
    <2> DEFINE n == [agent EXCEPT !.replacing = FALSE]
    <2>1. /\ n.fg = agent.fg /\ n.finalized = agent.finalized /\ n.run = agent.run
          /\ n.settled = agent.settled
      BY <1>1 DEF Agent
    <2>2. Keeps(agent, n, turn')
      BY <2>1, KeepsSame
    <2>3. agent' = agent \/ agent' = n \/ (o \in Prompts /\ StreamAgent(agent, o, n))
      BY <1>3 DEF CancelResumes
    <2> QED
      BY <2>2, <2>3, AgentStays, SendStep DEF AgentStep
  <1>4. ASSUME NEW p \in Prompts, SteerStarts(p)
        PROVE  AgentStep
    BY <1>4, AgentStays DEF SteerStarts
  <1>5. ASSUME NEW p \in Prompts, SteerResumes(p)
        PROVE  AgentStep
    BY <1>5, AgentStays, SendStep DEF SteerResumes
  <1> QED
    BY <1>2, <1>3, <1>4, <1>5 DEF Continuation

LEMMA CancelTaskStep ==
    ASSUME IInv, ProviderInv, NEW o \in Ops, CancelStep(o)
    PROVE  AgentStep
  <1>1. CASE InterruptAcknowledged(o) \/ InterruptRefused(o)
    BY <1>1, AgentStays DEF InterruptAcknowledged, InterruptRefused, managerVars
  <1>2. CASE CancelCompletes(o)
    BY <1>2, AgentStays DEF CancelCompletes, CancelReturns
  <1>3. CASE CancelTimesOut(o)
    <2>1. /\ pc[o] = "settling" /\ ~ HasSettled(agent, o) /\ turn' = turn
          /\ agent' = agent \/ (acked[o] /\ agent' = Forced(o))
      BY <1>3 DEF CancelTimesOut, CancelReturns, providerVars
    <2> QED
      BY <2>1, AgentStays, ForcedStep DEF AgentStep, ProviderInv
  <1> QED
    BY <1>1, <1>2, <1>3 DEF CancelStep

LEMMA StartResolvesStep ==
    ASSUME IInv, NEW p \in Prompts, StartResolves(p)
    PROVE  AgentStep
  <1>1. pc[p] = "starting" /\ turn' = turn /\ Sound(agent)
    BY DEF StartResolves, providerVars, IInv, Consistent
  <1>2. CASE RunToken(p) \in agent.settled
    BY <1>2, AgentStays DEF StartResolves
  <1>3. CASE RunToken(p) \notin agent.settled
    <2>1. agent' = Opened(agent, p)
      BY <1>3 DEF StartResolves
    <2>2. IsPending(agent) /\ agent.run.token = RunToken(p) /\ p \notin agent.finalized
      BY <1>1, <1>3 DEF IInv, Consistent
    <2>3. agent.fg = None
      BY <1>1, <2>2 DEF Sound, Owned, IsPending
    <2>4. /\ agent'.fg = p /\ agent'.finalized = agent.finalized
          /\ agent'.settled = agent.settled
          /\ agent'.run.kind = "foreground" /\ agent'.run.token = RunToken(p)
      BY <1>1, <2>1, <2>2 DEF Opened, Sound, Agent, Run, IsPending
    <2> QED
      BY <1>1, <2>2, <2>3, <2>4 DEF Opens, AgentStep
  <1> QED
    BY <1>2, <1>3

LEMMA StartRejectsStep ==
    ASSUME IInv, Typed, NEW p \in Prompts, NEW stale \in BOOLEAN, StartRejects(p, stale)
    PROVE  AgentStep
  <1>1. pc[p] = "starting" /\ Sound(agent)
    BY DEF StartRejects, IInv, Consistent
  <1>2. CASE RunToken(p) \in agent.settled
    BY <1>2, AgentStays DEF StartRejects
  <1>3. CASE RunToken(p) \notin agent.settled
    <2>1. agent' = Rejected(agent, p, stale)
      BY <1>3 DEF StartRejects
    <2>2. IsPending(agent) /\ agent.run.token = RunToken(p)
      BY <1>1, <1>3 DEF IInv, Consistent
    <2>3. turn'[p] \in Ended
      BY DEF StartRejects, Typed, Ended, Turns
    <2> QED
      BY <1>1, <2>1, <2>2, <2>3, RejectedStep DEF AgentStep
  <1> QED
    BY <1>2, <1>3

\* The run of a stream that ends is not tracked any more.
LEMMA StreamEndsStep ==
    ASSUME IInv, NEW p \in Prompts, StreamEnds(p)
    PROVE  agent' = agent
  <1>1. pc[p] = "streaming" /\ p \notin agent.waiters /\ RunShape(agent)
    BY DEF StreamEnds, IInv, Consistent, Sound
  <1>2. ~ (agent.run.kind = "foreground" /\ agent.run.token = RunToken(p))
    <2> SUFFICES ASSUME agent.run.kind = "foreground", agent.run.token = RunToken(p)
                 PROVE  FALSE
      OBVIOUS
    <2>1. agent.run.turn # None
      BY <1>1 DEF IInv, Consistent
    <2> QED
      BY <1>1, <2>1, TokensDiffer DEF RunShape
  <1> QED
    BY <1>2 DEF StreamEnds, SettleForegroundRun

LEMMA NextStep ==
    ASSUME TypedInv, ProviderInv, [Next]_vars
    PROVE  AgentStep
  <1>1. IInv /\ Typed /\ EndsAreTold
    BY DEF TypedInv, ProviderInv
  <1>2. CASE UNCHANGED vars
    BY <1>2, AgentStays DEF vars, managerVars
  <1>3. ASSUME NEW p \in Prompts, NEW mode, Send(p, mode)
        PROVE  AgentStep
    BY <1>1, <1>3, AgentStays, SendStep DEF Send
  <1>4. ASSUME NEW p \in Prompts, StreamEnds(p) \/ SteerStep(p)
        PROVE  AgentStep
    BY <1>1, <1>4, AgentStays, StreamEndsStep DEF SteerStep, SteerAdmitted, SteerDrained, SteerAnswered
  <1>5. ASSUME NEW o \in Stops, Stop(o)
        PROVE  AgentStep
    BY <1>5, AgentStays DEF Stop
  <1>6. ASSUME ProviderStep
        PROVE  AgentStep
    BY <1>6, AgentStays DEF ProviderStep, ProviderAccepts, ProviderBegins, ProviderOutputs,
       ProviderEnds, Emit, managerVars
  <1>7. CASE Task
    BY <1>1, <1>3, <1>4, <1>5, <1>6, <1>7, StartResolvesStep, StartRejectsStep, CancelTaskStep
       DEF Task
  <1> QED
    BY <1>1, <1>2, <1>7, ContinuationStep, DispatchStep DEF Next

-----------------------------------------------------------------------------
(* The provider's part of the invariant is inductive.                        *)

LEMMA InitProvider == Init => ProviderInv
  <1> SUFFICES ASSUME Init PROVE ProviderInv
    OBVIOUS
  <1>1. EndsAreTold
    BY ToldParts DEF Init, EndsAreTold
  <1>2. SettledIsOver /\ TurnHasRun /\ StreamHasTurn /\ InterruptsHold
    BY DEF Init, SettledIsOver, TurnHasRun, StreamHasTurn, InterruptsHold, Ops, Turns
  <1> QED
    BY <1>1, <1>2 DEF ProviderInv

LEMMA ToldLater ==
    ASSUME Typed, [Next]_vars, NEW events \in Seq(Event), Told(events, turn)
    PROVE  Told(events, turn')
  <1> SUFFICES ASSUME NEW i \in DOMAIN events, events[i].type \in Terminals
               PROVE  turn'[events[i].turn] \in Ended
    BY DEF Told
  <1>0. events[i] \in Event
    OBVIOUS
  <1>1. events[i].turn \in Turns /\ turn[events[i].turn] \in Ended
    BY <1>0 DEF Told, Event
  <1> QED
    BY <1>1, TurnsAdvance DEF Over

LEMMA EmitTold ==
    ASSUME Buffered, NEW e \in Event, Emit(<<e>>),
           e.type \in Terminals => turn'[e.turn] \in Ended,
           Told(staged, turn'), Told(queue, turn'), Told(barrier, turn')
    PROVE  Told(staged', turn') /\ Told(queue', turn') /\ Told(barrier', turn')
  <1>1. /\ barrier' \in {barrier, barrier \o <<e>>}
        /\ staged' \in {staged, staged \o <<e>>}
        /\ queue' \in {queue, queue \o <<e>>}
    BY DEF Emit, Enqueue
  <1>2. <<e>> \in Seq(Event) /\ Told(<<e>>, turn')
    BY ToldParts, EventTypes
  <1> QED
    BY <1>1, <1>2, ToldParts DEF Buffered

LEMMA NextEndsAreTold ==
    ASSUME TypedInv, EndsAreTold, [Next]_vars
    PROVE  EndsAreTold'
  <1>1. Typed /\ Buffered /\ turn \in [Turns -> {"none", "accepted", "running", "aborted", "over"}]
    BY DEF TypedInv, IInv, Typed
  <1>2. /\ staged \in Seq(Event) /\ queue \in Seq(Event) /\ barrier \in Seq(Event)
        /\ Told(staged, turn') /\ Told(queue, turn') /\ Told(barrier, turn')
    BY <1>1, ToldLater DEF Buffered, EndsAreTold
  <1> SUFFICES Told(staged', turn') /\ Told(queue', turn') /\ Told(barrier', turn')
    BY DEF EndsAreTold
  <1> DEFINE Kept == /\ staged' \in {staged, <<>>} /\ barrier' \in {barrier, <<>>}
                     /\ queue' = queue
  <1>3. ASSUME Kept
        PROVE  Told(staged', turn') /\ Told(queue', turn') /\ Told(barrier', turn')
    BY <1>2, <1>3, ToldParts
  <1>4. CASE UNCHANGED vars
    BY <1>3, <1>4 DEF vars, managerVars
  <1>5. CASE Continuation
    <2>1. Kept
      BY <1>5 DEF Continuation, CancelStarts, CancelReturns, CancelResumes, SteerStarts,
            SteerResumes, StreamAgent, Replace
    <2> QED
      BY <1>3, <2>1
  <1>6. CASE DispatchNext
    BY <1>2, <1>6, ToldParts DEF DispatchNext
  <1>7. ASSUME NEW p \in Prompts, NEW mode, Send(p, mode)
        PROVE  Told(staged', turn') /\ Told(queue', turn') /\ Told(barrier', turn')
    <2>1. Kept
      BY <1>7 DEF Send, StreamAgent, Replace
    <2> QED
      BY <1>3, <2>1
  <1>8. ASSUME NEW p \in Prompts, StartResolves(p)
        PROVE  Told(staged', turn') /\ Told(queue', turn') /\ Told(barrier', turn')
    <2>1. WithoutStart(staged, p) \in Seq(Event) /\ Told(WithoutStart(staged, p), turn')
      BY <1>2, WithoutStartType, ToldWithoutStart
    <2>2. /\ queue' \in {queue, queue \o WithoutStart(staged, p)}
          /\ barrier' \in {barrier, barrier \o WithoutStart(staged, p)}
          /\ staged' \in {staged, <<>>}
      BY <1>8 DEF StartResolves
    <2> QED
      BY <1>2, <2>1, <2>2, ToldParts
  <1>9. ASSUME NEW p \in Prompts, NEW stale,
               StartRejects(p, stale) \/ StreamEnds(p) \/ SteerAdmitted(p) \/ SteerDrained(p)
        PROVE  Told(staged', turn') /\ Told(queue', turn') /\ Told(barrier', turn')
    <2>1. Kept
      BY <1>9 DEF StartRejects, StreamEnds, SteerAdmitted, SteerDrained
    <2> QED
      BY <1>3, <2>1
  <1>10. ASSUME NEW p \in Prompts, NEW answer, SteerAnswered(p, answer)
         PROVE  Told(staged', turn') /\ Told(queue', turn') /\ Told(barrier', turn')
    <2>1. /\ queue' \in {queue, queue \o barrier} /\ barrier' = <<>>
          /\ staged' \in {staged, staged \o barrier}
      BY <1>10 DEF SteerAnswered
    <2> QED
      BY <1>2, <2>1, ToldParts
  <1>11. ASSUME NEW o \in Ops, CancelStep(o) \/ Stop(o)
         PROVE  Told(staged', turn') /\ Told(queue', turn') /\ Told(barrier', turn')
    <2>1. Kept
      BY <1>11 DEF Stop, CancelStep, InterruptAcknowledged, InterruptRefused, CancelCompletes,
            CancelTimesOut, managerVars
    <2> QED
      BY <1>3, <2>1
  <1>12. CASE ProviderStep
    <2>1. ASSUME NEW p \in Prompts, ProviderAccepts(p)
          PROVE  Kept
      BY <2>1 DEF ProviderAccepts, managerVars
    <2>2. ASSUME NEW t \in Turns, ProviderBegins(t) \/ ProviderOutputs(t)
          PROVE  Told(staged', turn') /\ Told(queue', turn') /\ Told(barrier', turn')
      <3>1. CASE ProviderBegins(t)
        <4>1. TurnEvent("turn_started", t) \in Event
              /\ TurnEvent("turn_started", t).type \notin Terminals
          BY EventTypes DEF TurnEvent, Terminals
        <4> QED
          BY <1>1, <1>2, <3>1, <4>1, EmitTold DEF ProviderBegins
      <3>2. CASE ProviderOutputs(t)
        <4>1. /\ [type |-> "item", turn |-> t, asked |-> asked] \in Event
              /\ [type |-> "item", turn |-> t, asked |-> asked].type \notin Terminals
          BY <1>1, EventTypes DEF Buffered, Terminals
        <4> QED
          BY <1>1, <1>2, <3>2, <4>1, EmitTold DEF ProviderOutputs
      <3> QED
        BY <2>2, <3>1, <3>2
    <2>3. ASSUME NEW t \in Turns, NEW type \in Terminals, ProviderEnds(t, type)
          PROVE  Told(staged', turn') /\ Told(queue', turn') /\ Told(barrier', turn')
      <3>1. TurnEvent(type, t) \in Event /\ TurnEvent(type, t).turn = t
        BY EventTypes DEF TurnEvent
      <3>2. turn'[t] \in Ended
        BY <1>1, <2>3 DEF ProviderEnds, Ended
      <3> QED
        BY <1>1, <1>2, <2>3, <3>1, <3>2, EmitTold DEF ProviderEnds
    <2> QED
      BY <1>3, <1>12, <2>1, <2>2, <2>3 DEF ProviderStep
  <1>13. CASE Task
    <2>1. Stops \subseteq Ops
      BY DEF Ops
    <2> QED
      BY <1>7, <1>8, <1>9, <1>10, <1>11, <1>12, <1>13, <2>1 DEF Task, SteerStep
  <1> QED
    BY <1>4, <1>5, <1>6, <1>13 DEF Next

LEMMA NextSettledIsOver ==
    ASSUME TypedInv, ProviderInv, [Next]_vars
    PROVE  SettledIsOver'
  <1> SUFFICES ASSUME NEW p \in Prompts, RunToken(p) \in agent'.settled
               PROVE  turn'[p] \in Ended
    BY DEF SettledIsOver, Over
  <1>1. Typed /\ SettledIsOver /\ p \in Turns
    BY DEF TypedInv, ProviderInv, Turns
  <1>2. CASE RunToken(p) \in agent.settled
    BY <1>1, <1>2, TurnsAdvance DEF SettledIsOver
  <1>3. CASE RunToken(p) \notin agent.settled
    BY <1>3, NextStep, TokensDiffer DEF AgentStep, Keeps, Opens, Ends
  <1> QED
    BY <1>2, <1>3

\* A tracked run of a prompt stays tracked until it is settled.
LEMMA RunKept ==
    ASSUME TypedInv, ProviderInv, [Next]_vars, NEW p \in Prompts
    PROVE  /\ RunToken(p) \in agent.settled => RunToken(p) \in agent'.settled
           /\ agent.run.kind = "foreground" /\ agent.run.token = RunToken(p) =>
                 \/ RunToken(p) \in agent'.settled
                 \/ agent'.run.kind = "foreground" /\ agent'.run.token = RunToken(p)
  BY NextStep, TokensDiffer DEF AgentStep, Keeps, Opens, Ends, HasRun

LEMMA TurnBegins ==
    ASSUME TypedInv, InterruptsHold, [Next]_vars, NEW p \in Prompts,
           turn[p] = "none", turn'[p] # "none"
    PROVE  pc[p] = "starting"
  <1>1. /\ turn \in [Turns -> {"none", "accepted", "running", "aborted", "over"}]
        /\ p \in Turns /\ p \notin Autos
    BY AgentTurnAssumption DEF TypedInv, Typed, Turns
  <1>2. turn' # turn
    OBVIOUS
  <1>3. ~ UNCHANGED vars
    BY <1>2 DEF vars, providerVars
  <1>4. ~ Continuation /\ ~ DispatchNext
    BY <1>2 DEF Continuation, DispatchNext, CancelStarts, CancelResumes, SteerStarts,
           SteerResumes, providerVars
  <1>5. ASSUME NEW q \in Prompts, ProviderAccepts(q)
        PROVE  pc[p] = "starting"
    BY <1>1, <1>5 DEF ProviderAccepts
  <1>6. ASSUME NEW t \in Turns, ProviderBegins(t) \/ \E type \in Terminals : ProviderEnds(t, type)
        PROVE  pc[p] = "starting"
    BY <1>1, <1>6 DEF ProviderBegins, ProviderEnds
  <1>7. ASSUME NEW q \in Prompts, NEW stale, StartRejects(q, stale)
        PROVE  pc[p] = "starting"
    BY <1>1, <1>7 DEF StartRejects
  <1>8. ASSUME NEW o \in Ops, InterruptAcknowledged(o)
        PROVE  pc[p] = "starting"
    BY <1>1, <1>8 DEF InterruptAcknowledged, InterruptsHold
  <1>9. ASSUME NEW q \in Prompts, NEW mode,
               \/ Send(q, mode) \/ StartResolves(q) \/ StreamEnds(q) \/ SteerStep(q)
        PROVE  FALSE
    BY <1>2, <1>9 DEF Send, StartResolves, StreamEnds, SteerStep, SteerAdmitted, SteerDrained,
            SteerAnswered, providerVars
  <1>10. ASSUME NEW o, Stop(o) \/ InterruptRefused(o) \/ CancelCompletes(o) \/ CancelTimesOut(o)
         PROVE  FALSE
    BY <1>2, <1>10 DEF Stop, InterruptRefused, CancelCompletes, CancelTimesOut, providerVars
  <1>11. ASSUME NEW t \in Turns, ProviderOutputs(t)
         PROVE  FALSE
    BY <1>2, <1>11 DEF ProviderOutputs
  <1> QED
    BY <1>3, <1>4, <1>5, <1>6, <1>7, <1>8, <1>9, <1>10, <1>11
       DEF Next, Task, CancelStep, ProviderStep

LEMMA NextTurnHasRun ==
    ASSUME TypedInv, ProviderInv, [Next]_vars
    PROVE  TurnHasRun'
  <1> SUFFICES ASSUME NEW p \in Prompts, turn'[p] # "none"
               PROVE  \/ RunToken(p) \in agent'.settled
                      \/ agent'.run.kind = "foreground" /\ agent'.run.token = RunToken(p)
    BY DEF TurnHasRun
  <1>1. \/ RunToken(p) \in agent.settled
        \/ agent.run.kind = "foreground" /\ agent.run.token = RunToken(p)
    <2>1. CASE turn[p] = "none"
      <3>1. pc[p] = "starting"
        BY <2>1, TurnBegins DEF ProviderInv
      <3> QED
        BY <3>1 DEF TypedInv, IInv, Consistent, IsPending
    <2>2. CASE turn[p] # "none"
      BY <2>2 DEF ProviderInv, TurnHasRun
    <2> QED
      BY <2>1, <2>2
  <1> QED
    BY <1>1, RunKept

\* An operation that does not touch the interrupts moves on.
LEMMA InterruptsAside ==
    ASSUME TypedInv, InterruptsHold, [Next]_vars, interrupts' = interrupts,
           \A o \in Ops : acked'[o] =>
              acked[o] /\ pc'[o] = "settling" /\ captured'[o] = captured[o],
           \A o \in Ops : pc'[o] = "interrupting" =>
              pc[o] = "interrupting" /\ captured'[o] = captured[o],
           \A p \in Prompts : pc[p] = "starting" => pc'[p] = "starting" \/ turn'[p] # "none"
    PROVE  InterruptsHold'
  <1>1. Typed /\ Prompts \subseteq Turns
    BY DEF TypedInv, Turns
  <1>2. \A p \in Prompts : /\ turn[p] # "none" => turn'[p] # "none"
                           /\ Over(p) => turn'[p] \in Ended
    BY <1>1, TurnsAdvance
  <1> QED
    BY <1>2 DEF InterruptsHold, Over

LEMMA InterruptsMove ==
    ASSUME TypedInv, InterruptsHold, [Next]_vars,
           UNCHANGED <<interrupts, acked, captured>>,
           NEW o \in Ops, pc[o] # "settling", NEW l, l # "interrupting", Goto(o, l),
           o \in Prompts /\ pc[o] = "starting" => l = "starting" \/ turn'[o] # "none"
    PROVE  InterruptsHold'
  <1>1. pc \in [Ops -> Steps] /\ Prompts \subseteq Ops
    BY DEF TypedInv, IInv, Consistent, Ops
  <1>2. pc'[o] = l /\ \A x \in Ops : x # o => pc'[x] = pc[x]
    BY <1>1 DEF Goto
  <1>3. \A x \in Ops : acked'[x] => pc'[x] = "settling"
    BY <1>2 DEF InterruptsHold
  <1> QED
    BY <1>1, <1>2, <1>3, InterruptsAside

LEMMA InterruptsStay ==
    ASSUME TypedInv, InterruptsHold, [Next]_vars,
           UNCHANGED <<interrupts, acked, captured, pc>>
    PROVE  InterruptsHold'
  <1>1. \A o \in Ops : acked[o] => pc[o] = "settling"
    BY DEF InterruptsHold
  <1> QED
    BY <1>1, InterruptsAside

LEMMA InterruptsReturn ==
    ASSUME TypedInv, InterruptsHold, [Next]_vars, interrupts' = interrupts,
           NEW o \in Ops, pc[o] # "starting", NEW s, NEW status, NEW m,
           CancelReturns(s, o, status, m)
    PROVE  InterruptsHold'
  <1>1. /\ pc \in [Ops -> Steps] /\ Prompts \subseteq Ops /\ captured \in [Ops -> Run]
        /\ acked \in [Ops -> BOOLEAN]
    BY DEF TypedInv, IInv, Consistent, Ops, Typed
  <1>2. /\ pc'[o] = "returned" /\ ~ acked'[o]
        /\ \A x \in Ops : x # o =>
              pc'[x] = pc[x] /\ captured'[x] = captured[x] /\ acked'[x] = acked[x]
    BY <1>1 DEF CancelReturns, Goto
  <1>3. \A x \in Ops : acked[x] => pc[x] = "settling"
    BY DEF InterruptsHold
  <1> QED
    BY <1>1, <1>2, <1>3, InterruptsAside

\* A cancellation interrupts the turn of the run it captures.
LEMMA CancelStartsInterrupts ==
    ASSUME TypedInv, ProviderInv, NEW o \in Ops, CancelStarts(o), [Next]_vars
    PROVE  InterruptsHold'
  <1> DEFINE tracked == IF agent.lifecycle = "running"
                        THEN TrackAutonomousRun(agent, CancelToken(o), None) ELSE agent
             live == {p \in Prompts : \/ turn[p] \in {"accepted", "running"}
                                      \/ turn[p] = "none" /\ pc[p] = "starting"}
  <1>1. /\ pc[o] = "cancelQueued" /\ turn' = turn /\ InterruptsHold /\ StreamHasTurn /\ IInv
        /\ pc \in [Ops -> Steps] /\ captured \in [Ops -> Run] /\ interrupts \in [Ops -> SUBSET Prompts]
        /\ Prompts \subseteq Ops /\ Prompts \subseteq Turns
        /\ turn \in [Turns -> {"none", "accepted", "running", "aborted", "over"}]
    BY DEF CancelStarts, ProviderInv, TypedInv, Typed, IInv, Consistent, Ops, Turns
  <1>2. \/ interrupts' = interrupts /\ CancelReturns(agent, o, "not_running", Tail(micro))
        \/ /\ HasRun(tracked)
           /\ captured' = [captured EXCEPT ![o] = tracked.run]
           /\ interrupts' = [interrupts EXCEPT ![o] = live]
           /\ pc' = [pc EXCEPT ![o] = "interrupting"]
           /\ acked' = acked
    BY DEF CancelStarts, Goto
  <1>3. HasRun(tracked) =>
          \A p \in Prompts : tracked.run.token = RunToken(p) => p \in live \/ Over(p)
    <2> SUFFICES ASSUME HasRun(tracked), NEW p \in Prompts, tracked.run.token = RunToken(p)
                 PROVE  p \in live \/ Over(p)
      OBVIOUS
    <2>1. tracked.run = agent.run \/ tracked.run = AutonomousRun(CancelToken(o), None)
      BY DEF TrackAutonomousRun, IInv, Consistent, Sound, Agent
    <2>2. tracked.run = agent.run
      BY <2>1, TokensDiffer DEF AutonomousRun
    <2>3. agent.run.token = RunToken(p)
      BY <2>2
    <2>4. CASE agent.run.kind = "foreground"
      <3>1. pc[p] \in {"starting", "streaming"}
        BY <1>1, <2>3, <2>4 DEF IInv, Consistent
      <3> QED
        BY <1>1, <3>1 DEF StreamHasTurn, Over, Ended
    <2>5. CASE agent.run.kind = "autonomous"
      BY <1>1, <2>3, <2>5 DEF IInv, Consistent, Sound, RunShape
    <2> QED
      BY <1>1, <2>2, <2>4, <2>5 DEF IInv, Consistent, Sound, Agent, Run, HasRun
  <1> HIDE DEF tracked
  <1>4. CASE interrupts' = interrupts /\ CancelReturns(agent, o, "not_running", Tail(micro))
    BY <1>1, <1>4, InterruptsReturn
  <1>5. CASE /\ HasRun(tracked)
             /\ captured' = [captured EXCEPT ![o] = tracked.run]
             /\ interrupts' = [interrupts EXCEPT ![o] = live]
             /\ pc' = [pc EXCEPT ![o] = "interrupting"]
             /\ acked' = acked
    <2>1. /\ captured'[o] = tracked.run /\ interrupts'[o] = live /\ pc'[o] = "interrupting"
          /\ \A x \in Ops : x # o => /\ pc'[x] = pc[x] /\ captured'[x] = captured[x]
                                     /\ interrupts'[x] = interrupts[x]
      BY <1>1, <1>5
    <2>2. ~ acked[o]
      BY <1>1 DEF InterruptsHold
    <2>3. \A p \in Prompts : p \in live => turn[p] # "none" \/ pc'[p] = "starting"
      BY <1>1, <2>1
    <2>4. \A p \in Prompts : pc[p] = "starting" => pc'[p] = "starting"
      BY <1>1, <2>1
    <2> HIDE DEF live
    <2>5. \A x \in Ops : acked'[x] => pc'[x] = "settling"
      BY <1>1, <1>5, <2>1, <2>2 DEF InterruptsHold
    <2>6. ASSUME NEW x \in Ops, NEW p \in Prompts
          PROVE  /\ pc'[x] = "interrupting" /\ captured'[x].token = RunToken(p) =>
                       p \in interrupts'[x] \/ turn'[p] \in Ended
                 /\ p \in interrupts'[x] => turn'[p] # "none" \/ pc'[p] = "starting"
                 /\ acked'[x] /\ captured'[x].token = RunToken(p) => turn'[p] \in Ended
      <3>1. CASE x = o
        BY <1>1, <1>3, <1>5, <2>1, <2>2, <2>3, <3>1 DEF Over
      <3>2. CASE x # o
        BY <1>1, <1>5, <2>1, <2>4, <3>2 DEF InterruptsHold, Over
      <3> QED
        BY <3>1, <3>2
    <2> QED
      BY <2>5, <2>6 DEF InterruptsHold, Over
  <1> QED
    BY <1>2, <1>4, <1>5

\* An acknowledged interrupt leaves none of the turns it is about alive.
LEMMA AcknowledgedInterrupts ==
    ASSUME TypedInv, ProviderInv, NEW o \in Ops, InterruptAcknowledged(o), [Next]_vars
    PROVE  InterruptsHold'
  <1>1. /\ pc[o] = "interrupting" /\ captured' = captured /\ InterruptsHold /\ Typed
        /\ pc \in [Ops -> Steps] /\ interrupts \in [Ops -> SUBSET Prompts]
        /\ acked \in [Ops -> BOOLEAN]
        /\ Prompts \subseteq Ops /\ Prompts \subseteq Turns
        /\ turn \in [Turns -> {"none", "accepted", "running", "aborted", "over"}]
    BY DEF InterruptAcknowledged, ProviderInv, TypedInv, Typed, IInv, Consistent, Ops, Turns
  <1>2. /\ pc'[o] = "settling" /\ acked'[o] /\ interrupts'[o] = {}
        /\ \A x \in Ops : x # o => /\ pc'[x] = pc[x] /\ acked'[x] = acked[x]
                                   /\ interrupts'[x] = interrupts[x]
    BY <1>1 DEF InterruptAcknowledged, Goto
  <1>3. \A p \in interrupts[o] : turn'[p] \in Ended
    BY <1>1 DEF InterruptAcknowledged, Ended
  <1>4. \A p \in Prompts : /\ turn[p] # "none" => turn'[p] # "none"
                           /\ Over(p) => turn'[p] \in Ended
    BY <1>1, TurnsAdvance
  <1>5. \A x \in Ops : acked'[x] => pc'[x] = "settling"
    BY <1>1, <1>2 DEF InterruptsHold
  <1>6. ASSUME NEW x \in Ops, NEW p \in Prompts
        PROVE  /\ pc'[x] = "interrupting" /\ captured'[x].token = RunToken(p) =>
                     p \in interrupts'[x] \/ turn'[p] \in Ended
               /\ p \in interrupts'[x] => turn'[p] # "none" \/ pc'[p] = "starting"
               /\ acked'[x] /\ captured'[x].token = RunToken(p) => turn'[p] \in Ended
    <2>1. CASE x = o
      BY <1>1, <1>2, <1>3, <1>4, <2>1 DEF InterruptsHold
    <2>2. CASE x # o
      BY <1>1, <1>2, <1>4, <2>2 DEF InterruptsHold
    <2> QED
      BY <2>1, <2>2
  <1> QED
    BY <1>5, <1>6 DEF InterruptsHold, Over

LEMMA RefusedInterrupts ==
    ASSUME TypedInv, ProviderInv, NEW o \in Ops, InterruptRefused(o), [Next]_vars
    PROVE  InterruptsHold'
  <1>1. /\ pc[o] = "interrupting" /\ UNCHANGED <<captured, acked, turn>> /\ InterruptsHold
        /\ pc \in [Ops -> Steps] /\ interrupts \in [Ops -> SUBSET Prompts]
        /\ Prompts \subseteq Ops
    BY DEF InterruptRefused, ProviderInv, TypedInv, Typed, IInv, Consistent, Ops
  <1>2. /\ pc'[o] = "settling" /\ interrupts'[o] = {}
        /\ \A x \in Ops : x # o => pc'[x] = pc[x] /\ interrupts'[x] = interrupts[x]
    BY <1>1 DEF InterruptRefused, Goto
  <1>3. \A x \in Ops : acked'[x] => pc'[x] = "settling"
    BY <1>1, <1>2 DEF InterruptsHold
  <1>4. ASSUME NEW x \in Ops, NEW p \in Prompts
        PROVE  /\ pc'[x] = "interrupting" /\ captured'[x].token = RunToken(p) =>
                     p \in interrupts'[x] \/ turn'[p] \in Ended
               /\ p \in interrupts'[x] => turn'[p] # "none" \/ pc'[p] = "starting"
               /\ acked'[x] /\ captured'[x].token = RunToken(p) => turn'[p] \in Ended
    BY <1>1, <1>2 DEF InterruptsHold, Over
  <1> QED
    BY <1>3, <1>4 DEF InterruptsHold, Over

LEMMA NextInterruptsHold ==
    ASSUME TypedInv, ProviderInv, [Next]_vars
    PROVE  InterruptsHold'
  <1>1. InterruptsHold /\ Prompts \subseteq Ops /\ Stops \subseteq Ops
    BY DEF ProviderInv, Ops
  <1>2. CASE UNCHANGED vars
    BY <1>1, <1>2, InterruptsStay DEF vars, opVars, providerVars
  <1>3. CASE DispatchNext
    BY <1>1, <1>3, InterruptsStay DEF DispatchNext, opVars, providerVars
  <1>4. ASSUME NEW o \in Ops, CancelResumes(o)
        PROVE  InterruptsHold'
    <2>1. /\ UNCHANGED <<interrupts, acked, captured>> /\ pc[o] = "returned"
          /\ Goto(o, "done") \/ Goto(o, "failed") \/ Goto(o, "starting")
      BY <1>4 DEF CancelResumes, StreamAgent, providerVars
    <2> QED
      BY <1>1, <2>1, InterruptsMove
  <1>5. ASSUME NEW p \in Prompts, SteerStarts(p) \/ SteerResumes(p)
        PROVE  InterruptsHold'
    <2>1. /\ UNCHANGED <<interrupts, acked, captured>>
          /\ pc[p] \in {"steerQueued", "steerReturned"}
          /\ \/ Goto(p, "admitting") \/ Goto(p, "done") \/ Goto(p, "failed")
             \/ Goto(p, "starting") \/ Goto(p, "cancelQueued")
      BY <1>5 DEF SteerStarts, SteerResumes, StreamAgent, Replace, providerVars
    <2> QED
      BY <1>1, <2>1, InterruptsMove
  <1>6. ASSUME NEW p \in Prompts, NEW mode, Send(p, mode)
        PROVE  InterruptsHold'
    <2>1. /\ UNCHANGED <<interrupts, acked, captured>> /\ pc[p] = "idle"
          /\ \/ Goto(p, "failed") \/ Goto(p, "starting") \/ Goto(p, "cancelQueued")
             \/ Goto(p, "steerQueued")
      BY <1>6 DEF Send, StreamAgent, Replace, providerVars
    <2> QED
      BY <1>1, <2>1, InterruptsMove
  <1>7. ASSUME NEW p \in Prompts, StartResolves(p) \/ StreamEnds(p) \/ SteerStep(p)
        PROVE  InterruptsHold'
    <2>1. /\ UNCHANGED <<interrupts, acked, captured, turn>> /\ pc[p] # "settling"
          /\ pc[p] = "starting" => turn[p] # "none"
          /\ \/ Goto(p, "failed") \/ Goto(p, "streaming") \/ Goto(p, "done")
             \/ Goto(p, "steering") \/ Goto(p, "steerReturned") \/ Goto(p, "draining")
      BY <1>7 DEF StartResolves, StreamEnds, SteerStep, SteerAdmitted, SteerDrained,
            SteerAnswered, providerVars
    <2> QED
      BY <1>1, <2>1, InterruptsMove
  <1>8. ASSUME NEW p \in Prompts, NEW stale, StartRejects(p, stale)
        PROVE  InterruptsHold'
    <2>1. /\ UNCHANGED <<interrupts, acked, captured>> /\ pc[p] = "starting"
          /\ Goto(p, "failed")
      BY <1>8 DEF StartRejects
    <2>2. turn'[p] # "none"
      BY <1>8 DEF StartRejects, TypedInv, Typed, Turns
    <2> QED
      BY <1>1, <2>1, <2>2, InterruptsMove
  <1>9. ASSUME NEW o \in Stops, Stop(o)
        PROVE  InterruptsHold'
    <2>1. /\ UNCHANGED <<interrupts, acked, captured>> /\ pc[o] = "idle"
          /\ Goto(o, "cancelQueued")
      BY <1>9 DEF Stop, providerVars
    <2> QED
      BY <1>1, <2>1, InterruptsMove
  <1>10. ASSUME NEW o \in Ops, CancelCompletes(o) \/ CancelTimesOut(o)
         PROVE  InterruptsHold'
    <2>1. interrupts' = interrupts /\ pc[o] = "settling"
      BY <1>10 DEF CancelCompletes, CancelTimesOut, providerVars
    <2> QED
      BY <1>1, <1>10, <2>1, InterruptsReturn DEF CancelCompletes, CancelTimesOut
  <1>11. CASE ProviderStep
    <2>1. UNCHANGED <<interrupts, acked, captured, pc>>
      BY <1>11 DEF ProviderStep, ProviderAccepts, ProviderBegins, ProviderOutputs, ProviderEnds,
            opVars
    <2> QED
      BY <1>1, <2>1, InterruptsStay
  <1>12. CASE Continuation
    BY <1>4, <1>5, <1>12, CancelStartsInterrupts DEF Continuation
  <1>13. CASE Task
    BY <1>6, <1>7, <1>8, <1>9, <1>10, <1>11, <1>13, AcknowledgedInterrupts, RefusedInterrupts
       DEF Task, CancelStep
  <1> QED
    BY <1>2, <1>3, <1>12, <1>13 DEF Next

LEMMA NextStreamHasTurn ==
    ASSUME TypedInv, ProviderInv, [Next]_vars
    PROVE  StreamHasTurn'
  <1> SUFFICES ASSUME NEW p \in Prompts, pc'[p] = "streaming"
               PROVE  turn'[p] # "none"
    BY DEF StreamHasTurn
  <1>1. p \in Turns /\ Typed /\ StreamHasTurn /\ pc \in [Ops -> Steps] /\ p \in Ops
    BY DEF TypedInv, ProviderInv, Turns, Ops, IInv, Consistent
  <1>2. turn[p] # "none"
    <2>1. CASE pc[p] = "streaming"
      BY <1>1, <2>1 DEF StreamHasTurn
    <2>2. CASE pc[p] # "streaming"
      <3>1. ASSUME NEW o \in Ops, NEW l, Goto(o, l), l # "streaming"
            PROVE  FALSE
        BY <1>1, <2>2, <3>1 DEF Goto
      <3>2. pc' # pc
        BY <2>2
      <3>3. ~ UNCHANGED vars /\ ~ DispatchNext /\ ~ ProviderStep
        BY <3>2 DEF vars, opVars, DispatchNext, ProviderStep, ProviderAccepts, ProviderBegins,
              ProviderOutputs, ProviderEnds
      <3>4. Prompts \subseteq Ops /\ Stops \subseteq Ops
        BY DEF Ops
      <3>5. ~ Continuation
        BY <3>1, <3>4 DEF Continuation, CancelStarts, CancelReturns, CancelResumes, SteerStarts,
              SteerResumes, StreamAgent, Replace
      <3>6. ASSUME NEW q \in Prompts, NEW mode,
                   \/ Send(q, mode) \/ StartRejects(q, mode) \/ StreamEnds(q) \/ SteerStep(q)
            PROVE  FALSE
        BY <3>1, <3>4, <3>6 DEF Send, StreamAgent, Replace, StartRejects, StreamEnds, SteerStep,
              SteerAdmitted, SteerDrained, SteerAnswered
      <3>7. ASSUME NEW o \in Ops, Stop(o) \/ CancelStep(o)
            PROVE  FALSE
        BY <3>1, <3>7 DEF Stop, CancelStep, InterruptAcknowledged, InterruptRefused,
              CancelCompletes, CancelTimesOut, CancelReturns
      <3>8. ASSUME NEW q \in Prompts, StartResolves(q)
            PROVE  turn[p] # "none"
        <4>1. q = p
          BY <1>1, <2>2, <3>4, <3>8 DEF StartResolves, Goto
        <4> QED
          BY <3>8, <4>1 DEF StartResolves
      <3> QED
        BY <3>3, <3>4, <3>5, <3>6, <3>7, <3>8 DEF Next, Task
    <2> QED
      BY <2>1, <2>2
  <1> QED
    BY <1>1, <1>2, TurnsAdvance

FullInv == TypedInv /\ ProviderInv

LEMMA InitFull == Init => FullInv
  BY InitTyped, InitProvider DEF FullInv

LEMMA NextFull == FullInv /\ [Next]_vars => FullInv'
  <1> SUFFICES ASSUME FullInv, [Next]_vars PROVE ProviderInv'
    BY NextTyped DEF FullInv
  <1>1. TypedInv /\ ProviderInv /\ EndsAreTold
    BY DEF FullInv, ProviderInv
  <1> QED
    BY <1>1, NextEndsAreTold, NextSettledIsOver, NextTurnHasRun, NextStreamHasTurn,
       NextInterruptsHold DEF ProviderInv

THEOREM ProviderInvariant == Spec => []FullInv
  BY InitFull, NextFull, PTL DEF Spec

\* However starts, cancellations and the answers of the provider interleave,
\* while a prompt is being started no other foreground turn can still run in
\* the provider: the session is not split.
THEOREM SessionNotSplit == Spec => []NoSplitBrain
  <1>1. FullInv => NoSplitBrain
    <2> SUFFICES ASSUME FullInv, NEW p \in Prompts, NEW q \in Prompts, IsLive(p), p # q
                 PROVE  turn[q] \notin {"accepted", "running"}
      BY DEF NoSplitBrain
    <2>1. agent.run.token = RunToken(p)
      BY DEF FullInv, TypedInv, IInv, Consistent, IsLive
    <2>2. turn[q] # "none" => RunToken(q) \in agent.settled
      BY <2>1, TokensDiffer DEF FullInv, ProviderInv, TurnHasRun
    <2>3. turn[q] # "none" => turn[q] \in Ended
      BY <2>2 DEF FullInv, ProviderInv, SettledIsOver, Over
    <2> QED
      BY <2>3 DEF Ended
  <1> QED
    BY <1>1, ProviderInvariant, PTL

\* The turns of an agent are turns of ForegroundTurns: one is open at a time,
\* each is opened once, and none is given up before it is over in the provider.
THEOREM OneAfterAnother == Spec => OneTurnAfterAnother
  <1>1. Init => ForegroundTurn!Init
    BY DEF Init, ForegroundTurn!Init
  <1>2. FullInv /\ [Next]_vars => [ForegroundTurn!Next]_ForegroundTurn!turnsVars
    <2> SUFFICES ASSUME FullInv, [Next]_vars
                 PROVE  [ForegroundTurn!Next]_ForegroundTurn!turnsVars
      OBVIOUS
    <2> DEFINE over == {t \in Turns : turn[t] \in {"over", "aborted"}}
    <2>1. TypedInv /\ ProviderInv /\ Typed
      BY DEF FullInv, TypedInv
    <2>2. over \subseteq over'
      BY <2>1, TurnsAdvance DEF Over, Ended
    <2>3. CASE Keeps(agent, agent', turn')
      <3>1. over' \in SUBSET Turns /\ agent'.fg = agent.fg /\ agent'.finalized = agent.finalized
        BY <2>3 DEF Keeps
      <3> QED
        BY <2>2, <3>1 DEF ForegroundTurn!Next, ForegroundTurn!Finish
    <2>4. CASE turn' = turn /\ Opens(agent, agent')
      <3>1. PICK p \in Prompts : /\ agent.fg = None /\ agent'.fg = p
                                 /\ p \notin agent.finalized /\ agent'.finalized = agent.finalized
        BY <2>4 DEF Opens
      <3>2. over' = over /\ p \in Turns
        BY <2>4 DEF Turns
      <3> QED
        BY <3>1, <3>2 DEF ForegroundTurn!Next, ForegroundTurn!Open
    <2>5. CASE turn' = turn /\ Ends(agent, agent', turn)
      <3>1. over' = over /\ agent.fg \in over
        BY <2>5 DEF Ends, Ended, Turns
      <3> QED
        BY <2>5, <3>1 DEF Ends, ForegroundTurn!Next, ForegroundTurn!End
    <2> QED
      BY <2>1, <2>3, <2>4, <2>5, NextStep DEF AgentStep
  <1> QED
    BY <1>1, <1>2, ProviderInvariant, PTL DEF Spec, OneTurnAfterAnother, ForegroundTurn!Spec

-----------------------------------------------------------------------------
(***************************************************************************)
(* Proofs about the turns of an agent over time: who holds the agent busy, *)
(* in which order the events of the turns arrive, and what is left when    *)
(* nobody works with the agent any more.                                   *)
(*                                                                         *)
(* A turn that the provider starts by itself is known to the manager by    *)
(* its events only, so the invariant speaks of the events on their way:    *)
(* the end of the active turn is among them, before anything of the next   *)
(* one (OpenInv).  An agent that only shows busy is tracked by a run       *)
(* without a turn, which the cancellation that found it ends (PhantomInv). *)
(***************************************************************************)

-----------------------------------------------------------------------------
(* Who holds the agent busy for a replacement.                               *)

\* A prompt is on its way to replace the turn, or it started its run with the
\* agent held busy, and lets go when that run opens or fails.
Owner == \/ \E p \in Prompts : pc[p] \in CancelSteps
         \/ IsPending(agent) /\ agent.run.replaces

ReplacingOwned ==
    agent.replacing =>
        /\ agent.lifecycle # "idle"
        /\ (\A o \in Stops : pc[o] = "idle") => Owner

\* No session event and no forced cancellation lets go, or shows the agent idle.
StaysBusy(s, n) ==
    /\ n.replacing = s.replacing
    /\ s.replacing /\ s.lifecycle # "idle" => n.lifecycle # "idle"

LEMMA HandleTerminalBusy ==
    ASSUME NEW s, Sound(s), NEW e, e.turn \in Turns \cup {None}
    PROVE  StaysBusy(s, HandleTerminal(s, e))
  <1> DEFINE t == TerminalTurn(s, e.turn)
             n == HandleTerminal(s, e)
  <1>1. CASE t # None /\ t \in s.finalized
    BY <1>1 DEF HandleTerminal, StaysBusy
  <1>2. CASE ~ (t # None /\ t \in s.finalized)
    <2>1. /\ n.replacing = s.replacing
          /\ n.lifecycle = "idle" => s.lifecycle = "idle" \/ ~ s.replacing
      BY <1>2, HandleTerminalEffect
    <2> QED
      BY <2>1 DEF StaysBusy
  <1> QED
    BY <1>1, <1>2

LEMMA HandleBusy ==
    ASSUME NEW s, Sound(s), NEW e \in Event
    PROVE  StaysBusy(s, Handle(s, e)) /\ (IsPending(s) => Handle(s, e).run = s.run)
  <1>1. e.turn \in Turns /\ e.type \in Terminals \cup {"turn_started", "item"} /\ s \in Agent
    BY DEF Event, Sound
  <1>2. CASE e.type \in Terminals
    <2>1. Handle(s, e) = HandleTerminal(s, e)
      BY <1>2 DEF Handle, Terminals
    <2> QED
      BY <1>1, <2>1, HandleTerminalBusy, HandleTerminalAdvances
  <1>3. CASE e.type = "turn_started"
    <2>1. Handle(s, e) = HandleStarted(s, e)
      BY <1>3 DEF Handle, Terminals
    <2> DEFINE tracked == TrackAutonomousRun(s, TurnToken(e.turn), e.turn)
               n == [tracked EXCEPT !.active = e.turn, !.lifecycle = "running"]
    <2>2. HandleStarted(s, e) = s \/ HandleStarted(s, e) = n
      BY DEF HandleStarted
    <2>3. tracked \in Agent
      <3>1. AutonomousRun(TurnToken(e.turn), e.turn) \in Run
        BY <1>1, RunTypes, TokensDiffer
      <3> QED
        BY <1>1, <3>1 DEF TrackAutonomousRun, Agent
    <2>4. tracked.replacing = s.replacing /\ (HasRun(s) => tracked.run = s.run)
      BY <1>1 DEF TrackAutonomousRun, Agent
    <2> HIDE DEF tracked
    <2>5. n.replacing = s.replacing /\ n.lifecycle = "running" /\ (HasRun(s) => n.run = s.run)
      BY <2>3, <2>4 DEF Agent
    <2> QED
      BY <2>1, <2>2, <2>5 DEF StaysBusy, IsPending, HasRun
  <1>4. CASE e.type = "item"
    BY <1>4 DEF Handle, Terminals, StaysBusy
  <1> QED
    BY <1>1, <1>2, <1>3, <1>4

LEMMA ForcedBusy ==
    ASSUME Sound(agent), NEW o
    PROVE  StaysBusy(agent, Forced(o))
  <1>1. agent \in Agent /\ agent.run \in Run
    BY DEF Sound, Agent
  <1>2. ASSUME NEW t \in Turns \cup {None}
        PROVE  StaysBusy(agent, HandleTerminal(agent, TurnEvent("turn_canceled", t)))
    <2>1. TurnEvent("turn_canceled", t).turn \in Turns \cup {None}
      BY DEF TurnEvent
    <2> QED
      BY <2>1, HandleTerminalBusy
  <1>3. CASE agent.run.turn = None /\ captured[o].kind = "foreground"
    <2> DEFINE r == SettleForegroundRun(agent, captured[o].token)
               n == [r EXCEPT !.lifecycle = IF agent.replacing THEN @ ELSE "idle"]
    <2>1. Forced(o) = n
      BY <1>3 DEF Forced
    <2>2. r \in Agent
      BY <1>1, ClearRunType DEF SettleForegroundRun, Sound, RunShape, HasRun
    <2>3. r.replacing = agent.replacing /\ r.lifecycle = agent.lifecycle
      BY <1>1 DEF SettleForegroundRun, ClearRun, Agent
    <2> HIDE DEF r
    <2>4. /\ n.replacing = agent.replacing
          /\ agent.replacing => n.lifecycle = agent.lifecycle
      BY <2>2, <2>3 DEF Agent
    <2> QED
      BY <2>1, <2>4 DEF StaysBusy
  <1>4. CASE ~ (agent.run.turn = None /\ captured[o].kind = "foreground")
    <2>1. \E t \in Turns \cup {None} :
            Forced(o) = HandleTerminal(agent, TurnEvent("turn_canceled", t))
      BY <1>1, <1>4 DEF Forced, Run
    <2> QED
      BY <1>2, <2>1
  <1> QED
    BY <1>3, <1>4

LEMMA RejectedReleases ==
    ASSUME NEW s, Sound(s), IsPending(s), NEW p, s.run.token = RunToken(p),
           NEW stale \in BOOLEAN
    PROVE  ~ Rejected(s, p, stale).replacing /\ Rejected(s, p, stale).lifecycle # "running"
  <1> DEFINE released == [s EXCEPT !.replacing = FALSE]
             failed == HandleTerminal(released, TurnEvent("turn_failed", None))
             n == IF stale
                  THEN [released EXCEPT !.lifecycle = IF s.fg = None THEN "idle" ELSE @]
                  ELSE Finalize(failed, None)
  <1>1. s \in Agent /\ s.fg = None /\ RunShape(s)
    BY DEF Sound, Owned, IsPending
  <1>2. /\ released \in Agent /\ ~ released.replacing /\ released.run = s.run
        /\ Advances(s, released)
    BY <1>1, ReplaceAdvances DEF Agent
  <1>3. /\ n \in Agent /\ ~ n.replacing /\ n.lifecycle # "running" /\ n.run = s.run
    <2>1. CASE stale
      BY <1>1, <1>2, <2>1 DEF Agent
    <2>2. CASE ~ stale
      <3> HIDE DEF released
      <3>1. Sound(released) /\ IsPending(released) /\ TurnEvent("turn_failed", None).turn = None
        BY <1>2 DEF Advances, IsPending, TurnEvent
      <3>2. /\ Advances(released, failed) /\ failed.run = s.run
            /\ StaysBusy(released, failed)
        BY <1>2, <3>1, HandleTerminalAdvances, HandleTerminalBusy
      <3> HIDE DEF failed
      <3>3. failed \in Agent /\ ~ failed.replacing
        BY <1>2, <3>2 DEF Advances, Sound, StaysBusy
      <3>4. Finalize(failed, None) \in Agent /\ Finalize(failed, None).run = failed.run
        BY <3>3, FinalizeType, FinalizeEffect
      <3>5. ~ Finalize(failed, None).replacing /\ Finalize(failed, None).lifecycle # "running"
        BY <3>3, FinalizeLifecycle
      <3> QED
        BY <2>2, <3>2, <3>4, <3>5
    <2> QED
      BY <2>1, <2>2
  <1>4. Rejected(s, p, stale) = SettleForegroundRun(n, RunToken(p))
    BY DEF Rejected
  <1> HIDE DEF n
  <1> QED
    BY <1>3, <1>4 DEF SettleForegroundRun, ClearRun, Agent

\* A step that leaves the run and the cancellations where they are.
LEMMA OwnerStays ==
    ASSUME ReplacingOwned, StaysBusy(agent, agent'),
           IsPending(agent) => agent'.run = agent.run,
           \A p \in Prompts : pc[p] \in CancelSteps => pc'[p] \in CancelSteps,
           \A o \in Stops : pc'[o] = "idle" => pc[o] = "idle"
    PROVE  ReplacingOwned'
  BY DEF ReplacingOwned, Owner, StaysBusy, IsPending

LEMMA OwnerMoves ==
    ASSUME IInv, ReplacingOwned, agent' = agent,
           NEW o \in Ops, NEW l, Goto(o, l), l # "idle", pc[o] \in CancelSteps => l \in CancelSteps
    PROVE  ReplacingOwned'
  <1>1. pc \in [Ops -> Steps] /\ Prompts \subseteq Ops /\ Stops \subseteq Ops
    BY DEF IInv, Consistent, Ops
  <1>2. pc'[o] = l /\ \A x \in Ops : x # o => pc'[x] = pc[x]
    BY <1>1 DEF Goto
  <1>3. StaysBusy(agent, agent')
    BY DEF StaysBusy
  <1> QED
    BY <1>1, <1>2, <1>3, OwnerStays

LEMMA OwnerOfStream ==
    ASSUME IInv, ReplacingOwned, NEW p \in Prompts,
           \/ StreamAgent(agent, p, agent) /\ pc[p] \notin CancelSteps
           \/ StreamAgent(agent, p, [agent EXCEPT !.replacing = FALSE])
    PROVE  ReplacingOwned'
  <1>1. agent \in Agent /\ p \in Ops
    BY DEF IInv, Consistent, Sound, Ops
  <1>2. CASE agent' = agent /\ pc[p] \notin CancelSteps /\ Goto(p, "failed")
    BY <1>1, <1>2, OwnerMoves
  <1>3. CASE agent' = [agent EXCEPT !.replacing = FALSE]
    BY <1>1, <1>3 DEF ReplacingOwned, Agent
  <1>4. CASE agent' = [agent EXCEPT !.failed = FALSE, !.run = PendingRun(p, agent.replacing)]
    <2>1. /\ agent'.replacing = agent.replacing /\ agent'.lifecycle = agent.lifecycle
          /\ agent'.run = PendingRun(p, agent.replacing)
      BY <1>1, <1>4 DEF Agent
    <2> QED
      BY <2>1 DEF ReplacingOwned, Owner, IsPending, PendingRun
  <1> QED
    BY <1>2, <1>3, <1>4 DEF StreamAgent

LEMMA OwnerOfReplace ==
    ASSUME IInv, NEW p \in Prompts, Replace(p)
    PROVE  ReplacingOwned'
  <1>1. agent'.lifecycle = "running"
    BY DEF Replace, IInv, Consistent, Sound, Agent
  <1>2. pc'[p] \in CancelSteps
    BY DEF Replace, Goto, IInv, Consistent, Ops, CancelSteps
  <1> QED
    BY <1>1, <1>2 DEF ReplacingOwned, Owner

LEMMA OwnerOfReturn ==
    ASSUME IInv, ReplacingOwned, NEW o \in Ops, NEW s, StaysBusy(agent, s),
           NEW status, NEW m, CancelReturns(s, o, status, m)
    PROVE  ReplacingOwned'
  <1>1. pc \in [Ops -> Steps] /\ Ops = Prompts \cup Stops
    BY DEF IInv, Consistent, Ops
  <1>2. pc'[o] = "returned" /\ agent' = s
    BY <1>1 DEF CancelReturns, Goto
  <1> QED
    BY <1>1, <1>2 DEF ReplacingOwned, Owner, CancelSteps, StaysBusy

LEMMA OwnerOfContinuation ==
    ASSUME IInv, ReplacingOwned, Continuation
    PROVE  ReplacingOwned'
  <1>1. /\ agent \in Agent /\ Prompts \subseteq Ops /\ StaysBusy(agent, agent)
        /\ pc \in [Ops -> Steps] /\ Ops = Prompts \cup Stops
    BY DEF IInv, Consistent, Sound, Ops, StaysBusy
  <1>2. ASSUME NEW o \in Ops, CancelStarts(o)
        PROVE  ReplacingOwned'
    <2> DEFINE tracked == IF agent.lifecycle = "running"
                          THEN TrackAutonomousRun(agent, CancelToken(o), None) ELSE agent
    <2>1. CASE CancelReturns(agent, o, "not_running", Tail(micro))
      BY <1>1, <2>1, OwnerOfReturn
    <2>2. CASE agent' = tracked /\ Goto(o, "interrupting")
      <3>1. StaysBusy(agent, agent') /\ (IsPending(agent) => agent'.run = agent.run)
        BY <1>1, <2>2 DEF TrackAutonomousRun, Agent, StaysBusy, IsPending, HasRun
      <3>2. pc'[o] = "interrupting" /\ \A x \in Ops : x # o => pc'[x] = pc[x]
        BY <1>1, <2>2 DEF Goto
      <3> QED
        BY <1>1, <3>1, <3>2, OwnerStays DEF CancelSteps
    <2> QED
      BY <1>2, <2>1, <2>2 DEF CancelStarts
  <1>3. ASSUME NEW o \in Ops, CancelResumes(o)
        PROVE  ReplacingOwned'
    <2>1. CASE o \in Stops /\ Goto(o, "done") /\ agent' = agent
      <3>1. pc'[o] = "done"
        BY <1>1, <2>1 DEF Goto
      <3> QED
        BY <2>1, <3>1 DEF ReplacingOwned
    <2>2. CASE agent' = [agent EXCEPT !.replacing = FALSE]
      BY <1>1, <2>2 DEF ReplacingOwned, Agent
    <2>3. CASE o \in Prompts /\ StreamAgent(agent, o, [agent EXCEPT !.replacing = FALSE])
      BY <2>3, OwnerOfStream
    <2> QED
      BY <1>3, <2>1, <2>2, <2>3 DEF CancelResumes
  <1>4. ASSUME NEW p \in Prompts, SteerStarts(p)
        PROVE  ReplacingOwned'
    BY <1>1, <1>4, OwnerMoves DEF SteerStarts, CancelSteps
  <1>5. ASSUME NEW p \in Prompts, SteerResumes(p)
        PROVE  ReplacingOwned'
    <2>1. pc[p] \notin CancelSteps
      BY <1>5 DEF SteerResumes, CancelSteps
    <2>2. \/ agent' = agent /\ (Goto(p, "done") \/ Goto(p, "failed"))
          \/ Replace(p)
          \/ StreamAgent(agent, p, agent)
      BY <1>5 DEF SteerResumes
    <2> QED
      BY <1>1, <2>1, <2>2, OwnerMoves, OwnerOfReplace, OwnerOfStream
  <1> QED
    BY <1>2, <1>3, <1>4, <1>5 DEF Continuation

LEMMA OwnerOfStart ==
    ASSUME IInv, ReplacingOwned, NEW p \in Prompts, NEW stale \in BOOLEAN,
           StartResolves(p) \/ StartRejects(p, stale)
    PROVE  ReplacingOwned'
  <1>1. /\ agent \in Agent /\ Sound(agent) /\ pc[p] = "starting" /\ pc[p] \notin CancelSteps /\ p \in Ops
        /\ pc \in [Ops -> Steps] /\ Ops = Prompts \cup Stops
    BY DEF IInv, Consistent, Sound, Ops, StartResolves, StartRejects, CancelSteps
  <1>2. CASE RunToken(p) \in agent.settled
    <2>1. agent' = agent /\ Goto(p, "failed")
      BY <1>2 DEF StartResolves, StartRejects
    <2> QED
      BY <1>1, <2>1, OwnerMoves
  <1>3. CASE RunToken(p) \notin agent.settled
    <2>1. IsPending(agent) /\ agent.run.token = RunToken(p)
      BY <1>1, <1>3 DEF IInv, Consistent
    <2>2. CASE StartResolves(p)
      <3>1. agent' = Opened(agent, p) /\ Goto(p, "streaming")
        BY <1>3, <2>2 DEF StartResolves
      <3>2. /\ agent'.lifecycle = "running"
            /\ agent'.replacing => agent.replacing /\ ~ agent.run.replaces
        BY <1>1, <3>1 DEF Opened, Agent
      <3>3. pc'[p] = "streaming" /\ \A x \in Ops : x # p => pc'[x] = pc[x]
        BY <1>1, <3>1 DEF Goto
      <3> QED
        BY <1>1, <3>2, <3>3 DEF ReplacingOwned, Owner
    <2>3. CASE StartRejects(p, stale)
      <3>1. agent' = Rejected(agent, p, stale)
        BY <1>3, <2>3 DEF StartRejects
      <3> QED
        BY <1>1, <2>1, <3>1, RejectedReleases DEF ReplacingOwned
    <2> QED
      BY <2>2, <2>3
  <1> QED
    BY <1>2, <1>3

LEMMA OwnerOfTask ==
    ASSUME IInv, ReplacingOwned, Task
    PROVE  ReplacingOwned'
  <1>1. /\ Prompts \subseteq Ops /\ Stops \subseteq Ops /\ StaysBusy(agent, agent)
        /\ Sound(agent)
    BY DEF IInv, Consistent, Ops, StaysBusy
  <1>2. ASSUME NEW p \in Prompts, NEW mode, Send(p, mode)
        PROVE  ReplacingOwned'
    <2>1. pc[p] \notin CancelSteps
      BY <1>2 DEF Send, CancelSteps
    <2>2. \/ agent' = agent /\ Goto(p, "steerQueued")
          \/ Replace(p)
          \/ StreamAgent(agent, p, agent)
      BY <1>2 DEF Send
    <2> QED
      BY <1>1, <2>1, <2>2, OwnerMoves, OwnerOfReplace, OwnerOfStream
  <1>3. ASSUME NEW p \in Prompts, StreamEnds(p)
        PROVE  ReplacingOwned'
    <2>1. agent' = agent /\ pc[p] \notin CancelSteps /\ Goto(p, "done")
      BY <1>3, StreamEndsStep DEF StreamEnds, CancelSteps
    <2> QED
      BY <1>1, <2>1, OwnerMoves
  <1>4. ASSUME NEW p \in Prompts, SteerStep(p)
        PROVE  ReplacingOwned'
    <2>1. /\ agent' = agent /\ pc[p] \notin CancelSteps
          /\ Goto(p, "steering") \/ Goto(p, "steerReturned") \/ Goto(p, "draining")
      BY <1>4 DEF SteerStep, SteerAdmitted, SteerDrained, SteerAnswered, CancelSteps
    <2> QED
      BY <1>1, <2>1, OwnerMoves
  <1>5. ASSUME NEW o \in Stops, Stop(o)
        PROVE  ReplacingOwned'
    BY <1>1, <1>5, OwnerMoves DEF Stop, CancelSteps
  <1>6. ASSUME NEW o \in Ops, CancelStep(o)
        PROVE  ReplacingOwned'
    <2>1. CASE InterruptAcknowledged(o) \/ InterruptRefused(o)
      BY <2>1, OwnerMoves DEF InterruptAcknowledged, InterruptRefused, managerVars, CancelSteps
    <2>2. CASE CancelCompletes(o) \/ CancelTimesOut(o)
      BY <1>1, <2>2, OwnerOfReturn, ForcedBusy DEF CancelCompletes, CancelTimesOut
    <2> QED
      BY <1>6, <2>1, <2>2 DEF CancelStep
  <1>7. ASSUME ProviderStep
        PROVE  ReplacingOwned'
    <2>1. agent' = agent /\ pc' = pc
      BY <1>7 DEF ProviderStep, ProviderAccepts, ProviderBegins, ProviderOutputs, ProviderEnds,
            Emit, managerVars, opVars
    <2> QED
      BY <1>1, <2>1, OwnerStays
  <1> QED
    BY <1>2, <1>3, <1>4, <1>5, <1>6, <1>7, OwnerOfStart DEF Task

LEMMA NextOwner == IInv /\ ReplacingOwned /\ [Next]_vars => ReplacingOwned'
  <1> SUFFICES ASSUME IInv, ReplacingOwned, [Next]_vars PROVE ReplacingOwned'
    OBVIOUS
  <1>1. CASE UNCHANGED vars
    <2>1. agent' = agent /\ pc' = pc
      BY <1>1 DEF vars, managerVars, opVars
    <2> QED
      BY <2>1 DEF ReplacingOwned, Owner, IsPending
  <1>2. CASE DispatchNext
    <2>1. /\ Sound(agent) /\ Head(queue) \in Event /\ pc' = pc
          /\ agent' = Handle(agent, Head(queue))
      BY <1>2 DEF DispatchNext, IInv, Consistent, Buffered, opVars
    <2>2. StaysBusy(agent, agent') /\ (IsPending(agent) => agent'.run = agent.run)
      BY <2>1, HandleBusy
    <2> QED
      BY <2>1, <2>2, OwnerStays
  <1> QED
    BY <1>1, <1>2, OwnerOfContinuation, OwnerOfTask DEF Next

\* The agent is held busy, and does not show as idle, only while a prompt is on
\* its way to replace the turn, however that prompt is refused, overtaken or
\* fails to start.
THEOREM BusyHasOwner == Spec => []ReplacingHasOwner
  <1>1. Init => ReplacingOwned
    BY DEF Init, ReplacingOwned
  <1>2. Spec => [](IInv /\ ReplacingOwned)
    BY <1>1, InitIInv, NextIInv, NextOwner, PTL DEF Spec
  <1>3. IInv /\ ReplacingOwned => ReplacingHasOwner
    <2> SUFFICES ASSUME IInv, ReplacingOwned, agent.replacing, \A o \in Stops : pc[o] = "idle"
                 PROVE  \E p \in Prompts : pc[p] \in CancelSteps \/ IsLive(p)
      BY DEF ReplacingHasOwner, ReplacingOwned, CancelSteps
    <2>1. CASE IsPending(agent)
      <3>1. PICK p \in Prompts : agent.run.token = RunToken(p) /\ RunToken(p) \notin agent.settled
        BY <2>1 DEF IInv, Consistent, Sound, RunShape, IsPending
      <3>2. pc[p] = "starting"
        BY <2>1, <3>1 DEF IInv, Consistent, IsPending
      <3> QED
        BY <3>1, <3>2 DEF IsLive
    <2>2. CASE ~ IsPending(agent)
      BY <2>2 DEF ReplacingOwned, Owner
    <2> QED
      BY <2>1, <2>2
  <1> QED
    BY <1>2, <1>3, PTL

-----------------------------------------------------------------------------
(* Session events on their way, and the open turn.                           *)

\* The events the manager has still to dispatch: held back by a steer, held
\* back by a run that waits for its turn, or in the chain.
Ahead == IF steering # None THEN barrier ELSE IF IsPending(agent) THEN staged ELSE queue

Says(e, t) == e.type # "item" /\ e.turn = t
StartOf(e, t) == e.type = "turn_started" /\ e.turn = t
EndOf(e, t) == e.type \in Terminals /\ e.turn = t

\* The provider's own turns follow each other in the events: between events of
\* two of them the first one ends, and the last one ends or still runs.
TakeTurns(F) == \A i, j \in DOMAIN F : \A x, y \in Autos :
    i < j /\ Says(F[i], x) /\ Says(F[j], y) /\ x # y => \E k \in i .. (j - 1) : EndOf(F[k], x)
StillGoing(F, f) == \A i \in DOMAIN F : \A x \in Autos :
    Says(F[i], x) => f[x] = "running" \/ \E k \in i .. Len(F) : EndOf(F[k], x)

\* No turn starts after its end.
StartsFirst(F) == \A i, j \in DOMAIN F : \A t \in Turns :
    i < j /\ EndOf(F[i], t) => ~ StartOf(F[j], t)

\* An event of a prompt's turn is of the tracked run, or an end heard before.
OfRuns(F, s) == \A i \in DOMAIN F : \A p \in Prompts : Says(F[i], p) =>
    \/ p \in s.finalized /\ F[i].type \in Terminals
    \/ s.run.kind = "foreground" /\ s.run.token = RunToken(p)

\* The end of the active turn, if it is one of the provider's own, is still to
\* come, and comes before anything of another one.
ActiveFirst(F, s, f) == s.active \in Autos =>
    /\ f[s.active] = "running" \/ \E k \in DOMAIN F : EndOf(F[k], s.active)
    /\ \A j \in DOMAIN F : \A y \in Autos \ {s.active} : Says(F[j], y) =>
          \E k \in 1 .. (j - 1) : EndOf(F[k], s.active)

InOrder(F, s, f) ==
    TakeTurns(F) /\ StillGoing(F, f) /\ StartsFirst(F) /\ OfRuns(F, s) /\ ActiveFirst(F, s, f)

\* The active turn is the turn of the tracked run, if that has one.
ActiveHasRun(s) ==
    /\ s.active # None => HasRun(s) /\ s.run.turn \in {None, s.active}
    /\ s.run.kind = "autonomous" /\ s.run.turn # None => s.active = s.run.turn
    /\ s.active \in Prompts => s.fg = s.active
    /\ IsPending(s) => s.active = None
    /\ s.finalized \subseteq Prompts

\* Continuations, dispatched events and a steer that is being admitted exclude
\* each other, and nothing is dispatched while a run waits for its turn.
QueueWaits ==
    /\ micro = <<>> \/ queue = <<>>
    /\ IsPending(agent) => queue = <<>>
    /\ steering # None => micro = <<>> /\ queue = <<>>

SteerHolds ==
    /\ steering # None => pc[steering] = "steering" /\ agent.active = expected[steering]
    /\ \A p \in Prompts : pc[p] = "steering" => steering = p
    /\ \A p \in Prompts : pc[p] \in SteerSteps => expected[p] # None

OneAuto == \A x, y \in Autos : turn[x] = "running" /\ turn[y] = "running" => x = y

OpenInv ==
    /\ ActiveHasRun(agent) /\ InOrder(Ahead, agent, turn)
    /\ QueueWaits /\ SteerHolds /\ OneAuto

-----------------------------------------------------------------------------
(* Sequences of events.                                                      *)

LEMMA InOrderEmpty ==
    ASSUME NEW s, NEW f, s.active \notin Autos PROVE InOrder(<<>>, s, f)
  BY DEF InOrder, TakeTurns, StillGoing, StartsFirst, OfRuns, ActiveFirst

\* An event is added: only the provider's own turn that still runs, or starts,
\* has one.
LEMMA InOrderAppend ==
    ASSUME NEW F \in Seq(Event), NEW e \in Event, NEW s, NEW f, NEW g, InOrder(F, s, f),
           \A p \in Prompts : Says(e, p) => s.run.kind = "foreground" /\ s.run.token = RunToken(p),
           \A x, y \in Autos : Says(e, y) /\ x # y => f[x] # "running",
           \A x \in Autos : Says(e, x) => g[x] = "running" \/ EndOf(e, x),
           \A x \in Autos : f[x] = "running" => g[x] = "running" \/ EndOf(e, x),
           \A t \in Turns : StartOf(e, t) => \A i \in DOMAIN F : ~ EndOf(F[i], t)
    PROVE  InOrder(F \o <<e>>, s, g)
  <1> DEFINE G == F \o <<e>>
             m == Len(F) + 1
  <1>1. /\ Len(F) \in Nat /\ m \in Nat /\ DOMAIN F = 1 .. Len(F) /\ DOMAIN G = 1 .. m /\ Len(G) = m
        /\ G[m] = e /\ \A i \in 1 .. Len(F) : G[i] = F[i]
    OBVIOUS
  <1>2. /\ TakeTurns(F) /\ StillGoing(F, f) /\ StartsFirst(F) /\ OfRuns(F, s)
        /\ ActiveFirst(F, s, f)
    BY DEF InOrder
  <1> HIDE DEF G
  <1>3. TakeTurns(G)
    <2> SUFFICES ASSUME NEW i \in 1 .. m, NEW j \in 1 .. m, NEW x \in Autos, NEW y \in Autos,
                        i < j, Says(G[i], x), Says(G[j], y), x # y
                 PROVE  \E k \in i .. (j - 1) : EndOf(G[k], x)
      BY <1>1 DEF TakeTurns
    <2>1. i \in 1 .. Len(F) /\ Says(F[i], x)
      BY <1>1
    <2>2. CASE j \in 1 .. Len(F)
      <3>1. PICK k \in i .. (j - 1) : EndOf(F[k], x)
        BY <1>1, <1>2, <2>1, <2>2 DEF TakeTurns
      <3> QED
        BY <1>1, <2>1, <2>2, <3>1
    <2>3. CASE j = m
      <3>1. Says(e, y)
        BY <1>1, <2>3
      <3>2. PICK k \in i .. Len(F) : EndOf(F[k], x)
        BY <1>1, <1>2, <2>1, <3>1 DEF StillGoing
      <3> QED
        BY <1>1, <2>1, <2>3, <3>2
    <2> QED
      BY <1>1, <2>2, <2>3
  <1>4. StillGoing(G, g)
    <2> SUFFICES ASSUME NEW i \in 1 .. m, NEW x \in Autos, Says(G[i], x), g[x] # "running"
                 PROVE  \E k \in i .. m : EndOf(G[k], x)
      BY <1>1 DEF StillGoing
    <2>1. CASE i = m
      BY <1>1, <2>1
    <2>2. CASE i \in 1 .. Len(F) /\ f[x] = "running"
      <3>1. EndOf(G[m], x)
        BY <1>1, <2>2
      <3> QED
        BY <1>1, <3>1
    <2>3. CASE i \in 1 .. Len(F) /\ f[x] # "running"
      <3>1. PICK k \in i .. Len(F) : EndOf(F[k], x)
        BY <1>1, <1>2, <2>3 DEF StillGoing
      <3> QED
        BY <1>1, <2>3, <3>1
    <2> QED
      BY <1>1, <2>1, <2>2, <2>3
  <1>5. StartsFirst(G)
    <2> SUFFICES ASSUME NEW i \in 1 .. m, NEW j \in 1 .. m, NEW t \in Turns, i < j, EndOf(G[i], t)
                 PROVE  ~ StartOf(G[j], t)
      BY <1>1 DEF StartsFirst
    <2>1. i \in 1 .. Len(F) /\ EndOf(F[i], t)
      BY <1>1
    <2> QED
      BY <1>1, <1>2, <2>1 DEF StartsFirst
  <1>6. OfRuns(G, s)
    BY <1>1, <1>2 DEF OfRuns
  <1>7. ActiveFirst(G, s, g)
    <2> SUFFICES ASSUME s.active \in Autos PROVE ActiveFirst(G, s, g)
      BY DEF ActiveFirst
    <2>1. g[s.active] = "running" \/ \E k \in 1 .. m : EndOf(G[k], s.active)
      <3>1. CASE f[s.active] = "running"
        BY <1>1, <3>1
      <3>2. CASE f[s.active] # "running"
        BY <1>1, <1>2, <3>2 DEF ActiveFirst
      <3> QED
        BY <3>1, <3>2
    <2>2. ASSUME NEW j \in 1 .. m, NEW y \in Autos \ {s.active}, Says(G[j], y)
          PROVE  \E k \in 1 .. (j - 1) : EndOf(G[k], s.active)
      <3>1. CASE j = m
        <4>1. f[s.active] # "running"
          BY <1>1, <2>2, <3>1
        <4> QED
          BY <1>1, <1>2, <3>1, <4>1 DEF ActiveFirst
      <3>2. CASE j # m
        <4>1. j \in 1 .. Len(F) /\ Says(F[j], y)
          BY <1>1, <2>2, <3>2
        <4>2. PICK k \in 1 .. (j - 1) : EndOf(F[k], s.active)
          BY <1>1, <1>2, <4>1 DEF ActiveFirst
        <4> QED
          BY <1>1, <4>1, <4>2
      <3> QED
        BY <3>1, <3>2
    <2> QED
      BY <1>1, <2>1, <2>2 DEF ActiveFirst
  <1> QED
    BY <1>3, <1>4, <1>5, <1>6, <1>7 DEF InOrder, G

\* An event is dropped: the first one, or one that ends no turn.
LEMMA InOrderDrop ==
    ASSUME NEW F \in Seq(Event), NEW c \in DOMAIN F, NEW G \in Seq(Event), NEW f, NEW s,
           TakeTurns(F), StillGoing(F, f), StartsFirst(F), OfRuns(F, s),
           c = 1 \/ F[c].type \notin Terminals,
           Len(G) = Len(F) - 1,
           \A i \in 1 .. Len(G) : G[i] = F[IF i < c THEN i ELSE i + 1]
    PROVE  TakeTurns(G) /\ StillGoing(G, f) /\ StartsFirst(G) /\ OfRuns(G, s)
  <1> DEFINE at(i) == IF i < c THEN i ELSE i + 1
  <1>1. /\ Len(F) \in Nat /\ Len(G) \in Nat /\ c \in 1 .. Len(F) /\ DOMAIN F = 1 .. Len(F)
        /\ DOMAIN G = 1 .. Len(G)
        /\ \A i \in 1 .. Len(G) : at(i) \in 1 .. Len(F) /\ G[i] = F[at(i)]
        /\ \A i, j \in 1 .. Len(G) : i < j => at(i) < at(j)
    OBVIOUS
  <1>2. ASSUME NEW i \in 1 .. Len(G), NEW k \in at(i) .. Len(F), NEW x, EndOf(F[k], x)
        PROVE  \E l \in i .. Len(G) : k = at(l) /\ EndOf(G[l], x)
    <2>1. k # c
      BY <1>1, <1>2 DEF EndOf
    <2>2. CASE k < c
      <3>1. k \in i .. Len(G) /\ at(k) = k
        BY <1>1, <2>2
      <3>2. G[k] = F[k]
        BY <1>1, <3>1
      <3> QED
        BY <1>2, <3>1, <3>2
    <2>3. CASE k > c
      <3>1. k - 1 \in i .. Len(G) /\ at(k - 1) = k
        BY <1>1, <2>3
      <3>2. G[k - 1] = F[k]
        BY <1>1, <3>1
      <3> QED
        BY <1>2, <3>1, <3>2
    <2> QED
      BY <1>1, <2>1, <2>2, <2>3
  <1>3. TakeTurns(G)
    <2> SUFFICES ASSUME NEW i \in 1 .. Len(G), NEW j \in 1 .. Len(G), NEW x \in Autos, NEW y \in Autos,
                        i < j, Says(G[i], x), Says(G[j], y), x # y
                 PROVE  \E k \in i .. (j - 1) : EndOf(G[k], x)
      BY <1>1 DEF TakeTurns
    <2>1. PICK k \in at(i) .. (at(j) - 1) : EndOf(F[k], x)
      <3>1. at(i) \in DOMAIN F /\ at(j) \in DOMAIN F /\ at(i) < at(j) /\ G[i] = F[at(i)] /\ G[j] = F[at(j)]
        BY <1>1
      <3> HIDE DEF at
      <3> QED
        BY <3>1 DEF TakeTurns
    <2>2. k \in at(i) .. Len(F)
      BY <1>1
    <2>3. PICK l \in i .. Len(G) : k = at(l) /\ EndOf(G[l], x)
      BY <1>2, <2>1, <2>2
    <2>4. l < j
      BY <1>1, <2>1, <2>3
    <2> QED
      BY <1>1, <2>3, <2>4
  <1>4. StillGoing(G, f)
    <2> SUFFICES ASSUME NEW i \in 1 .. Len(G), NEW x \in Autos, Says(G[i], x), f[x] # "running"
                 PROVE  \E k \in i .. Len(G) : EndOf(G[k], x)
      BY <1>1 DEF StillGoing
    <2>1. PICK k \in at(i) .. Len(F) : EndOf(F[k], x)
      <3>1. at(i) \in DOMAIN F /\ G[i] = F[at(i)]
        BY <1>1
      <3> HIDE DEF at
      <3> QED
        BY <3>1 DEF StillGoing
    <2> QED
      BY <1>2, <2>1
  <1>5. StartsFirst(G)
    <2> SUFFICES ASSUME NEW i \in 1 .. Len(G), NEW j \in 1 .. Len(G), NEW t \in Turns, i < j, EndOf(G[i], t)
                 PROVE  ~ StartOf(G[j], t)
      BY <1>1 DEF StartsFirst
    <2>1. at(i) \in DOMAIN F /\ at(j) \in DOMAIN F /\ at(i) < at(j) /\ G[i] = F[at(i)] /\ G[j] = F[at(j)]
      BY <1>1
    <2> HIDE DEF at
    <2> QED
      BY <2>1 DEF StartsFirst
  <1>6. OfRuns(G, s)
    <2> HIDE DEF at
    <2> QED
      BY <1>1 DEF OfRuns
  <1> QED
    BY <1>3, <1>4, <1>5, <1>6

LEMMA TailDrops ==
    ASSUME NEW F \in Seq(Event), F # <<>>
    PROVE  /\ Tail(F) \in Seq(Event) /\ Len(Tail(F)) = Len(F) - 1 /\ 1 \in DOMAIN F /\ Head(F) = F[1]
           /\ \A i \in 1 .. Len(Tail(F)) : Tail(F)[i] = F[IF i < 1 THEN i ELSE i + 1]
           /\ \A i \in 1 .. Len(Tail(F)) : i + 1 \in DOMAIN F /\ Tail(F)[i] = F[i + 1]
  OBVIOUS

LEMMA WithoutStartDrops ==
    ASSUME NEW F \in Seq(Event), NEW p, WithoutStart(F, p) # F
    PROVE  LET w == WithoutStart(F, p) IN
           \E c \in DOMAIN F :
              /\ F[c] = TurnEvent("turn_started", p)
              /\ Len(w) = Len(F) - 1
              /\ \A i \in 1 .. Len(w) : w[i] = F[IF i < c THEN i ELSE i + 1]
  <1> DEFINE w == WithoutStart(F, p)
             starts == {i \in DOMAIN F : F[i] = TurnEvent("turn_started", p)}
             c == CHOOSE j \in starts : TRUE
  <1>1. starts # {}
    BY DEF WithoutStart
  <1>2. c \in 1 .. Len(F) /\ F[c] = TurnEvent("turn_started", p)
    BY <1>1
  <1>3. w = SubSeq(F, 1, c - 1) \o SubSeq(F, c + 1, Len(F))
    BY <1>1 DEF WithoutStart
  <1> HIDE DEF c, w
  <1> DEFINE a == SubSeq(F, 1, c - 1)
             b == SubSeq(F, c + 1, Len(F))
  <1>4. /\ a \in Seq(Event) /\ Len(a) = c - 1
        /\ \A i \in 1 .. Len(a) : a[i] = F[i]
    BY <1>2
  <1>5. /\ b \in Seq(Event) /\ Len(b) = Len(F) - c
        /\ \A i \in 1 .. Len(b) : b[i] = F[i + c]
    BY <1>2
  <1>6. w = a \o b
    BY <1>3
  <1> HIDE DEF a, b
  <1>7. Len(w) = Len(F) - 1
    <2>1. Len(a \o b) = Len(a) + Len(b)
      BY <1>4, <1>5
    <2> QED
      BY <1>2, <1>4, <1>5, <1>6, <2>1
  <1>8. ASSUME NEW i \in 1 .. Len(w)
        PROVE  w[i] = F[IF i < c THEN i ELSE i + 1]
    <2>1. CASE i < c
      BY <1>2, <1>4, <1>5, <1>6, <1>7, <2>1
    <2>2. CASE i >= c
      <3>1. w[i] = b[i - Len(a)] /\ i - Len(a) \in 1 .. Len(b)
        BY <1>2, <1>4, <1>5, <1>6, <1>7, <2>2
      <3>2. i - Len(a) + c = i + 1
        BY <1>2, <1>4
      <3>3. b[i - Len(a)] = F[i - Len(a) + c]
        BY <1>5, <3>1
      <3>4. w[i] = F[i + 1]
        BY <3>1, <3>2, <3>3
      <3>5. ~(i < c)
        BY <1>2, <2>2
      <3> QED
        BY <3>4, <3>5
    <2> QED
      BY <1>2, <2>1, <2>2
  <1> QED
    BY <1>2, <1>7, <1>8 DEF w

LEMMA InOrderWithoutStart ==
    ASSUME NEW F \in Seq(Event), NEW p, NEW f, NEW s,
           TakeTurns(F), StillGoing(F, f), StartsFirst(F), OfRuns(F, s)
    PROVE  LET G == WithoutStart(F, p) IN
           TakeTurns(G) /\ StillGoing(G, f) /\ StartsFirst(G) /\ OfRuns(G, s)
  <1>1. CASE WithoutStart(F, p) = F
    BY <1>1
  <1>2. CASE WithoutStart(F, p) # F
    <2>1. WithoutStart(F, p) \in Seq(Event)
      BY WithoutStartType
    <2>2. TurnEvent("turn_started", p).type \notin Terminals
      BY DEF TurnEvent, Terminals
    <2> DEFINE G == WithoutStart(F, p)
    <2>3. PICK c \in DOMAIN F :
              /\ F[c] = TurnEvent("turn_started", p)
              /\ Len(G) = Len(F) - 1
              /\ \A i \in 1 .. Len(G) : G[i] = F[IF i < c THEN i ELSE i + 1]
      BY <1>2, WithoutStartDrops
    <2>4. F[c].type \notin Terminals
      BY <2>2, <2>3
    <2> HIDE DEF G
    <2>5. TakeTurns(G) /\ StillGoing(G, f) /\ StartsFirst(G) /\ OfRuns(G, s)
      BY <2>1, <2>3, <2>4, InOrderDrop DEF G
    <2> QED
      BY <2>5 DEF G
  <1> QED
    BY <1>1, <1>2

-----------------------------------------------------------------------------
(* What a step does to the active turn.                                      *)

SameTurns(s, n) ==
    n.active = s.active /\ n.run = s.run /\ n.fg = s.fg /\ n.finalized = s.finalized

LEMMA SameTurnsHold ==
    ASSUME NEW s, NEW n, SameTurns(s, n)
    PROVE  /\ ActiveHasRun(s) => ActiveHasRun(n)
           /\ IsPending(n) <=> IsPending(s)
           /\ \A F, f : InOrder(F, s, f) => InOrder(F, n, f)
  <1>1. ActiveHasRun(s) => ActiveHasRun(n)
    BY DEF SameTurns, ActiveHasRun, HasRun, IsPending
  <1>2. IsPending(n) <=> IsPending(s)
    BY DEF SameTurns, IsPending
  <1>3. \A F, f : InOrder(F, s, f) => InOrder(F, n, f)
    BY DEF SameTurns, InOrder, OfRuns, ActiveFirst
  <1> QED
    BY <1>1, <1>2, <1>3

\* A terminal event closes the active turn with its run, or neither, unless it
\* is of a third turn.
LEMMA HandleTerminalActive ==
    ASSUME NEW s, Sound(s), ActiveHasRun(s), NEW e, e.turn \in Turns \cup {None},
           NEW t, t = TerminalTurn(s, e.turn),
           t = s.active \/ s.active = None \/ s.fg # None \/ t \in s.finalized
    PROVE  LET n == HandleTerminal(s, e) IN
           /\ ActiveHasRun(n)
           /\ n.active \in {s.active, None}
           /\ t = s.active /\ t \notin s.finalized => n.active = None
           /\ n.run \in {s.run, NoRun}
  <1> DEFINE n == HandleTerminal(s, e)
  <1>1. s \in Agent /\ RunShape(s) /\ Owned(s) /\ None \notin Prompts
    BY NoneIsNoPrompt DEF Sound
  <1>2. t \in Turns \cup {None}
    BY <1>1, TerminalTurnType
  <1>3. CASE t # None /\ t \in s.finalized
    <2>1. n = s
      BY <1>3 DEF HandleTerminal
    <2> QED
      BY <1>3, <2>1
  <1>4. CASE ~ (t # None /\ t \in s.finalized)
    <2>1. /\ n.run = IF Settles(s, t) THEN NoRun ELSE s.run
          /\ n.fg = IF IsForeground(s, t) THEN None ELSE s.fg
          /\ n.finalized = IF IsForeground(s, t) THEN s.finalized \cup {t} ELSE s.finalized
          /\ n.active = IF IsStale(s, t) THEN s.active ELSE None
      BY <1>4, HandleTerminalEffect, ZenonT(40)
    <2> HIDE DEF n
    <2>2. CASE IsStale(s, t)
      <3>1. s.fg # None /\ s.active = s.fg /\ s.run.kind = "foreground" /\ s.run.turn = s.fg /\ t # s.fg
        BY <1>1, <1>4, <2>2 DEF IsStale, Owned, ActiveHasRun
      <3>2. ~ Settles(s, t) /\ ~ IsForeground(s, t)
        BY <3>1 DEF Settles, IsForeground
      <3> QED
        BY <2>1, <2>2, <3>1, <3>2, SameTurnsHold DEF SameTurns, IsStale, n
    <2>3. CASE ~ IsStale(s, t)
      <3>1. n.active = None
        BY <2>1, <2>3
      <3>2. n.finalized \subseteq Prompts
        BY <1>1, <2>1 DEF ActiveHasRun, IsForeground, Owned
      <3>3. n.run.kind = "autonomous" => n.run.turn = None
        BY <2>1, <2>3 DEF Settles, IsStale, ActiveHasRun, NoRun
      <3>4. ActiveHasRun(n)
        BY <1>1, <3>1, <3>2, <3>3 DEF ActiveHasRun
      <3> QED
        BY <2>1, <3>1, <3>4 DEF n
    <2> QED
      BY <2>2, <2>3
  <1> QED
    BY <1>3, <1>4

\* A turn of the provider's own starts when no other turn is active.
LEMMA HandleStartedActive ==
    ASSUME NEW s, Sound(s), ActiveHasRun(s), ~ IsPending(s), NEW e, e.turn \in Turns,
           s.fg # None \/ (e.turn \in Autos /\ s.active \in {None, e.turn})
    PROVE  LET n == HandleStarted(s, e) IN
           /\ ActiveHasRun(n)
           /\ n.active = IF s.fg # None THEN s.active ELSE e.turn
           /\ n.finalized = s.finalized
           /\ HasRun(s) => n.run = s.run
           /\ HasRun(s) \/ s.fg # None \/ n.run = AutonomousRun(TurnToken(e.turn), e.turn)
           /\ s.fg # None => n = s
  <1>1. s \in Agent /\ RunShape(s) /\ Owned(s)
    BY DEF Sound
  <1>2. CASE s.fg # None
    <2>1. HandleStarted(s, e) = s
      BY <1>2 DEF HandleStarted
    <2> QED
      BY <1>2, <2>1
  <1>3. CASE s.fg = None
    <2> DEFINE tracked == TrackAutonomousRun(s, TurnToken(e.turn), e.turn)
               n == [tracked EXCEPT !.active = e.turn, !.lifecycle = "running"]
    <2>1. HandleStarted(s, e) = n
      BY <1>3 DEF HandleStarted
    <2>2. /\ tracked \in Agent /\ tracked.fg = None /\ tracked.finalized = s.finalized
          /\ tracked.run = IF HasRun(s) THEN s.run ELSE AutonomousRun(TurnToken(e.turn), e.turn)
      <3>1. AutonomousRun(TurnToken(e.turn), e.turn) \in Run
        BY RunTypes, TokensDiffer
      <3> QED
        BY <1>1, <1>3, <3>1 DEF TrackAutonomousRun, Agent
    <2> HIDE DEF tracked
    <2>3. /\ n.fg = None /\ n.finalized = s.finalized /\ n.active = e.turn
          /\ n.run = IF HasRun(s) THEN s.run ELSE AutonomousRun(TurnToken(e.turn), e.turn)
      BY <2>2 DEF Agent
    <2> HIDE DEF n
    <2>4. e.turn \notin Prompts /\ e.turn # None
      BY <1>3, AgentTurnAssumption, NoneIsNoPrompt
    <2>5. CASE HasRun(s)
      <3>1. s.run.kind = "autonomous"
        BY <1>1, <1>3, <2>5 DEF RunShape, IsPending, HasRun, Agent, Run
      <3>2. s.run.turn \in {None, e.turn}
        BY <1>3, <3>1 DEF ActiveHasRun
      <3>3. ActiveHasRun(n)
        BY <2>3, <2>4, <2>5, <3>1, <3>2 DEF ActiveHasRun, HasRun, IsPending
      <3> QED
        BY <1>3, <2>1, <2>3, <2>5, <3>3
    <2>6. CASE ~ HasRun(s)
      <3>1. n.run.kind = "autonomous" /\ n.run.turn = e.turn
        BY <2>3, <2>6 DEF AutonomousRun
      <3>2. ActiveHasRun(n)
        BY <2>3, <2>4, <3>1 DEF ActiveHasRun, HasRun, IsPending
      <3> QED
        BY <1>3, <2>1, <2>3, <2>6, <3>2
    <2> QED
      BY <2>5, <2>6
  <1> QED
    BY <1>2, <1>3

\* A forced cancellation closes the active turn with its run, or neither.
LEMMA ForcedActive ==
    ASSUME NEW o, Sound(agent), ActiveHasRun(agent)
    PROVE  /\ ActiveHasRun(Forced(o))
           /\ Forced(o).active \in {agent.active, None}
           /\ Forced(o).run \in {agent.run, NoRun}
  <1>1. agent \in Agent /\ agent.run \in Run /\ RunShape(agent) /\ Owned(agent)
    BY DEF Sound, Agent
  <1>2. CASE agent.run.turn # None
    <2> DEFINE e == TurnEvent("turn_canceled", agent.run.turn)
    <2>1. e.turn = agent.run.turn /\ e.turn \in Turns \cup {None}
      BY <1>1 DEF TurnEvent, Run
    <2>2. Forced(o) = HandleTerminal(agent, e)
      BY <1>2 DEF Forced
    <2>3. TerminalTurn(agent, e.turn) = agent.run.turn
      BY <1>2, <2>1, TerminalTurnNamed
    <2>4. agent.run.turn = agent.active \/ agent.fg # None \/ agent.active = None
      BY <1>1, <1>2 DEF ActiveHasRun, RunShape, Run
    <2> HIDE DEF e
    <2> QED
      BY <2>1, <2>2, <2>3, <2>4, HandleTerminalActive
  <1>3. CASE agent.run.turn = None /\ captured[o].kind = "foreground"
    <2> DEFINE r == SettleForegroundRun(agent, captured[o].token)
               n == [r EXCEPT !.lifecycle = IF agent.replacing THEN @ ELSE "idle"]
    <2>1. Forced(o) = n
      BY <1>3 DEF Forced
    <2>2. /\ r \in Agent /\ r.active = agent.active /\ r.fg = agent.fg
          /\ r.finalized = agent.finalized
          /\ r.run = IF agent.run.kind = "foreground" /\ agent.run.token = captured[o].token
                     THEN NoRun ELSE agent.run
      <3>1. CASE agent.run.kind = "foreground" /\ agent.run.token = captured[o].token
        <4>1. ClearRun(agent) \in Agent
          BY <1>1, <3>1, ClearRunType DEF RunShape, HasRun
        <4> QED
          BY <1>1, <3>1, <4>1 DEF SettleForegroundRun, ClearRun, Agent
      <3>2. CASE ~ (agent.run.kind = "foreground" /\ agent.run.token = captured[o].token)
        BY <1>1, <3>2 DEF SettleForegroundRun
      <3> QED
        BY <3>1, <3>2
    <2> HIDE DEF r
    <2>3. /\ n.active = r.active /\ n.fg = r.fg /\ n.finalized = r.finalized /\ n.run = r.run
      BY <2>2 DEF Agent
    <2> HIDE DEF n
    <2>4. CASE agent.run.kind = "foreground" /\ agent.run.token = captured[o].token
      <3>1. agent.active = None
        BY <1>3, <2>4 DEF ActiveHasRun, IsPending
      <3>2. ActiveHasRun(n)
        BY <2>2, <2>3, <2>4, <3>1, NoneIsNoPrompt DEF ActiveHasRun, NoRun, IsPending
      <3> QED
        BY <2>1, <2>2, <2>3, <2>4, <3>2
    <2>5. CASE ~ (agent.run.kind = "foreground" /\ agent.run.token = captured[o].token)
      BY <2>1, <2>2, <2>3, <2>5, SameTurnsHold DEF SameTurns
    <2> QED
      BY <2>4, <2>5
  <1>4. CASE agent.run.turn = None /\ captured[o].kind # "foreground"
    <2> DEFINE e == TurnEvent("turn_canceled", None)
    <2>1. e.turn = None /\ Forced(o) = HandleTerminal(agent, e)
      BY <1>4 DEF TurnEvent, Forced
    <2>2. TerminalTurn(agent, e.turn) = IF agent.fg # None THEN agent.fg ELSE agent.active
      BY <2>1, TerminalTurnUnnamed
    <2> HIDE DEF e
    <2> QED
      BY <2>1, <2>2, HandleTerminalActive
  <1> QED
    BY <1>2, <1>3, <1>4

\* No turn is active while a run waits for its turn, nor after it failed to.
LEMMA RejectedActive ==
    ASSUME NEW s, Sound(s), ActiveHasRun(s), IsPending(s), NEW p, s.run.token = RunToken(p),
           NEW stale \in BOOLEAN
    PROVE  ActiveHasRun(Rejected(s, p, stale)) /\ Rejected(s, p, stale).active = None
  <1> DEFINE released == [s EXCEPT !.replacing = FALSE]
             failed == HandleTerminal(released, TurnEvent("turn_failed", None))
             n == IF stale
                  THEN [released EXCEPT !.lifecycle = IF s.fg = None THEN "idle" ELSE @]
                  ELSE Finalize(failed, None)
             c == Rejected(s, p, stale)
  <1>1. s \in Agent /\ s.fg = None /\ s.active = None /\ RunShape(s)
    BY DEF Sound, Owned, IsPending, ActiveHasRun
  <1>2. Advances(s, c) /\ c.run = NoRun
    BY RejectedAdvances
  <1>3. c.finalized = s.finalized
    BY <1>1, <1>2 DEF Advances
  <1>4. /\ released \in Agent /\ released.active = None /\ released.fg = None /\ released.run = s.run
        /\ released.finalized = s.finalized /\ Advances(s, released)
    BY <1>1, ReplaceAdvances DEF Agent
  <1>5. n \in Agent /\ n.active = None /\ n.run = s.run
    <2>1. CASE stale
      BY <1>1, <1>4, <2>1 DEF Agent
    <2>2. CASE ~ stale
      <3> HIDE DEF released
      <3>1. Sound(released) /\ IsPending(released) /\ TurnEvent("turn_failed", None).turn = None
        BY <1>4 DEF Advances, IsPending, TurnEvent
      <3>2. ActiveHasRun(released)
        BY <1>1, <1>4, SameTurnsHold DEF SameTurns
      <3>3. failed.active = None
        BY <1>4, <3>1, <3>2, TerminalTurnUnnamed, HandleTerminalActive
      <3>4. Advances(released, failed) /\ failed.run = s.run
        BY <1>4, <3>1, HandleTerminalAdvances
      <3> HIDE DEF failed
      <3>5. failed \in Agent
        BY <3>4 DEF Advances, Sound
      <3>6. Finalize(failed, None) \in Agent /\ Finalize(failed, None).run = failed.run
        BY <3>5, FinalizeType, FinalizeEffect
      <3>7. Finalize(failed, None).active = None
        BY <3>3, <3>5, FinalizeLifecycle
      <3> QED
        BY <2>2, <3>4, <3>6, <3>7
    <2> QED
      BY <2>1, <2>2
  <1>6. c = SettleForegroundRun(n, RunToken(p))
    BY DEF Rejected
  <1> HIDE DEF n, c
  <1>7. c.active = None
    BY <1>5, <1>6 DEF SettleForegroundRun, ClearRun, Agent
  <1>8. ActiveHasRun(c)
    BY <1>2, <1>3, <1>7, NoneIsNoPrompt DEF ActiveHasRun, NoRun, IsPending
  <1> QED
    BY <1>7, <1>8 DEF c

-----------------------------------------------------------------------------
(* The steps that leave the events on their way as they are.                 *)

LEMMA AheadType == ASSUME Buffered PROVE Ahead \in Seq(Event)
  BY DEF Ahead, Buffered

LEMMA OrderOfTurns ==
    ASSUME NEW F, NEW s, NEW f, NEW g, InOrder(F, s, f), \A x \in Autos : g[x] = f[x]
    PROVE  InOrder(F, s, g)
  BY DEF InOrder, StillGoing, ActiveFirst

\* While a steer is admitted, nothing else runs in the lane and the turn it is
\* for is active.
LEMMA SteerExcludes ==
    ASSUME LaneInv, Typed, SteerHolds, steering # None
    PROVE  /\ Len(lane) > 0 /\ steering \in Prompts /\ pc[steering] = "steering"
           /\ \A o \in Ops : pc[o] \in InLane => o = steering
           /\ agent.active # None
  <1>1. steering \in Prompts /\ steering \in Ops /\ pc[steering] = "steering"
    BY DEF Typed, SteerHolds, Ops
  <1>2. \A o \in Ops : pc[o] \in InLane => Len(lane) > 0 /\ lane[1] = o
    BY DEF LaneInv, LaneInOrder
  <1>3. agent.active # None
    BY <1>1 DEF SteerHolds, SteerSteps
  <1> QED
    BY <1>1, <1>2, <1>3 DEF InLane

LEMMA SteerMoves ==
    ASSUME IInv, Typed, SteerHolds, NEW o \in Ops, NEW l \in Steps \ {"steering"}, Goto(o, l),
           pc[o] # "steering", steering' = steering,
           steering # None => agent'.active = agent.active,
           l \in SteerSteps /\ o \in Prompts => expected'[o] # None,
           \A q \in Prompts : q # o => expected'[q] = expected[q]
    PROVE  SteerHolds'
  <1>1. pc'[o] = l /\ (\A x \in Ops : x # o => pc'[x] = pc[x]) /\ Prompts \subseteq Ops
    BY DEF IInv, Consistent, Goto, Ops
  <1>2. steering # None => steering \in Prompts /\ steering # o
    BY DEF SteerHolds, Typed
  <1> QED
    BY <1>1, <1>2 DEF SteerHolds

LEMMA TaskWaits ==
    ASSUME Idle, QueueWaits, queue' = queue, steering' = steering,
           steering # None => micro' = micro
    PROVE  QueueWaits'
  BY DEF Idle, QueueWaits

LEMMA SameOrder ==
    ASSUME OpenInv, SameTurns(agent, agent'), UNCHANGED <<staged, queue, barrier, steering>>,
           \A x \in Autos : turn'[x] = turn[x]
    PROVE  ActiveHasRun(agent') /\ InOrder(Ahead', agent', turn') /\ OneAuto'
  <1>1. Ahead' = Ahead
    BY SameTurnsHold DEF Ahead, OpenInv
  <1>2. InOrder(Ahead, agent', turn)
    BY SameTurnsHold DEF OpenInv
  <1>3. InOrder(Ahead', agent', turn')
    BY <1>1, <1>2, OrderOfTurns
  <1>4. OneAuto'
    BY DEF OpenInv, OneAuto
  <1> QED
    BY <1>3, <1>4, SameTurnsHold DEF OpenInv

\* A run ends while nothing is left to dispatch.
LEMMA RunEndsInOrder ==
    ASSUME OpenInv, queue = <<>>, queue' = <<>>, steering = None, steering' = None,
           \A x \in Autos : turn'[x] = turn[x],
           ActiveHasRun(agent'), agent'.active \in {agent.active, None},
           agent'.run \in {agent.run, NoRun},
           IsPending(agent') => staged' = staged /\ agent.finalized \subseteq agent'.finalized
    PROVE  InOrder(Ahead', agent', turn') /\ OneAuto'
  <1>1. OneAuto'
    BY DEF OpenInv, OneAuto
  <1>2. CASE IsPending(agent')
    <2>1. agent'.run = agent.run /\ IsPending(agent)
      BY <1>2 DEF IsPending, NoRun
    <2>2. Ahead = staged /\ Ahead' = staged
      BY <1>2, <2>1 DEF Ahead
    <2>3. agent'.active = None /\ agent.active = None
      BY <1>2, <2>1 DEF ActiveHasRun, OpenInv
    <2>4. None \notin Autos
      BY AgentTurnAssumption
    <2>5. TakeTurns(staged) /\ StillGoing(staged, turn) /\ StartsFirst(staged) /\ OfRuns(staged, agent)
      BY <2>2 DEF OpenInv, InOrder
    <2>6. OfRuns(staged, agent')
      BY <1>2, <2>1, <2>5 DEF OfRuns
    <2>7. StillGoing(staged, turn')
      BY <2>5 DEF StillGoing
    <2> QED
      BY <1>1, <2>2, <2>3, <2>4, <2>5, <2>6, <2>7 DEF InOrder, ActiveFirst
  <1>3. CASE ~ IsPending(agent')
    <2>1. Ahead' = <<>>
      BY <1>3 DEF Ahead
    <2>2. ActiveFirst(<<>>, agent', turn')
      <3> SUFFICES ASSUME agent'.active \in Autos PROVE turn'[agent'.active] = "running"
        BY DEF ActiveFirst
      <3>1. agent'.active = agent.active /\ agent.active # None
        BY AgentTurnAssumption
      <3>2. Ahead = <<>>
        BY <3>1 DEF Ahead, OpenInv, ActiveHasRun
      <3> QED
        BY <3>1, <3>2 DEF OpenInv, InOrder, ActiveFirst
    <2>3. TakeTurns(<<>>) /\ StillGoing(<<>>, turn') /\ StartsFirst(<<>>) /\ OfRuns(<<>>, agent')
      BY DEF TakeTurns, StillGoing, StartsFirst, OfRuns
    <2> QED
      BY <1>1, <2>1, <2>2, <2>3 DEF InOrder
  <1> QED
    BY <1>2, <1>3

\* A prompt starts its run, or is refused.
LEMMA StreamAgentInOrder ==
    ASSUME TypedInv, OpenInv, NEW p \in Prompts, NEW refused \in {agent, [agent EXCEPT !.replacing = FALSE]},
           StreamAgent(agent, p, refused), UNCHANGED <<queue, barrier, steering, turn>>
    PROVE  /\ ActiveHasRun(agent') /\ InOrder(Ahead', agent', turn') /\ OneAuto'
           /\ agent'.active = agent.active
  <1>1. agent \in Agent
    BY DEF TypedInv, IInv, Consistent, Sound
  <1>2. CASE agent' = refused /\ staged' = staged
    <2>1. SameTurns(agent, agent')
      BY <1>1, <1>2 DEF SameTurns, Agent
    <2> QED
      BY <1>2, <2>1, SameOrder DEF SameTurns
  <1>3. CASE /\ agent.fg = None /\ ~ HasRun(agent) /\ staged' = <<>>
             /\ agent' = [agent EXCEPT !.failed = FALSE, !.run = PendingRun(p, agent.replacing)]
    <2>1. /\ agent'.active = agent.active /\ agent'.run = PendingRun(p, agent.replacing)
          /\ agent'.finalized = agent.finalized /\ agent'.fg = agent.fg
      BY <1>1, <1>3 DEF Agent
    <2>2. agent.active = None
      BY <1>3 DEF OpenInv, ActiveHasRun
    <2>3. steering = None
      BY <2>2, SteerExcludes DEF OpenInv, TypedInv
    <2>4. Ahead' = <<>> /\ None \notin Autos /\ None \notin Prompts
      BY <1>3, <2>1, <2>3, AgentTurnAssumption DEF Ahead, IsPending, PendingRun
    <2>5. InOrder(Ahead', agent', turn')
      BY <2>1, <2>2, <2>4, InOrderEmpty
    <2>6. ActiveHasRun(agent')
      BY <2>1, <2>2, <2>4 DEF OpenInv, ActiveHasRun, PendingRun
    <2> QED
      BY <2>1, <2>5, <2>6 DEF OpenInv, OneAuto
  <1> QED
    BY <1>2, <1>3 DEF StreamAgent

-----------------------------------------------------------------------------
(* The steps of the prompts and of the cancellations.                        *)

LEMMA SendOpen ==
    ASSUME TypedInv, OpenInv, Idle, NEW p \in Prompts, NEW mode, Send(p, mode)
    PROVE  OpenInv'
  <1>1. /\ IInv /\ LaneInv /\ Typed /\ p \in Ops /\ pc[p] = "idle" /\ agent \in Agent
        /\ ActiveHasRun(agent) /\ QueueWaits /\ SteerHolds
        /\ UNCHANGED <<queue, barrier, steering, turn>>
    BY DEF TypedInv, OpenInv, Send, Ops, IInv, Consistent, Sound, providerVars
  <1>2. steering # None => micro' = micro
    <2>1. micro' = micro \/ EnterLane(p, micro)
      BY DEF Send, laneVars
    <2> QED
      BY <1>1, <2>1, SteerExcludes DEF EnterLane
  <1>3. QueueWaits'
    BY <1>1, <1>2, TaskWaits
  <1>4. CASE StreamAgent(agent, p, agent) /\ expected' = expected
    <2>1. ActiveHasRun(agent') /\ InOrder(Ahead', agent', turn') /\ OneAuto' /\ agent'.active = agent.active
      BY <1>1, <1>4, StreamAgentInOrder
    <2>2. Goto(p, "failed") \/ Goto(p, "starting")
      BY <1>4 DEF StreamAgent
    <2>3. SteerHolds'
      BY <1>1, <1>4, <2>1, <2>2, SteerMoves, StepNames DEF SteerSteps
    <2> QED
      BY <1>3, <2>1, <2>3 DEF OpenInv
  <1>5. CASE /\ agent' = agent /\ staged' = staged /\ Goto(p, "steerQueued") /\ OpenTurn # None
             /\ expected' = [expected EXCEPT ![p] = OpenTurn]
    <2>1. ActiveHasRun(agent') /\ InOrder(Ahead', agent', turn') /\ OneAuto'
      BY <1>1, <1>5, SameOrder DEF SameTurns
    <2>2. expected'[p] # None /\ \A q \in Prompts : q # p => expected'[q] = expected[q]
      BY <1>1, <1>5 DEF Typed
    <2>3. SteerHolds'
      BY <1>1, <1>5, <2>2, SteerMoves DEF Steps, SteerSteps
    <2> QED
      BY <1>3, <2>1, <2>3 DEF OpenInv
  <1>6. CASE Replace(p) /\ expected' = expected
    <2>1. SameTurns(agent, agent') /\ Goto(p, "cancelQueued") /\ staged' = staged
      BY <1>1, <1>6 DEF Replace, SameTurns, Agent
    <2>2. ActiveHasRun(agent') /\ InOrder(Ahead', agent', turn') /\ OneAuto'
      BY <1>1, <2>1, SameOrder
    <2>3. SteerHolds'
      BY <1>1, <1>6, <2>1, SteerMoves DEF Steps, CancelSteps, SteerSteps, SameTurns
    <2> QED
      BY <1>3, <2>2, <2>3 DEF OpenInv
  <1> QED
    BY <1>4, <1>5, <1>6 DEF Send

LEMMA StartResolvesOpen ==
    ASSUME TypedInv, OpenInv, Idle, NEW p \in Prompts, StartResolves(p)
    PROVE  OpenInv'
  <1>1. /\ IInv /\ LaneInv /\ Typed /\ p \in Ops /\ pc[p] = "starting" /\ agent \in Agent
        /\ ActiveHasRun(agent) /\ QueueWaits /\ SteerHolds /\ queue = <<>>
        /\ UNCHANGED <<steering, turn, micro, expected>>
    BY DEF TypedInv, OpenInv, StartResolves, Ops, IInv, Consistent, Sound, providerVars, laneVars, Idle
  <1>2. CASE RunToken(p) \in agent.settled
    <2>1. UNCHANGED <<agent, staged, queue, barrier>> /\ Goto(p, "failed")
      BY <1>2 DEF StartResolves
    <2>2. ActiveHasRun(agent') /\ InOrder(Ahead', agent', turn') /\ OneAuto'
      BY <1>1, <2>1, SameOrder DEF SameTurns
    <2>3. SteerHolds'
      BY <1>1, <2>1, SteerMoves, StepNames DEF SteerSteps
    <2>4. QueueWaits'
      BY <1>1, <2>1, TaskWaits
    <2> QED
      BY <2>2, <2>3, <2>4 DEF OpenInv
  <1>3. CASE RunToken(p) \notin agent.settled
    <2>1. agent' = Opened(agent, p) /\ Goto(p, "streaming")
      BY <1>3 DEF StartResolves
    <2>2. IsPending(agent) /\ agent.run.token = RunToken(p)
      BY <1>1, <1>3 DEF IInv, Consistent
    <2>3. agent.active = None
      BY <1>1, <2>2 DEF ActiveHasRun
    <2>4. steering = None
      BY <1>1, <2>3, SteerExcludes
    <2> DEFINE G == WithoutStart(staged, p)
    <2>5. staged \in Seq(Event) /\ G \in Seq(Event) /\ queue' = queue \o G
      BY <1>1, <1>3, <2>4, WithoutStartType DEF StartResolves, IInv, Buffered
    <2>6. TakeTurns(G) /\ StillGoing(G, turn) /\ StartsFirst(G) /\ OfRuns(G, agent)
      <3>1. Ahead = staged
        BY <2>2, <2>4 DEF Ahead
      <3> QED
        BY <2>5, <3>1, InOrderWithoutStart DEF OpenInv, InOrder
    <2> HIDE DEF G
    <2>7. /\ agent'.active = p /\ agent'.fg = p /\ agent'.finalized = agent.finalized
          /\ agent'.run.kind = "foreground" /\ agent'.run.token = RunToken(p) /\ agent'.run.turn = p
      BY <1>1, <2>1, <2>2 DEF Opened, Agent, Run, IsPending
    <2>8. p # None /\ p \notin Autos
      BY NoneIsNoPrompt, AgentTurnAssumption
    <2>9. queue' = G
      BY <1>1, <2>5
    <2>10. Ahead' = G /\ ~ IsPending(agent')
      BY <1>1, <2>4, <2>7, <2>8, <2>9 DEF Ahead, IsPending
    <2>11. InOrder(Ahead', agent', turn')
      <3>1. OfRuns(G, agent')
        BY <2>2, <2>6, <2>7 DEF OfRuns
      <3>2. ActiveFirst(G, agent', turn')
        BY <2>7, <2>8 DEF ActiveFirst
      <3> QED
        BY <1>1, <2>6, <2>10, <3>1, <3>2 DEF InOrder
    <2>12. ActiveHasRun(agent')
      BY <1>1, <2>7, <2>8 DEF ActiveHasRun, HasRun, IsPending
    <2>13. SteerHolds'
      BY <1>1, <2>1, <2>4, SteerMoves, StepNames DEF SteerSteps
    <2>14. QueueWaits'
      BY <1>1, <2>4, <2>10 DEF QueueWaits, Idle
    <2> QED
      BY <1>1, <2>11, <2>12, <2>13, <2>14 DEF OpenInv, OneAuto
  <1> QED
    BY <1>2, <1>3

LEMMA StartRejectsOpen ==
    ASSUME TypedInv, OpenInv, Idle, NEW p \in Prompts, NEW stale \in BOOLEAN, StartRejects(p, stale)
    PROVE  OpenInv'
  <1>1. /\ IInv /\ LaneInv /\ Typed /\ p \in Ops /\ pc[p] = "starting" /\ Sound(agent)
        /\ ActiveHasRun(agent) /\ QueueWaits /\ SteerHolds /\ queue = <<>>
        /\ UNCHANGED <<steering, queue, barrier, micro, expected>> /\ Goto(p, "failed")
    BY DEF TypedInv, OpenInv, StartRejects, Ops, IInv, Consistent, laneVars, Idle
  <1>2. \A x \in Autos : turn'[x] = turn[x]
    BY <1>1, AgentTurnAssumption DEF StartRejects, Typed, Turns
  <1>3. QueueWaits'
    BY <1>1, TaskWaits
  <1>4. CASE RunToken(p) \in agent.settled
    <2>1. UNCHANGED <<agent, staged>>
      BY <1>4 DEF StartRejects
    <2>2. ActiveHasRun(agent') /\ InOrder(Ahead', agent', turn') /\ OneAuto'
      BY <1>1, <1>2, <2>1, SameOrder DEF SameTurns
    <2>3. SteerHolds'
      BY <1>1, <2>1, SteerMoves, StepNames DEF SteerSteps
    <2> QED
      BY <1>3, <2>2, <2>3 DEF OpenInv
  <1>5. CASE RunToken(p) \notin agent.settled
    <2>1. agent' = Rejected(agent, p, stale)
      BY <1>5 DEF StartRejects
    <2>2. IsPending(agent) /\ agent.run.token = RunToken(p) /\ agent.active = None
      BY <1>1, <1>5 DEF IInv, Consistent, ActiveHasRun
    <2>3. steering = None
      BY <1>1, <2>2, SteerExcludes
    <2>4. ActiveHasRun(agent') /\ agent'.active = None
      BY <1>1, <2>1, <2>2, RejectedActive
    <2>5. agent'.run = NoRun
      BY <1>1, <2>1, <2>2, RejectedAdvances
    <2>6. ~ IsPending(agent')
      BY <2>5 DEF IsPending, NoRun
    <2>7. InOrder(Ahead', agent', turn') /\ OneAuto'
      BY <1>1, <1>2, <2>3, <2>4, <2>5, <2>6, RunEndsInOrder
    <2>8. SteerHolds'
      BY <1>1, <2>3, SteerMoves, StepNames DEF SteerSteps
    <2> QED
      BY <1>3, <2>4, <2>7, <2>8 DEF OpenInv
  <1> QED
    BY <1>4, <1>5

LEMMA CancelStepOpen ==
    ASSUME TypedInv, OpenInv, Idle, NEW o \in Ops, CancelStep(o)
    PROVE  OpenInv'
  <1>1. /\ IInv /\ LaneInv /\ Typed /\ Sound(agent)
        /\ ActiveHasRun(agent) /\ QueueWaits /\ SteerHolds /\ queue = <<>>
        /\ pc[o] \in {"interrupting", "settling"}
        /\ UNCHANGED <<steering, queue, barrier, staged, expected>>
    BY DEF TypedInv, OpenInv, IInv, Consistent, Idle, CancelStep, InterruptAcknowledged,
           InterruptRefused, CancelCompletes, CancelTimesOut, managerVars
  <1>2. steering = None /\ pc[o] # "steering"
    BY <1>1, SteerExcludes DEF InLane
  <1>3. \A x \in Autos : turn'[x] = turn[x]
    <2>1. CASE InterruptAcknowledged(o)
      BY <1>1, <2>1, AgentTurnAssumption DEF InterruptAcknowledged, Typed, Turns
    <2>2. CASE ~ InterruptAcknowledged(o)
      BY <2>2 DEF CancelStep, InterruptRefused, CancelCompletes, CancelTimesOut, providerVars
    <2> QED
      BY <2>1, <2>2
  <1>4. QueueWaits'
    BY <1>1, <1>2, TaskWaits
  <1>5. SteerHolds'
    <2>1. Goto(o, "settling") \/ Goto(o, "returned")
      BY DEF CancelStep, InterruptAcknowledged, InterruptRefused, CancelCompletes, CancelTimesOut,
             CancelReturns
    <2> QED
      BY <1>1, <1>2, <2>1, SteerMoves DEF Steps, CancelSteps, SteerSteps
  <1>6. agent' = agent \/ agent' = Forced(o)
    BY DEF CancelStep, InterruptAcknowledged, InterruptRefused, CancelCompletes, CancelTimesOut,
           CancelReturns, managerVars
  <1>7. CASE agent' = agent
    <2>1. ActiveHasRun(agent') /\ InOrder(Ahead', agent', turn') /\ OneAuto'
      BY <1>1, <1>3, <1>7, SameOrder DEF SameTurns
    <2> QED
      BY <1>4, <1>5, <2>1 DEF OpenInv
  <1>8. CASE agent' = Forced(o)
    <2>1. /\ ActiveHasRun(agent') /\ agent'.active \in {agent.active, None}
          /\ agent'.run \in {agent.run, NoRun}
      BY <1>1, <1>8, ForcedActive
    <2>2. agent.finalized \subseteq agent'.finalized
      BY <1>1, <1>8, ForcedAdvances DEF Advances
    <2>3. InOrder(Ahead', agent', turn') /\ OneAuto'
      BY <1>1, <1>2, <1>3, <2>1, <2>2, RunEndsInOrder
    <2> QED
      BY <1>4, <1>5, <2>1, <2>3 DEF OpenInv
  <1> QED
    BY <1>6, <1>7, <1>8

LEMMA SteerStepOpen ==
    ASSUME TypedInv, OpenInv, Idle, NEW p \in Prompts, SteerStep(p)
    PROVE  OpenInv'
  <1>1. /\ IInv /\ LaneInv /\ Typed /\ p \in Ops
        /\ ActiveHasRun(agent) /\ QueueWaits /\ SteerHolds /\ queue = <<>> /\ micro = <<>>
        /\ expected' = expected /\ agent' = agent /\ turn' = turn
    BY DEF TypedInv, OpenInv, Idle, Ops, SteerStep, SteerAdmitted, SteerDrained, SteerAnswered, providerVars
  <1>2. /\ pc \in [Ops -> Steps] /\ expected \in [Prompts -> Turns \cup {None}] /\ Prompts \subseteq Ops
        /\ steering \in Prompts \cup {None} /\ None \notin Prompts
    BY <1>1, NoneIsNoPrompt DEF IInv, Consistent, Typed, Ops
  <1>3. OneAuto'
    BY <1>1 DEF OpenInv, OneAuto
  <1>4. ASSUME Ahead' = Ahead
        PROVE  ActiveHasRun(agent') /\ InOrder(Ahead', agent', turn')
    BY <1>1, <1>4 DEF OpenInv
  <1>5. CASE SteerAdmitted(p) /\ agent.active = expected[p]
    <2>1. pc[p] = "admitting" /\ steering = None
      BY <1>1, <1>5, SteerExcludes DEF SteerAdmitted, InLane
    <2>2. \A q \in Prompts : pc[q] # "steering"
      BY <1>1, <1>2, <2>1 DEF SteerHolds
    <2>3. /\ steering' = p /\ barrier' = <<>> /\ pc'[p] = "steering"
          /\ \A q \in Ops : q # p => pc'[q] = pc[q]
          /\ UNCHANGED <<queue, micro, staged>>
      BY <1>2, <1>5, <1>1 DEF SteerAdmitted, Goto, laneVars
    <2>4. expected[p] # None
      BY <1>1, <2>1 DEF SteerHolds, SteerSteps
    <2>5. ~ IsPending(agent)
      BY <1>1, <1>5, <2>4 DEF ActiveHasRun
    <2>6. Ahead' = Ahead
      BY <1>1, <1>2, <2>1, <2>3, <2>5 DEF Ahead
    <2>7. SteerHolds'
      BY <1>1, <1>2, <1>5, <2>2, <2>3, <2>4 DEF SteerHolds
    <2>8. QueueWaits'
      BY <1>1, <2>3 DEF QueueWaits
    <2> QED
      BY <1>3, <1>4, <2>6, <2>7, <2>8 DEF OpenInv
  <1>6. CASE (SteerAdmitted(p) /\ agent.active # expected[p]) \/ SteerDrained(p)
    <2>1. /\ Goto(p, "steerReturned") /\ UNCHANGED <<steering, barrier, queue, staged>>
          /\ pc[p] \in {"admitting", "draining"}
      BY <1>6 DEF SteerAdmitted, SteerDrained
    <2>2. steering = None
      BY <1>1, <2>1, SteerExcludes DEF InLane
    <2>3. Ahead' = Ahead
      BY <1>1, <2>1 DEF Ahead
    <2>4. expected[p] # None
      BY <1>1, <2>1 DEF SteerHolds, SteerSteps
    <2>5. SteerHolds'
      BY <1>1, <2>1, <2>4, SteerMoves, StepNames
    <2>6. QueueWaits'
      BY <1>1, <2>1, <2>2 DEF QueueWaits
    <2> QED
      BY <1>3, <1>4, <2>3, <2>5, <2>6 DEF OpenInv
  <1>7. ASSUME NEW answer, SteerAnswered(p, answer)
        PROVE  OpenInv'
    <2>0. pc[p] = "steering" /\ steering = p /\ steering # None
      BY <1>1, <1>2, <1>7 DEF SteerAnswered, SteerHolds
    <2>1. pc[p] = "steering" /\ steering = p /\ agent.active # None
      BY <1>1, <2>0, SteerExcludes
    <2>2. ~ IsPending(agent)
      BY <1>1, <2>1 DEF ActiveHasRun
    <2>3. /\ steering' = None /\ queue' = barrier /\ micro' = micro /\ pc'[p] = "draining"
          /\ \A q \in Ops : q # p => pc'[q] = pc[q]
      <3>1. queue' = queue \o barrier
        BY <1>7, <2>2 DEF SteerAnswered
      <3>2. barrier \in Seq(Event)
        BY <1>1 DEF IInv, Buffered
      <3>3. queue' = barrier
        BY <1>1, <3>1, <3>2
      <3> QED
        BY <1>2, <1>7, <3>3 DEF SteerAnswered, Goto, laneVars
    <2>4. Ahead' = Ahead
      BY <1>1, <1>2, <2>1, <2>2, <2>3 DEF Ahead
    <2>5. SteerHolds'
      BY <1>1, <1>2, <2>1, <2>3 DEF SteerHolds, SteerSteps
    <2>6. QueueWaits'
      BY <1>1, <2>2, <2>3 DEF QueueWaits
    <2> QED
      BY <1>3, <1>4, <2>4, <2>5, <2>6 DEF OpenInv
  <1> QED
    BY <1>5, <1>6, <1>7 DEF SteerStep

LEMMA ContinuationOpen ==
    ASSUME TypedInv, OpenInv, Continuation
    PROVE  OpenInv'
  <1>1. /\ IInv /\ LaneInv /\ Typed /\ agent \in Agent /\ Sound(agent) /\ Prompts \subseteq Ops
        /\ ActiveHasRun(agent) /\ QueueWaits /\ SteerHolds /\ InOrder(Ahead, agent, turn) /\ OneAuto
    BY DEF TypedInv, OpenInv, IInv, Consistent, Sound, Ops
  <1>2. micro # <<>> /\ UNCHANGED <<queue, barrier, steering, turn, expected>>
    BY DEF Continuation, CancelStarts, CancelResumes, SteerStarts, SteerResumes, Continues, providerVars
  <1>3. queue = <<>> /\ steering = None
    BY <1>1, <1>2 DEF QueueWaits
  <1>4. QueueWaits'
    BY <1>2, <1>3 DEF QueueWaits
  <1>5. ASSUME NEW o \in Ops, pc[o] # "steering",
               NEW l \in Steps \ {"steering"}, Goto(o, l),
               l \in SteerSteps /\ o \in Prompts => pc[o] \in SteerSteps
        PROVE  SteerHolds'
    BY <1>1, <1>2, <1>3, <1>5, SteerMoves DEF SteerHolds
  <1>6. ASSUME NEW p \in Prompts, NEW refused \in {agent, [agent EXCEPT !.replacing = FALSE]},
               StreamAgent(agent, p, refused), pc[p] # "steering"
        PROVE  OpenInv'
    <2>1. Goto(p, "failed") \/ Goto(p, "starting")
      BY <1>6 DEF StreamAgent
    <2>2. SteerHolds'
      BY <1>1, <1>5, <1>6, <2>1, StepNames DEF SteerSteps
    <2> QED
      BY <1>2, <1>4, <1>6, <2>2, StreamAgentInOrder DEF OpenInv
  <1>7. ASSUME NEW o \in Ops, CancelStarts(o)
        PROVE  OpenInv'
    <2> DEFINE tracked == IF agent.lifecycle = "running"
                          THEN TrackAutonomousRun(agent, CancelToken(o), None) ELSE agent
    <2>1. /\ pc[o] = "cancelQueued"
          /\ Goto(o, "returned") \/ Goto(o, "interrupting")
          /\ agent' = agent \/ agent' = tracked
          /\ staged' = staged
      BY <1>7 DEF CancelStarts, CancelReturns
    <2>2. SteerHolds'
      BY <1>5, <2>1 DEF Steps, CancelSteps, SteerSteps
    <2>3. ActiveHasRun(agent') /\ InOrder(Ahead', agent', turn') /\ OneAuto'
      <3>1. CASE agent' = agent
        BY <1>2, <2>1, <3>1, SameOrder DEF SameTurns
      <3>2. CASE agent' # agent
        <4>1. agent' = [agent EXCEPT !.run = AutonomousRun(CancelToken(o), None)] /\ ~ HasRun(agent)
          BY <2>1, <3>2 DEF TrackAutonomousRun
        <4>2. /\ agent'.run = AutonomousRun(CancelToken(o), None) /\ agent'.active = agent.active
              /\ agent'.finalized = agent.finalized
          BY <1>1, <4>1 DEF Agent
        <4>3. agent.active = None /\ ~ IsPending(agent) /\ ~ IsPending(agent')
          BY <1>1, <4>1, <4>2 DEF ActiveHasRun, HasRun, IsPending, AutonomousRun
        <4>4. Ahead' = <<>> /\ None \notin Autos
          BY <1>2, <1>3, <4>3, AgentTurnAssumption DEF Ahead
        <4>5. ActiveHasRun(agent')
          BY <1>1, <4>2, <4>3, NoneIsNoPrompt DEF ActiveHasRun, AutonomousRun
        <4> QED
          BY <1>1, <1>2, <4>2, <4>3, <4>4, <4>5, InOrderEmpty DEF OneAuto
      <3> QED
        BY <3>1, <3>2
    <2> QED
      BY <1>4, <2>2, <2>3 DEF OpenInv
  <1>8. ASSUME NEW o \in Ops, CancelResumes(o)
        PROVE  OpenInv'
    <2>1. pc[o] = "returned"
      BY <1>8 DEF CancelResumes
    <2>2. CASE /\ agent' \in {agent, [agent EXCEPT !.replacing = FALSE]} /\ staged' = staged
               /\ Goto(o, "done") \/ Goto(o, "failed")
      <3>1. SameTurns(agent, agent')
        BY <1>1, <2>2 DEF SameTurns, Agent
      <3>2. SteerHolds'
        BY <1>5, <2>1, <2>2, StepNames DEF SteerSteps
      <3> QED
        BY <1>2, <1>4, <2>2, <3>1, <3>2, SameOrder DEF OpenInv
    <2>3. CASE o \in Prompts /\ StreamAgent(agent, o, [agent EXCEPT !.replacing = FALSE])
      BY <1>6, <2>1, <2>3
    <2> QED
      BY <1>8, <2>2, <2>3 DEF CancelResumes
  <1>9. ASSUME NEW p \in Prompts, SteerStarts(p)
        PROVE  OpenInv'
    <2>1. pc[p] = "steerQueued" /\ Goto(p, "admitting") /\ agent' = agent /\ staged' = staged
      BY <1>9 DEF SteerStarts
    <2>2. SteerHolds'
      BY <1>1, <1>5, <2>1 DEF Steps, SteerSteps
    <2> QED
      BY <1>2, <1>4, <2>1, <2>2, SameOrder DEF OpenInv, SameTurns
  <1>10. ASSUME NEW p \in Prompts, SteerResumes(p)
         PROVE  OpenInv'
    <2>1. pc[p] = "steerReturned"
      BY <1>10 DEF SteerResumes
    <2>2. CASE agent' = agent /\ staged' = staged /\ (Goto(p, "done") \/ Goto(p, "failed"))
      <3>1. SteerHolds'
        BY <1>1, <1>5, <2>1, <2>2, StepNames DEF SteerSteps
      <3> QED
        BY <1>2, <1>4, <2>2, <3>1, SameOrder DEF OpenInv, SameTurns
    <2>3. CASE Replace(p)
      <3>1. SameTurns(agent, agent') /\ Goto(p, "cancelQueued") /\ staged' = staged
        BY <1>1, <2>3 DEF Replace, SameTurns, Agent
      <3>2. SteerHolds'
        BY <1>1, <1>5, <2>1, <3>1 DEF Steps, CancelSteps, SteerSteps
      <3> QED
        BY <1>2, <1>4, <3>1, <3>2, SameOrder DEF OpenInv
    <2>4. CASE StreamAgent(agent, p, agent)
      BY <1>6, <2>1, <2>4
    <2> QED
      BY <1>10, <2>2, <2>3, <2>4 DEF SteerResumes
  <1> QED
    BY <1>7, <1>8, <1>9, <1>10 DEF Continuation

-----------------------------------------------------------------------------
(* The events of the provider, and their dispatch.                           *)

LEMMA EmitAhead ==
    ASSUME Buffered, NEW e, Emit(<<e>>)
    PROVE  /\ Ahead' = Ahead \o <<e>>
           /\ UNCHANGED <<agent, steering, micro>>
           /\ queue' # queue => steering = None /\ ~ IsPending(agent)
  <1>1. UNCHANGED <<agent, steering, micro>>
    BY DEF Emit, laneVars
  <1>2. /\ barrier' = IF steering # None THEN barrier \o <<e>> ELSE barrier
        /\ staged' = IF steering = None /\ IsPending(agent) THEN staged \o <<e>> ELSE staged
        /\ queue' = IF steering = None /\ ~ IsPending(agent) THEN queue \o <<e>> ELSE queue
    BY DEF Emit, Enqueue
  <1>3. IsPending(agent') <=> IsPending(agent)
    BY <1>1
  <1> QED
    BY <1>1, <1>2, <1>3 DEF Ahead

LEMMA AheadIsTold == ASSUME EndsAreTold PROVE Told(Ahead, turn)
  BY DEF Ahead, EndsAreTold

\* A turn of a prompt that is not over has a tracked run.
LEMMA TurnIsTracked ==
    ASSUME ProviderInv, NEW p \in Prompts, turn[p] \in {"accepted", "running"}
    PROVE  agent.run.kind = "foreground" /\ agent.run.token = RunToken(p)
  BY DEF ProviderInv, TurnHasRun, SettledIsOver, Over, Ended

LEMMA EmitOpen ==
    ASSUME TypedInv, OpenInv, Idle, NEW e \in Event, Emit(<<e>>), UNCHANGED <<pc, expected>>,
           InOrder(Ahead \o <<e>>, agent, turn'), OneAuto'
    PROVE  OpenInv'
  <1>1. Buffered /\ QueueWaits /\ SteerHolds /\ ActiveHasRun(agent)
    BY DEF TypedInv, IInv, OpenInv
  <1>2. /\ Ahead' = Ahead \o <<e>>
        /\ UNCHANGED <<agent, steering, micro>>
        /\ queue' # queue => steering = None /\ ~ IsPending(agent)
    BY <1>1, EmitAhead
  <1>3. QueueWaits'
    BY <1>1, <1>2 DEF QueueWaits, Idle
  <1>4. SteerHolds'
    BY <1>1, <1>2 DEF SteerHolds
  <1> QED
    BY <1>1, <1>2, <1>3, <1>4 DEF OpenInv

LEMMA ProviderOpen ==
    ASSUME TypedInv, ProviderInv, OpenInv, Idle, ProviderStep
    PROVE  OpenInv'
  <1>1. /\ Typed /\ Buffered /\ QueueWaits /\ SteerHolds /\ InOrder(Ahead, agent, turn) /\ OneAuto
        /\ turn \in [Turns -> {"none", "accepted", "running", "aborted", "over"}]
        /\ Ahead \in Seq(Event) /\ Told(Ahead, turn)
    BY AheadType, AheadIsTold DEF TypedInv, IInv, OpenInv, Typed, ProviderInv
  <1>2. Turns = Prompts \cup Autos /\ \A x \in Autos : x \notin Prompts
    BY AgentTurnAssumption DEF Turns
  <1>3. ASSUME NEW p \in Prompts, ProviderAccepts(p)
        PROVE  OpenInv'
    <2>1. /\ UNCHANGED <<agent, staged, queue, barrier, steering, micro, pc, expected>>
          /\ \A x \in Autos : turn'[x] = turn[x]
      BY <1>1, <1>2, <1>3 DEF ProviderAccepts, managerVars, opVars, laneVars
    <2>2. ActiveHasRun(agent') /\ InOrder(Ahead', agent', turn') /\ OneAuto'
      BY <2>1, SameOrder DEF SameTurns
    <2>3. QueueWaits' /\ SteerHolds'
      BY <1>1, <2>1 DEF QueueWaits, SteerHolds
    <2> QED
      BY <2>2, <2>3 DEF OpenInv
  <1>4. ASSUME NEW t \in Turns, ProviderBegins(t)
        PROVE  OpenInv'
    <2> DEFINE e == TurnEvent("turn_started", t)
    <2>1. /\ e \in Event /\ Emit(<<e>>) /\ UNCHANGED <<pc, expected>>
          /\ e.type = "turn_started" /\ e.turn = t
          /\ turn' = [turn EXCEPT ![t] = "running"]
          /\ turn[t] = IF t \in Prompts THEN "accepted" ELSE "none"
          /\ t \in Autos => \A x \in Autos : turn[x] # "running"
      BY <1>4, EventTypes DEF ProviderBegins, opVars, TurnEvent
    <2>2. /\ \A x \in Turns : Says(e, x) <=> x = t
          /\ \A x : ~ EndOf(e, x)
      BY <2>1 DEF Says, EndOf, Terminals
    <2>3. \A x \in Turns : StartOf(e, x) => \A i \in DOMAIN Ahead : ~ EndOf(Ahead[i], x)
      <3> SUFFICES ASSUME NEW i \in DOMAIN Ahead, EndOf(Ahead[i], t) PROVE FALSE
        BY <2>1 DEF StartOf
      <3>1. turn[t] \in Ended
        BY <1>1 DEF Told, EndOf
      <3> QED
        BY <2>1, <3>1 DEF Ended
    <2>4. \A x \in Turns : turn'[x] = IF x = t THEN "running" ELSE turn[x]
      BY <1>1, <2>1
    <2>5. \A p \in Prompts : Says(e, p) => agent.run.kind = "foreground" /\ agent.run.token = RunToken(p)
      BY <1>2, <2>1, <2>2, TurnIsTracked
    <2>6. \A x, y \in Autos : Says(e, y) /\ x # y => turn[x] # "running"
      BY <1>2, <2>1, <2>2
    <2> HIDE DEF e
    <2>7. InOrder(Ahead \o <<e>>, agent, turn')
      BY <1>1, <1>2, <2>1, <2>2, <2>3, <2>4, <2>5, <2>6, InOrderAppend
    <2>8. OneAuto'
      BY <1>1, <1>2, <2>1, <2>4 DEF OneAuto
    <2> QED
      BY <2>1, <2>7, <2>8, EmitOpen
  <1>5. ASSUME NEW t \in Turns, ProviderOutputs(t)
        PROVE  OpenInv'
    <2> DEFINE e == [type |-> "item", turn |-> t, asked |-> asked]
    <2>1. /\ e \in Event /\ Emit(<<e>>) /\ UNCHANGED <<pc, expected, turn>> /\ e.type = "item"
      BY <1>1, <1>5, EventTypes DEF ProviderOutputs, opVars, Buffered
    <2>2. \A x : ~ Says(e, x) /\ ~ EndOf(e, x) /\ ~ StartOf(e, x)
      BY <2>1 DEF Says, EndOf, StartOf, Terminals
    <2> HIDE DEF e
    <2>3. InOrder(Ahead \o <<e>>, agent, turn')
      BY <1>1, <2>1, <2>2, InOrderAppend
    <2>4. OneAuto'
      BY <1>1, <2>1 DEF OneAuto
    <2> QED
      BY <2>1, <2>3, <2>4, EmitOpen
  <1>6. ASSUME NEW t \in Turns, NEW type \in Terminals, ProviderEnds(t, type)
        PROVE  OpenInv'
    <2> DEFINE e == TurnEvent(type, t)
    <2>1. /\ e \in Event /\ Emit(<<e>>) /\ UNCHANGED <<pc, expected>>
          /\ e.type \in Terminals /\ e.turn = t
          /\ turn' = [turn EXCEPT ![t] = "over"] /\ turn[t] = "running"
      BY <1>6, EventTypes DEF ProviderEnds, opVars, TurnEvent
    <2>2. /\ \A x \in Turns : (Says(e, x) <=> x = t) /\ (EndOf(e, x) <=> x = t)
          /\ \A x \in Turns : ~ StartOf(e, x)
      BY <2>1 DEF Says, EndOf, StartOf, Terminals
    <2>3. \A x \in Turns : turn'[x] = IF x = t THEN "over" ELSE turn[x]
      BY <1>1, <2>1
    <2>4. \A p \in Prompts : Says(e, p) => agent.run.kind = "foreground" /\ agent.run.token = RunToken(p)
      BY <1>2, <2>1, <2>2, TurnIsTracked
    <2>5. \A x, y \in Autos : Says(e, y) /\ x # y => turn[x] # "running"
      BY <1>1, <1>2, <2>1, <2>2 DEF OneAuto
    <2> HIDE DEF e
    <2>6. InOrder(Ahead \o <<e>>, agent, turn')
      BY <1>1, <1>2, <2>1, <2>2, <2>3, <2>4, <2>5, InOrderAppend, ZenonT(40)
    <2>7. OneAuto'
      BY <1>1, <1>2, <2>1, <2>3 DEF OneAuto
    <2> QED
      BY <2>1, <2>6, <2>7, EmitOpen
  <1> QED
    BY <1>3, <1>4, <1>5, <1>6 DEF ProviderStep

\* What is left to dispatch after the first event, given what that did.
LEMMA DispatchedInOrder ==
    ASSUME NEW F \in Seq(Event), F # <<>>, NEW s, NEW n, NEW f, InOrder(F, s, f),
           \A p \in Prompts : p \in s.finalized => p \in n.finalized,
           \A p \in Prompts : s.run.kind = "foreground" /\ s.run.token = RunToken(p) =>
              \/ n.run.kind = "foreground" /\ n.run.token = RunToken(p)
              \/ EndOf(Head(F), p) /\ p \in n.finalized,
           n.active \in Autos =>
              \/ Head(F).type \in {"turn_started"} /\ Head(F).turn = n.active
              \/ n.active = s.active /\ ~ EndOf(Head(F), s.active)
    PROVE  InOrder(Tail(F), n, f)
  <1> DEFINE G == Tail(F)
  <1>1. /\ G \in Seq(Event) /\ Len(G) = Len(F) - 1 /\ 1 \in DOMAIN F /\ Head(F) = F[1]
        /\ Len(F) \in Nat /\ DOMAIN F = 1 .. Len(F) /\ DOMAIN G = 1 .. Len(G)
        /\ \A i \in 1 .. Len(G) : G[i] = F[IF i < 1 THEN i ELSE i + 1]
        /\ \A i \in 1 .. Len(G) : i + 1 \in DOMAIN F /\ G[i] = F[i + 1]
    BY TailDrops
  <1>2. /\ TakeTurns(F) /\ StillGoing(F, f) /\ StartsFirst(F) /\ OfRuns(F, s)
        /\ ActiveFirst(F, s, f)
    BY DEF InOrder
  <1> HIDE DEF G
  <1>3. TakeTurns(G) /\ StillGoing(G, f) /\ StartsFirst(G) /\ OfRuns(G, s)
    BY <1>1, <1>2, InOrderDrop
  <1>4. OfRuns(G, n)
    <2> SUFFICES ASSUME NEW i \in 1 .. Len(G), NEW p \in Prompts, Says(G[i], p),
                        ~ (n.run.kind = "foreground" /\ n.run.token = RunToken(p))
                 PROVE  p \in n.finalized /\ G[i].type \in Terminals
      BY <1>1 DEF OfRuns
    <2>1. CASE p \in s.finalized /\ G[i].type \in Terminals
      BY <2>1
    <2>2. CASE s.run.kind = "foreground" /\ s.run.token = RunToken(p)
      <3>1. EndOf(F[1], p) /\ p \in n.finalized
        BY <1>1, <2>2
      <3>2. ~ StartOf(F[i + 1], p)
        <4>1. 1 < i + 1 /\ i + 1 \in DOMAIN F /\ p \in Turns
          BY <1>1 DEF Turns
        <4> QED
          BY <1>1, <1>2, <3>1, <4>1 DEF StartsFirst
      <3>3. G[i] \in Event /\ G[i].turn = p /\ G[i].type # "item" /\ G[i] = F[i + 1]
        BY <1>1 DEF Says
      <3>4. G[i].type \in Terminals
        BY <3>2, <3>3 DEF Event, StartOf
      <3> QED
        BY <3>1, <3>4
    <2> QED
      BY <1>1, <1>3, <2>1, <2>2 DEF OfRuns
  <1>5. ActiveFirst(G, n, f)
    <2> SUFFICES ASSUME n.active \in Autos PROVE ActiveFirst(G, n, f)
      BY DEF ActiveFirst
    <2> DEFINE a == n.active
    <2>1. ~ EndOf(F[1], a)
      BY <1>1 DEF EndOf, Terminals
    <2>2. f[a] = "running" \/ \E k \in DOMAIN F : EndOf(F[k], a)
      <3>1. CASE F[1].type = "turn_started" /\ F[1].turn = a
        <4>1. Says(F[1], a)
          BY <3>1 DEF Says
        <4> QED
          BY <1>1, <1>2, <4>1 DEF StillGoing
      <3>2. CASE a = s.active
        BY <1>2, <3>2 DEF ActiveFirst
      <3> QED
        BY <1>1, <3>1, <3>2
    <2>3. ASSUME NEW j \in 2 .. Len(F), NEW y \in Autos \ {a}, Says(F[j], y)
          PROVE  \E k \in 1 .. (j - 1) : EndOf(F[k], a)
      <3>0. j \in DOMAIN F /\ 1 < j
        BY <1>1
      <3>1. CASE F[1].type = "turn_started" /\ F[1].turn = a
        <4>1. Says(F[1], a)
          BY <3>1 DEF Says
        <4> QED
          BY <1>1, <1>2, <2>3, <3>0, <4>1 DEF TakeTurns
      <3>2. CASE a = s.active
        BY <1>2, <2>3, <3>0, <3>2 DEF ActiveFirst
      <3> QED
        BY <1>1, <3>1, <3>2
    <2> HIDE DEF a
    <2>4. ASSUME NEW k \in 1 .. Len(F), EndOf(F[k], a)
          PROVE  k - 1 \in 1 .. Len(G) /\ EndOf(G[k - 1], a)
      <3>1. k # 1
        BY <2>1, <2>4
      <3>2. k - 1 \in 1 .. Len(G) /\ k - 1 + 1 = k
        BY <1>1, <2>4, <3>1
      <3>3. G[k - 1] = F[k]
        BY <1>1, <3>2
      <3> QED
        BY <2>4, <3>2, <3>3
    <2>5. f[a] = "running" \/ \E k \in DOMAIN G : EndOf(G[k], a)
      BY <1>1, <2>2, <2>4
    <2>6. ASSUME NEW j \in 1 .. Len(G), NEW y \in Autos \ {a}, Says(G[j], y)
          PROVE  \E k \in 1 .. (j - 1) : EndOf(G[k], a)
      <3>1. j + 1 \in 2 .. Len(F) /\ Says(F[j + 1], y)
        BY <1>1, <2>6
      <3>2. PICK k \in 1 .. j : EndOf(F[k], a)
        BY <2>3, <3>1
      <3>3. k \in 1 .. Len(F)
        BY <1>1, <3>1
      <3> QED
        BY <2>4, <3>2, <3>3
    <2> QED
      BY <1>1, <2>5, <2>6 DEF ActiveFirst, a
  <1> QED
    BY <1>3, <1>4, <1>5 DEF InOrder, G

-----------------------------------------------------------------------------
\* No start is dispatched while another turn is active, unless the open turn
\* of a prompt makes the agent deaf to it.
LEMMA StartIsNext ==
    ASSUME NEW F \in Seq(Event), F # <<>>, NEW s, NEW f, InOrder(F, s, f), Sound(s),
           ActiveHasRun(s), ~ IsPending(s), Head(F).type = "turn_started"
    PROVE  s.fg # None \/ (Head(F).turn \in Autos /\ s.active \in {None, Head(F).turn})
  <1> DEFINE t == Head(F).turn
  <1>1. /\ 1 \in DOMAIN F /\ Head(F) = F[1] /\ Head(F) \in Event
    OBVIOUS
  <1>2. t \in Prompts \cup Autos /\ Says(F[1], t)
    BY <1>1 DEF Event, Turns, Says
  <1>3. CASE t \in Prompts
    <2>1. s.run.kind = "foreground"
      BY <1>1, <1>2, <1>3 DEF InOrder, OfRuns, Terminals
    <2>2. s.run.turn # None
      BY <2>1 DEF IsPending
    <2> QED
      BY <2>1, <2>2 DEF Sound, RunShape
  <1>4. CASE t \in Autos /\ s.fg = None
    <2>1. s.active \notin Prompts
      BY <1>4, NoneIsNoPrompt DEF ActiveHasRun
    <2>2. s.active \in Autos => s.active = t
      <3> SUFFICES ASSUME s.active \in Autos, s.active # t PROVE FALSE
        OBVIOUS
      <3>1. \E k \in 1 .. (1 - 1) : EndOf(F[k], s.active)
        BY <1>1, <1>2, <1>4 DEF InOrder, ActiveFirst
      <3> QED
        BY <3>1
    <2> QED
      BY <1>4, <2>1, <2>2 DEF Sound, Agent, Turns
  <1> QED
    BY <1>2, <1>3, <1>4

\* The end that is dispatched is the end of the active turn, if there is one,
\* unless the open turn of a prompt is another one or it was heard before.
LEMMA EndIsNext ==
    ASSUME NEW F \in Seq(Event), F # <<>>, NEW s, NEW f, InOrder(F, s, f), Sound(s),
           ActiveHasRun(s), ~ IsPending(s), Head(F).type \in Terminals
    PROVE  LET t == Head(F).turn IN
           t = s.active \/ s.active = None \/ s.fg # None \/ t \in s.finalized
  <1> DEFINE t == Head(F).turn
  <1>1. /\ 1 \in DOMAIN F /\ Head(F) = F[1] /\ Head(F) \in Event
    OBVIOUS
  <1>2. t \in Prompts \cup Autos /\ Says(F[1], t)
    BY <1>1 DEF Event, Turns, Says, Terminals
  <1>3. CASE t \in Prompts
    <2> SUFFICES ASSUME t \notin s.finalized PROVE s.fg # None
      OBVIOUS
    <2>1. s.run.kind = "foreground"
      BY <1>1, <1>2, <1>3 DEF InOrder, OfRuns
    <2>2. s.run.turn # None
      BY <2>1 DEF IsPending
    <2> QED
      BY <2>1, <2>2 DEF Sound, RunShape
  <1>4. CASE t \in Autos /\ s.fg = None
    <2>1. s.active \notin Prompts
      BY <1>4, NoneIsNoPrompt DEF ActiveHasRun
    <2>2. s.active \in Autos => s.active = t
      <3> SUFFICES ASSUME s.active \in Autos, s.active # t PROVE FALSE
        OBVIOUS
      <3>1. \E k \in 1 .. (1 - 1) : EndOf(F[k], s.active)
        BY <1>1, <1>2, <1>4 DEF InOrder, ActiveFirst
      <3> QED
        BY <3>1
    <2> QED
      BY <1>4, <2>1, <2>2 DEF Sound, Agent, Turns
  <1> QED
    BY <1>2, <1>3, <1>4

LEMMA StartDispatched ==
    ASSUME NEW F \in Seq(Event), F # <<>>, NEW s, NEW f, InOrder(F, s, f), Sound(s),
           ActiveHasRun(s), ~ IsPending(s), Head(F).type = "turn_started"
    PROVE  LET n == HandleStarted(s, Head(F)) IN
           ActiveHasRun(n) /\ ~ IsPending(n) /\ InOrder(Tail(F), n, f)
  <1> DEFINE e == Head(F)
             n == HandleStarted(s, e)
  <1>0. e \in Event
    OBVIOUS
  <1>1. e.turn \in Turns
    BY <1>0 DEF Event
  <1>2. s.fg # None \/ (e.turn \in Autos /\ s.active \in {None, e.turn})
    BY StartIsNext
  <1>3. /\ ActiveHasRun(n)
        /\ n.active = IF s.fg # None THEN s.active ELSE e.turn
        /\ n.finalized = s.finalized
        /\ HasRun(s) => n.run = s.run
        /\ HasRun(s) \/ s.fg # None \/ n.run = AutonomousRun(TurnToken(e.turn), e.turn)
        /\ s.fg # None => n = s
    BY <1>1, <1>2, HandleStartedActive
  <1> HIDE DEF n
  <1>4. ~ IsPending(n)
    BY <1>3 DEF IsPending, AutonomousRun, HasRun
  <1>5. s.run.kind = "foreground" => n.run = s.run
    BY <1>3 DEF HasRun
  <1>6. n.active \in Autos => \/ e.type \in {"turn_started"} /\ e.turn = n.active
                              \/ n.active = s.active /\ ~ EndOf(e, s.active)
    BY <1>3 DEF EndOf, Terminals
  <1>7. InOrder(Tail(F), n, f)
    BY <1>3, <1>5, <1>6, DispatchedInOrder
  <1> QED
    BY <1>3, <1>4, <1>7 DEF n

LEMMA EndDispatched ==
    ASSUME NEW F \in Seq(Event), F # <<>>, NEW s, NEW f, InOrder(F, s, f), Sound(s),
           ActiveHasRun(s), ~ IsPending(s), Head(F).type \in Terminals
    PROVE  LET n == HandleTerminal(s, Head(F)) IN
           ActiveHasRun(n) /\ ~ IsPending(n) /\ InOrder(Tail(F), n, f)
  <1> DEFINE e == Head(F)
             t == e.turn
             n == HandleTerminal(s, e)
  <1>0. e \in Event
    OBVIOUS
  <1>1. t \in Turns /\ t # None /\ t = TerminalTurn(s, t)
    BY <1>0, NoneIsNoPrompt, TerminalTurnNamed DEF Event
  <1>2. t = s.active \/ s.active = None \/ s.fg # None \/ t \in s.finalized
    BY EndIsNext
  <1>3. /\ ActiveHasRun(n)
        /\ n.active \in {s.active, None}
        /\ t = s.active /\ t \notin s.finalized => n.active = None
        /\ n.run \in {s.run, NoRun}
    BY <1>1, <1>2, HandleTerminalActive
  <1>4. Advances(s, n)
    BY <1>1, HandleTerminalAdvances
  <1>5. t \notin s.finalized =>
           /\ n.run = IF Settles(s, t) THEN NoRun ELSE s.run
           /\ n.finalized = IF IsForeground(s, t) THEN s.finalized \cup {t} ELSE s.finalized
    BY <1>1, HandleTerminalEffect
  <1>6. t \in s.finalized => n = s
    BY <1>1 DEF HandleTerminal
  <1> HIDE DEF n
  <1>7. ~ IsPending(n)
    BY <1>3 DEF IsPending, NoRun
  <1>8. s.finalized \subseteq n.finalized
    BY <1>4 DEF Advances
  <1>9. ASSUME NEW p \in Prompts, s.run.kind = "foreground", s.run.token = RunToken(p)
        PROVE  \/ n.run.kind = "foreground" /\ n.run.token = RunToken(p)
               \/ EndOf(e, p) /\ p \in n.finalized
    <2>1. s.run.turn # None /\ s.fg = s.run.turn /\ s.run.turn = p
      BY <1>9, TokensDiffer DEF Sound, RunShape, IsPending
    <2>2. CASE t \notin s.finalized /\ Settles(s, t)
      <3>1. t = p /\ IsForeground(s, t)
        BY <1>9, <2>1, <2>2 DEF Settles, IsForeground
      <3> QED
        BY <1>5, <2>2, <3>1 DEF EndOf
    <2>3. CASE t \in s.finalized \/ ~ Settles(s, t)
      BY <1>5, <1>6, <1>9, <2>3
    <2> QED
      BY <2>2, <2>3
  <1>10. ASSUME n.active \in Autos
         PROVE  n.active = s.active /\ ~ EndOf(e, s.active)
    <2>1. n.active = s.active /\ n.active # None /\ n.active \notin s.finalized
      BY <1>3, <1>10, AgentTurnAssumption DEF ActiveHasRun
    <2> QED
      BY <1>3, <2>1 DEF EndOf
  <1>11. InOrder(Tail(F), n, f)
    BY <1>8, <1>9, <1>10, DispatchedInOrder
  <1> QED
    BY <1>3, <1>7, <1>11 DEF n

LEMMA DispatchOpen ==
    ASSUME TypedInv, OpenInv, DispatchNext
    PROVE  OpenInv'
  <1> DEFINE e == Head(queue)
  <1>1. /\ Sound(agent) /\ ActiveHasRun(agent) /\ QueueWaits /\ SteerHolds /\ OneAuto
        /\ queue \in Seq(Event) /\ queue # <<>>
        /\ InOrder(Ahead, agent, turn)
    BY DEF TypedInv, IInv, Consistent, Buffered, OpenInv, DispatchNext
  <1>2. /\ agent' = Handle(agent, e) /\ queue' = Tail(queue)
        /\ UNCHANGED <<staged, barrier, steering, micro, pc, expected, turn>>
    BY DEF DispatchNext, laneVars, opVars, providerVars
  <1>3. steering = None /\ micro = <<>> /\ ~ IsPending(agent)
    BY <1>1 DEF QueueWaits
  <1>4. InOrder(queue, agent, turn)
    BY <1>1, <1>3 DEF Ahead
  <1>0. e \in Event
    BY <1>1
  <1>5. e.type \in Terminals \cup {"turn_started", "item"}
    BY <1>0 DEF Event
  <1>6. ActiveHasRun(agent') /\ ~ IsPending(agent') /\ InOrder(Tail(queue), agent', turn)
    <2>1. CASE e.type = "item"
      <3>1. Handle(agent, e) = agent
        BY <2>1 DEF Handle, Terminals
      <3>2. \A x : ~ EndOf(e, x)
        BY <2>1 DEF EndOf, Terminals
      <3>3. InOrder(Tail(queue), agent, turn)
        BY <1>1, <1>4, <3>2, DispatchedInOrder
      <3> QED
        BY <1>1, <1>2, <1>3, <3>1, <3>3
    <2>2. CASE e.type = "turn_started"
      <3>1. Handle(agent, e) = HandleStarted(agent, e)
        BY <2>2 DEF Handle, Terminals
      <3> QED
        BY <1>1, <1>2, <1>3, <1>4, <2>2, <3>1, StartDispatched
    <2>3. CASE e.type \in Terminals
      <3>1. Handle(agent, e) = HandleTerminal(agent, e)
        BY <2>3 DEF Handle, Terminals
      <3> QED
        BY <1>1, <1>2, <1>3, <1>4, <2>3, <3>1, EndDispatched
    <2> QED
      BY <1>5, <2>1, <2>2, <2>3
  <1>7. Ahead' = Tail(queue)
    BY <1>2, <1>3, <1>6 DEF Ahead
  <1>8. InOrder(Ahead', agent', turn') /\ OneAuto'
    BY <1>1, <1>2, <1>6, <1>7 DEF OneAuto
  <1>9. QueueWaits' /\ SteerHolds'
    BY <1>1, <1>2, <1>3, <1>6 DEF QueueWaits, SteerHolds
  <1> QED
    BY <1>6, <1>8, <1>9 DEF OpenInv

-----------------------------------------------------------------------------
LEMMA StopOpen ==
    ASSUME TypedInv, OpenInv, Idle, NEW o \in Stops, Stop(o)
    PROVE  OpenInv'
  <1>1. /\ IInv /\ LaneInv /\ Typed /\ o \in Ops /\ pc[o] = "idle" /\ QueueWaits /\ SteerHolds
        /\ UNCHANGED <<agent, staged, queue, barrier, steering, turn, expected>>
        /\ EnterLane(o, micro) /\ Goto(o, "cancelQueued")
    BY DEF TypedInv, OpenInv, Stop, Ops, providerVars
  <1>2. steering # None => micro' = micro
    BY <1>1, SteerExcludes DEF EnterLane
  <1>3. QueueWaits'
    BY <1>1, <1>2, TaskWaits
  <1>4. SteerHolds'
    BY <1>1, SteerMoves DEF Steps, CancelSteps, SteerSteps
  <1> QED
    BY <1>1, <1>3, <1>4, SameOrder DEF OpenInv, SameTurns

LEMMA StreamEndsOpen ==
    ASSUME TypedInv, OpenInv, Idle, NEW p \in Prompts, StreamEnds(p)
    PROVE  OpenInv'
  <1>1. /\ IInv /\ Typed /\ p \in Ops /\ pc[p] = "streaming" /\ QueueWaits /\ SteerHolds
        /\ UNCHANGED <<staged, queue, barrier, steering, turn, expected, micro>>
        /\ Goto(p, "done")
    BY DEF TypedInv, OpenInv, StreamEnds, Ops, providerVars, laneVars
  <1>2. agent' = agent
    BY <1>1, StreamEndsStep
  <1>3. QueueWaits'
    BY <1>1, TaskWaits
  <1>4. SteerHolds'
    BY <1>1, <1>2, SteerMoves, StepNames DEF SteerSteps
  <1> QED
    BY <1>1, <1>2, <1>3, <1>4, SameOrder DEF OpenInv, SameTurns

LEMMA InitOpen == Init => OpenInv
  <1> SUFFICES ASSUME Init PROVE OpenInv
    OBVIOUS
  <1>1. ActiveHasRun(agent) /\ QueueWaits /\ SteerHolds /\ OneAuto
    BY NoneIsNoPrompt DEF Init, ActiveHasRun, HasRun, IsPending, NoRun, QueueWaits, SteerHolds,
       SteerSteps, OneAuto, Ops, Turns
  <1>2. Ahead = <<>> /\ agent.active = None /\ None \notin Autos
    BY AgentTurnAssumption DEF Init, Ahead
  <1>3. InOrder(Ahead, agent, turn)
    BY <1>2, InOrderEmpty
  <1> QED
    BY <1>1, <1>3 DEF OpenInv

LEMMA NextOpen == FullInv /\ OpenInv /\ [Next]_vars => OpenInv'
  <1> SUFFICES ASSUME FullInv, OpenInv, [Next]_vars PROVE OpenInv'
    OBVIOUS
  <1>1. TypedInv /\ ProviderInv
    BY DEF FullInv
  <1>2. CASE UNCHANGED vars
    <2>1. UNCHANGED <<agent, staged, queue, barrier, steering, micro, pc, expected, turn>>
      BY <1>2 DEF vars, managerVars, opVars, providerVars, laneVars
    <2>2. ActiveHasRun(agent') /\ InOrder(Ahead', agent', turn') /\ OneAuto'
      BY <2>1, SameOrder DEF SameTurns
    <2>3. QueueWaits' /\ SteerHolds'
      BY <2>1 DEF OpenInv, QueueWaits, SteerHolds
    <2> QED
      BY <2>2, <2>3 DEF OpenInv
  <1>3. CASE Idle /\ Task
    BY <1>1, <1>3, SendOpen, StartResolvesOpen, StartRejectsOpen, StreamEndsOpen, SteerStepOpen,
       StopOpen, CancelStepOpen, ProviderOpen DEF Task
  <1> QED
    BY <1>1, <1>2, <1>3, ContinuationOpen, DispatchOpen DEF Next

THEOREM TurnsInOrder == Spec => [](FullInv /\ OpenInv)
  BY InitFull, InitOpen, NextFull, NextOpen, PTL DEF Spec

\* While a steer is offered to the session, the turn it is meant for stays the
\* active one, whatever the provider, Stop and other prompts do meanwhile.
THEOREM SteerKeepsItsTurn == Spec => []SteeredTurnStaysOpen
  <1>1. OpenInv => SteeredTurnStaysOpen
    BY DEF OpenInv, SteerHolds, SteeredTurnStaysOpen
  <1> QED
    BY <1>1, TurnsInOrder, PTL

-----------------------------------------------------------------------------
(* Who waits in the lane, and who waits to resume.                           *)

Resuming == {"returned", "steerReturned"}

ResumesIn(o, m) == \E i \in 1 .. Len(m) : m[i] = <<"resume", o>>

\* Who is queued is in the lane, who left it is about to resume.
WaitInv ==
    /\ \A o \in Ops : pc[o] \in Queued => \E i \in 1 .. Len(lane) : lane[i] = o
    /\ \A o \in Ops : pc[o] \in Resuming => ResumesIn(o, micro)

OthersResume(o, m) == \A x \in Ops \ {o} : pc[x] \in Resuming => ResumesIn(x, m)

LEMMA OthersWait ==
    ASSUME WaitInv, LaneInv, NEW o
    PROVE  /\ OthersResume(o, micro)
           /\ \A step : Continues(step, o) => OthersResume(o, Tail(micro))
  <1>1. OthersResume(o, micro)
    BY DEF WaitInv, OthersResume
  <1>2. ASSUME NEW step, Continues(step, o), NEW x \in Ops \ {o}, pc[x] \in Resuming
        PROVE  ResumesIn(x, Tail(micro))
    <2>1. micro \in Seq({"start", "resume"} \X Ops) /\ micro # <<>> /\ micro[1] = <<step, o>>
      BY <1>2 DEF LaneInv, LaneInOrder, Continues
    <2>2. PICK i \in 1 .. Len(micro) : micro[i] = <<"resume", x>>
      BY <1>2 DEF WaitInv, ResumesIn
    <2>3. i # 1
      BY <1>2, <2>1, <2>2
    <2>4. i - 1 \in 1 .. Len(Tail(micro)) /\ Tail(micro)[i - 1] = micro[i]
      BY <2>1, <2>3
    <2> QED
      BY <2>2, <2>4 DEF ResumesIn
  <1> QED
    BY <1>1, <1>2 DEF OthersResume

\* An operation moves, but not into the lane, nor to where it would resume.
LEMMA WaitMoves ==
    ASSUME IInv, WaitInv, NEW o \in Ops, NEW l, Goto(o, l), l \notin Queued \cup Resuming,
           lane' = lane, OthersResume(o, micro')
    PROVE  WaitInv'
  <1>1. pc'[o] = l /\ \A x \in Ops : x # o => pc'[x] = pc[x]
    BY DEF IInv, Consistent, Goto
  <1>2. ASSUME NEW x \in Ops, pc'[x] \in Resuming
        PROVE  ResumesIn(x, micro')
    <2>1. x # o /\ pc[x] \in Resuming
      BY <1>1, <1>2
    <2> QED
      BY <2>1 DEF OthersResume
  <1>3. ASSUME NEW x \in Ops, pc'[x] \in Queued
        PROVE  \E i \in 1 .. Len(lane') : lane'[i] = x
    <2>1. x # o /\ pc[x] \in Queued
      BY <1>1, <1>3
    <2> QED
      BY <2>1 DEF WaitInv
  <1> QED
    BY <1>2, <1>3 DEF WaitInv, ResumesIn

LEMMA WaitEnters ==
    ASSUME IInv, LaneInv, WaitInv, NEW o \in Ops, NEW l \in Queued, Goto(o, l),
           NEW m \in Seq({"start", "resume"} \X Ops), OthersResume(o, m), EnterLane(o, m)
    PROVE  WaitInv'
  <1>1. pc'[o] = l /\ l \notin Resuming /\ \A x \in Ops : x # o => pc'[x] = pc[x]
    BY DEF IInv, Consistent, Goto, Queued, Resuming
  <1>2. /\ lane \in Seq(Ops) /\ lane' = Append(lane, o) /\ lane'[Len(lane) + 1] = o
        /\ Len(lane') = Len(lane) + 1 /\ Len(lane) \in Nat
        /\ \A i \in 1 .. Len(lane) : lane'[i] = lane[i]
    BY DEF EnterLane, LaneInv, LaneInOrder
  <1>3. \A i \in 1 .. Len(m) : i \in 1 .. Len(micro') /\ micro'[i] = m[i]
    <2>1. micro' = m \/ micro' = Append(m, <<"start", o>>)
      BY DEF EnterLane
    <2>2. \A i \in 1 .. Len(m) : i \in 1 .. Len(Append(m, <<"start", o>>)) /\ Append(m, <<"start", o>>)[i] = m[i]
      OBVIOUS
    <2> QED
      BY <2>1, <2>2
  <1>4. ASSUME NEW x \in Ops, pc'[x] \in Resuming
        PROVE  ResumesIn(x, micro')
    <2>1. x # o /\ pc[x] \in Resuming
      BY <1>1, <1>4
    <2> QED
      BY <1>3, <2>1 DEF OthersResume, ResumesIn
  <1>5. ASSUME NEW x \in Ops, pc'[x] \in Queued
        PROVE  \E i \in 1 .. Len(lane') : lane'[i] = x
    <2>1. CASE x = o
      BY <1>2, <2>1
    <2>2. CASE x # o
      <3>1. PICK i \in 1 .. Len(lane) : lane[i] = x
        BY <1>1, <1>5, <2>2 DEF WaitInv
      <3> QED
        BY <1>2, <3>1
    <2> QED
      BY <2>1, <2>2
  <1> QED
    BY <1>4, <1>5 DEF WaitInv, ResumesIn

LEMMA WaitLeaves ==
    ASSUME IInv, LaneInv, WaitInv, NEW o \in Ops, NEW l \in Resuming, Goto(o, l),
           Len(lane) > 0, lane[1] = o,
           NEW m \in Seq({"start", "resume"} \X Ops), OthersResume(o, m), LeaveLane(o, m)
    PROVE  WaitInv'
  <1>1. pc'[o] = l /\ l \notin Queued /\ \A x \in Ops : x # o => pc'[x] = pc[x]
    BY DEF IInv, Consistent, Goto, Queued, Resuming
  <1>2. /\ lane \in Seq(Ops) /\ lane' = Tail(lane)
        /\ \A i \in 1 .. Len(lane) : i # 1 => i - 1 \in 1 .. Len(lane') /\ lane'[i - 1] = lane[i]
    BY DEF LeaveLane, LaneInv, LaneInOrder
  <1> DEFINE starts == IF Len(lane) > 1 THEN << <<"start", lane[2]>> >> ELSE <<>>
             r == <<"resume", o>>
             T == {"start", "resume"} \X Ops
  <1>3. starts \in Seq(T) /\ r \in T /\ micro' = (m \o starts) \o <<r>>
    <2>1. r \in T
      OBVIOUS
    <2>2. CASE Len(lane) > 1
      <3>1. lane[2] \in Ops
        BY <1>2, <2>2
      <3>2. << <<"start", lane[2]>> >> \in Seq(T)
        BY <3>1
      <3> QED
        BY <2>1, <2>2, <3>2 DEF LeaveLane
    <2>3. CASE ~ Len(lane) > 1
      BY <2>1, <2>3 DEF LeaveLane
    <2> QED
      BY <2>2, <2>3
  <1> HIDE DEF starts, r, T
  <1>4. /\ \A i \in 1 .. Len(m) : i \in 1 .. Len(micro') /\ micro'[i] = m[i]
        /\ Len(micro') \in 1 .. Len(micro') /\ micro'[Len(micro')] = r
    <2>1. m \in Seq(T)
      BY DEF T
    <2> DEFINE a == m \o starts
    <2>2. a \in Seq(T) /\ Len(a) \in Nat /\ \A i \in 1 .. Len(m) : i \in 1 .. Len(a) /\ a[i] = m[i]
      BY <1>3, <2>1
    <2> HIDE DEF a
    <2>3. /\ Len(a \o <<r>>) = Len(a) + 1 /\ (a \o <<r>>)[Len(a) + 1] = r
          /\ \A i \in 1 .. Len(a) : (a \o <<r>>)[i] = a[i]
      BY <1>3, <2>2
    <2>4. micro' = a \o <<r>>
      BY <1>3 DEF a
    <2> QED
      BY <2>2, <2>3, <2>4
  <1>5. ASSUME NEW x \in Ops, pc'[x] \in Resuming
        PROVE  ResumesIn(x, micro')
    <2>1. CASE x = o
      BY <1>4, <2>1 DEF ResumesIn, r
    <2>2. CASE x # o
      BY <1>1, <1>4, <1>5, <2>2 DEF OthersResume, ResumesIn
    <2> QED
      BY <2>1, <2>2
  <1>6. ASSUME NEW x \in Ops, pc'[x] \in Queued
        PROVE  \E i \in 1 .. Len(lane') : lane'[i] = x
    <2>1. x # o /\ pc[x] \in Queued
      BY <1>1, <1>6
    <2>2. PICK i \in 1 .. Len(lane) : lane[i] = x
      BY <2>1 DEF WaitInv
    <2> QED
      BY <1>2, <2>1, <2>2
  <1> QED
    BY <1>5, <1>6 DEF WaitInv, ResumesIn

LEMMA InitWait == Init => WaitInv
  BY DEF Init, WaitInv, Queued, Resuming, Ops

LEMMA StreamAgentWaits ==
    ASSUME IInv, WaitInv, NEW p \in Prompts, NEW refused, StreamAgent(agent, p, refused),
           lane' = lane, OthersResume(p, micro')
    PROVE  WaitInv'
  <1>1. p \in Ops /\ (Goto(p, "failed") \/ Goto(p, "starting"))
    BY DEF StreamAgent, Ops
  <1>2. {"failed", "starting"} \cap (Queued \cup Resuming) = {}
    BY DEF Queued, Resuming
  <1> QED
    BY <1>1, <1>2, WaitMoves

LEMMA TaskWaitInv ==
    ASSUME IInv, LaneInv, WaitInv, Task
    PROVE  WaitInv'
  <1>1. /\ micro \in Seq({"start", "resume"} \X Ops)
        /\ \A o : OthersResume(o, micro) /\ Prompts \subseteq Ops /\ Stops \subseteq Ops
    BY OthersWait DEF LaneInv, LaneInOrder, Ops
  <1>2. ASSUME NEW p \in Prompts, NEW mode, Send(p, mode)
        PROVE  WaitInv'
    <2>1. CASE StreamAgent(agent, p, agent) /\ UNCHANGED laneVars
      BY <1>1, <2>1, StreamAgentWaits DEF laneVars
    <2>2. ASSUME EnterLane(p, micro), NEW l \in Queued, Goto(p, l)
          PROVE  WaitInv'
      BY <1>1, <2>2, WaitEnters
    <2> QED
      BY <1>2, <2>1, <2>2 DEF Send, Replace, Queued
  <1>3. ASSUME NEW p \in Prompts, NEW stale, StartResolves(p) \/ StartRejects(p, stale) \/ StreamEnds(p)
        PROVE  WaitInv'
    <2>1. /\ lane' = lane /\ micro' = micro
          /\ \E l \in {"failed", "streaming", "done"} : Goto(p, l) /\ l \notin Queued \cup Resuming
      BY <1>3 DEF StartResolves, StartRejects, StreamEnds, laneVars, Queued, Resuming
    <2> QED
      BY <1>1, <2>1, WaitMoves
  <1>4. ASSUME NEW o \in Ops, pc[o] \in InLane, LeaveLane(o, micro), NEW l \in Resuming, Goto(o, l)
        PROVE  WaitInv'
    BY <1>1, <1>4, RunningIsHead, WaitLeaves
  <1>5. ASSUME NEW o \in Ops, UNCHANGED laneVars, NEW l \in InLane, Goto(o, l)
        PROVE  WaitInv'
    <2>1. l \notin Queued \cup Resuming
      BY <1>5 DEF InLane, Queued, Resuming
    <2> QED
      BY <1>1, <1>5, <2>1, WaitMoves DEF laneVars
  <1>6. ASSUME NEW p \in Prompts, SteerStep(p)
        PROVE  WaitInv'
    <2>1. /\ p \in Ops /\ pc[p] \in InLane
          /\ \/ UNCHANGED laneVars /\ \E l \in InLane : Goto(p, l)
             \/ LeaveLane(p, micro) /\ \E l \in Resuming : Goto(p, l)
      BY <1>1, <1>6 DEF SteerStep, SteerAdmitted, SteerDrained, SteerAnswered, InLane, Resuming
    <2> QED
      BY <1>4, <1>5, <2>1
  <1>7. ASSUME NEW o \in Ops, CancelStep(o)
        PROVE  WaitInv'
    <2>1. /\ pc[o] \in InLane
          /\ \/ UNCHANGED laneVars /\ \E l \in InLane : Goto(o, l)
             \/ LeaveLane(o, micro) /\ \E l \in Resuming : Goto(o, l)
      BY <1>7 DEF CancelStep, InterruptAcknowledged, InterruptRefused, CancelCompletes, CancelTimesOut,
         CancelReturns, managerVars, InLane, Resuming
    <2> QED
      BY <1>4, <1>5, <1>7, <2>1
  <1>8. ASSUME NEW o \in Stops, Stop(o)
        PROVE  WaitInv'
    <2>1. EnterLane(o, micro) /\ Goto(o, "cancelQueued") /\ "cancelQueued" \in Queued /\ o \in Ops
      BY <1>1, <1>8 DEF Stop, Queued
    <2> QED
      BY <1>1, <2>1, WaitEnters
  <1>9. CASE ProviderStep
    <2>1. UNCHANGED <<lane, micro, pc>>
      BY <1>9 DEF ProviderStep, ProviderAccepts, ProviderBegins, ProviderOutputs, ProviderEnds, Emit,
         managerVars, laneVars, opVars
    <2> QED
      BY <2>1 DEF WaitInv, ResumesIn
  <1> QED
    BY <1>2, <1>3, <1>6, <1>7, <1>8, <1>9 DEF Task

LEMMA ContinuationWaitInv ==
    ASSUME IInv, LaneInv, WaitInv, Continuation
    PROVE  WaitInv'
  <1>1. Prompts \subseteq Ops
    BY DEF Ops
  <1>2. ASSUME NEW step, NEW o \in Ops, Continues(step, o)
        PROVE  /\ Tail(micro) \in Seq({"start", "resume"} \X Ops) /\ OthersResume(o, Tail(micro))
               /\ step = "start" => Len(lane) > 0 /\ lane[1] = o
    <2>1. micro \in Seq({"start", "resume"} \X Ops) /\ micro # <<>> /\ Head(micro) = <<step, o>>
      BY <1>2 DEF LaneInv, LaneInOrder, Continues
    <2> QED
      BY <1>2, <2>1, OthersWait, NoOtherStart DEF LaneInv
  <1>3. ASSUME NEW step, NEW o \in Ops, Continues(step, o), lane' = lane, micro' = Tail(micro),
               NEW l, Goto(o, l), l \notin Queued \cup Resuming
        PROVE  WaitInv'
    BY <1>2, <1>3, WaitMoves
  <1>4. ASSUME NEW o \in Ops, CancelStarts(o)
        PROVE  WaitInv'
    <2>1. CASE Goto(o, "interrupting") /\ lane' = lane /\ micro' = Tail(micro)
      BY <1>3, <1>4, <2>1 DEF CancelStarts, Queued, Resuming
    <2>2. CASE LeaveLane(o, Tail(micro)) /\ Goto(o, "returned")
      <3>1. "returned" \in Resuming
        BY DEF Resuming
      <3> QED
        BY <1>2, <1>4, <2>2, <3>1, WaitLeaves DEF CancelStarts
    <2> QED
      BY <1>4, <2>1, <2>2 DEF CancelStarts, CancelReturns
  <1>5. ASSUME NEW o \in Ops, CancelResumes(o)
        PROVE  WaitInv'
    <2>1. Continues("resume", o) /\ lane' = lane /\ micro' = Tail(micro)
      BY <1>5 DEF CancelResumes
    <2>2. \E l \in {"done", "failed", "starting"} : Goto(o, l)
      BY <1>5 DEF CancelResumes, StreamAgent
    <2> QED
      BY <1>3, <2>1, <2>2 DEF Queued, Resuming
  <1>6. ASSUME NEW p \in Prompts, SteerStarts(p)
        PROVE  WaitInv'
    BY <1>1, <1>3, <1>6 DEF SteerStarts, Queued, Resuming
  <1>7. ASSUME NEW p \in Prompts, SteerResumes(p)
        PROVE  WaitInv'
    <2>1. Continues("resume", p)
      BY <1>7 DEF SteerResumes
    <2>2. CASE EnterLane(p, Tail(micro)) /\ Goto(p, "cancelQueued")
      <3>1. "cancelQueued" \in Queued
        BY DEF Queued
      <3> QED
        BY <1>1, <1>2, <2>1, <2>2, <3>1, WaitEnters
    <2>3. CASE /\ lane' = lane /\ micro' = Tail(micro)
               /\ \E l \in {"done", "failed", "starting"} : Goto(p, l)
      BY <1>1, <1>3, <2>1, <2>3 DEF Queued, Resuming
    <2> QED
      BY <1>7, <2>2, <2>3 DEF SteerResumes, StreamAgent, Replace
  <1> QED
    BY <1>4, <1>5, <1>6, <1>7 DEF Continuation

LEMMA NextWaitInv == TypedInv /\ WaitInv /\ [Next]_vars => WaitInv'
  <1> SUFFICES ASSUME TypedInv, WaitInv, [Next]_vars PROVE WaitInv'
    OBVIOUS
  <1>1. IInv /\ LaneInv
    BY DEF TypedInv
  <1>2. CASE DispatchNext \/ UNCHANGED vars
    <2>1. UNCHANGED <<lane, micro, pc>>
      BY <1>2 DEF DispatchNext, vars, managerVars, opVars, laneVars
    <2> QED
      BY <2>1 DEF WaitInv, ResumesIn
  <1> QED
    BY <1>1, <1>2, TaskWaitInv, ContinuationWaitInv DEF Next

-----------------------------------------------------------------------------
(* A run that a cancellation tracks for an agent that only shows busy.       *)

Phantom(s) == s.run.kind = "autonomous" /\ s.run.turn = None

Refused == \E o \in Ops : result[o] = "refused"

ShownBusy(s) == s.lifecycle = "running" => s.fg # None \/ HasRun(s) \/ s.replacing

Calls(s, o) == CancelToken(o) \in s.settled \/ (HasRun(s) /\ s.run.token = CancelToken(o))

Fresh == {"idle", "cancelQueued"} \cup SteerSteps
Past == {"returned", "done", "failed"}

\* The cancellation that tracked a run without a turn waits for it, unless one
\* was refused; an operation that has not begun to cancel tracked none; and an
\* agent that shows busy is busy, or a replacement of its turn was refused.
PhantomInv ==
    /\ Phantom(agent) =>
          /\ agent.run.token \notin agent.settled
          /\ Refused \/ \E o \in Ops : IsCancelling(o) /\ captured[o].token = agent.run.token
    /\ ShownBusy(agent) \/ Refused
    /\ \A o \in Ops : pc[o] \in Fresh => ~ Calls(agent, o)
    /\ \A o \in Ops : result[o] = "refused" => pc[o] \in Past
    /\ \A o \in Ops : captured[o].kind = "foreground" =>
          \E p \in Prompts : captured[o].token = RunToken(p)

\* What a step that tracks no run for a cancellation does to the agent.
Calm(s, n) ==
    /\ Phantom(n) => n.run = s.run /\ n.settled = s.settled
    /\ \A o \in Ops : Calls(n, o) => Calls(s, o)

StillBusy(s, n) == ShownBusy(s) => ShownBusy(n)

LEMMA CancelTokens ==
    /\ \A o, t : CancelToken(o) # TurnToken(t) /\ CancelToken(o) # RunToken(t)
    /\ \A o, x : CancelToken(o) = CancelToken(x) => o = x
  BY DEF CancelToken, TurnToken, RunToken

LEMMA SameRunCalm ==
    ASSUME NEW s, NEW n, n.run = s.run, n.settled = s.settled
    PROVE  Calm(s, n)
  BY DEF Calm, Calls, HasRun

LEMMA AdvancesCalm ==
    ASSUME NEW s, NEW n, Advances(s, n),
           ~ HasRun(s) /\ n.run.kind = "autonomous" =>
              n.run.turn # None /\ \E t : n.run.token = TurnToken(t)
    PROVE  Calm(s, n)
  <1>1. CASE n.run = s.run /\ n.settled = s.settled
    BY <1>1, SameRunCalm
  <1>2. CASE HasRun(s) /\ n.run = NoRun /\ n.settled = s.settled \cup {s.run.token}
    BY <1>2 DEF Calm, Calls, HasRun, Phantom, NoRun
  <1>3. CASE ~ HasRun(s) /\ n.run.kind = "autonomous" /\ n.settled = s.settled
    BY <1>3, CancelTokens DEF Calm, Calls, Phantom
  <1> QED
    BY <1>1, <1>2, <1>3 DEF Advances

LEMMA HandleTerminalCalm ==
    ASSUME NEW s, Sound(s), ActiveHasRun(s), NEW e, e.turn \in Turns \cup {None},
           NEW t, t = TerminalTurn(s, e.turn),
           t = s.active \/ s.active = None \/ s.fg # None \/ t \in s.finalized
    PROVE  Calm(s, HandleTerminal(s, e)) /\ StillBusy(s, HandleTerminal(s, e))
  <1> DEFINE n == HandleTerminal(s, e)
  <1>1. Advances(s, n) /\ n.run \in {s.run, NoRun}
    BY HandleTerminalAdvances, HandleTerminalActive
  <1>2. CASE t # None /\ t \in s.finalized
    <2>1. n = s
      BY <1>2 DEF HandleTerminal
    <2> QED
      BY <2>1, SameRunCalm DEF StillBusy
  <1>3. CASE ~ (t # None /\ t \in s.finalized)
    <2>1. /\ n.fg = IF IsForeground(s, t) THEN None ELSE s.fg
          /\ n.replacing = s.replacing
          /\ n.lifecycle = "running" =>
                \/ s.replacing
                \/ s.lifecycle = "running" /\ ~ IsForeground(s, t)
                   /\ (IsStale(s, t) \/ s.fg # None)
      BY <1>3, HandleTerminalEffect
    <2>2. IsStale(s, t) => s.fg # None
      BY <1>3 DEF IsStale
    <2>3. StillBusy(s, n)
      <3> HIDE DEF n
      <3> QED
        BY <2>1, <2>2 DEF StillBusy, ShownBusy
    <2>4. ~ HasRun(s) => n.run.kind # "autonomous"
      <3> HIDE DEF n
      <3> QED
        BY <1>1 DEF HasRun, NoRun
    <2>5. Calm(s, n)
      <3> HIDE DEF n
      <3> QED
        BY <1>1, <2>4, AdvancesCalm
    <2> QED
      BY <2>3, <2>5
  <1> QED
    BY <1>2, <1>3

LEMMA HandleStartedCalm ==
    ASSUME NEW s, Sound(s), ActiveHasRun(s), ~ IsPending(s), NEW e, e.turn \in Turns,
           s.fg # None \/ (e.turn \in Autos /\ s.active \in {None, e.turn})
    PROVE  Calm(s, HandleStarted(s, e)) /\ StillBusy(s, HandleStarted(s, e))
  <1> DEFINE n == HandleStarted(s, e)
  <1>1. /\ Advances(s, n)
        /\ HasRun(s) => n.run = s.run
        /\ HasRun(s) \/ s.fg # None \/ n.run = AutonomousRun(TurnToken(e.turn), e.turn)
        /\ s.fg # None => n = s
    BY HandleStartedAdvances, HandleStartedActive
  <1> HIDE DEF n
  <1>2. CASE s.fg # None
    BY <1>1, <1>2, SameRunCalm DEF StillBusy, n
  <1>3. CASE s.fg = None
    <2>1. HasRun(n)
      BY <1>1, <1>3 DEF HasRun, AutonomousRun
    <2>2. ~ HasRun(s) => n.run.turn # None /\ \E t : n.run.token = TurnToken(t)
      BY <1>1, <1>3, NoneIsNoPrompt DEF AutonomousRun
    <2> QED
      BY <1>1, <2>1, <2>2, AdvancesCalm DEF StillBusy, ShownBusy, n
  <1> QED
    BY <1>2, <1>3

LEMMA DispatchCalm ==
    ASSUME IInv, OpenInv, DispatchNext
    PROVE  Calm(agent, agent') /\ StillBusy(agent, agent')
  <1>1. /\ Sound(agent) /\ ActiveHasRun(agent) /\ queue \in Seq(Event) /\ queue # <<>>
        /\ steering = None /\ ~ IsPending(agent)
        /\ InOrder(queue, agent, turn) /\ agent' = Handle(agent, Head(queue))
    BY DEF IInv, Consistent, Buffered, OpenInv, QueueWaits, DispatchNext, Ahead
  <1> DEFINE e == Head(queue)
  <1>2. e \in Event
    BY <1>1
  <1>3. e.turn \in Turns
    BY <1>2 DEF Event
  <1> HIDE DEF e
  <1>4. CASE e.type \in Terminals
    <2>1. agent' = HandleTerminal(agent, e)
      BY <1>1, <1>4 DEF Handle, Terminals, e
    <2>2. e.turn = TerminalTurn(agent, e.turn)
      BY <1>3, TerminalTurnNamed, NoneIsNoPrompt
    <2>3. e.turn = agent.active \/ agent.active = None \/ agent.fg # None \/ e.turn \in agent.finalized
      BY <1>1, <1>4, EndIsNext DEF e
    <2> QED
      BY <1>1, <1>3, <2>1, <2>2, <2>3, HandleTerminalCalm
  <1>5. CASE e.type = "turn_started"
    <2>1. agent' = HandleStarted(agent, e)
      BY <1>1, <1>5 DEF Handle, Terminals, e
    <2>2. agent.fg # None \/ (e.turn \in Autos /\ agent.active \in {None, e.turn})
      BY <1>1, <1>5, StartIsNext DEF e
    <2> QED
      BY <1>1, <1>3, <2>1, <2>2, HandleStartedCalm
  <1>6. CASE e.type \notin Terminals /\ e.type # "turn_started"
    <2>1. agent' = agent
      BY <1>1, <1>6 DEF Handle, Terminals, e
    <2> QED
      BY <2>1, SameRunCalm DEF StillBusy
  <1> QED
    BY <1>4, <1>5, <1>6

LEMMA ForcedCalm ==
    ASSUME Sound(agent), ActiveHasRun(agent), NEW o
    PROVE  Calm(agent, Forced(o)) /\ StillBusy(agent, Forced(o))
  <1>1. agent \in Agent /\ RunShape(agent) /\ agent.run.turn \in Turns \cup {None}
    BY DEF Sound, Agent, Run
  <1>2. Calm(agent, Forced(o))
    <2>1. Advances(agent, Forced(o)) /\ Forced(o).run \in {agent.run, NoRun}
      BY ForcedAdvances, ForcedActive
    <2>2. ~ HasRun(agent) => Forced(o).run.kind # "autonomous"
      BY <2>1 DEF HasRun, NoRun
    <2> QED
      BY <2>1, <2>2, AdvancesCalm
  <1>3. CASE agent.run.turn # None
    <2> DEFINE e == TurnEvent("turn_canceled", agent.run.turn)
    <2>1. e.turn = agent.run.turn /\ agent.run.turn = TerminalTurn(agent, e.turn)
      BY <1>3, TerminalTurnNamed DEF TurnEvent
    <2>2. agent.run.turn = agent.active \/ agent.fg # None
      BY <1>1, <1>3 DEF RunShape, ActiveHasRun, Run, Agent, NoRun
    <2>3. Forced(o) = HandleTerminal(agent, e)
      BY <1>3 DEF Forced
    <2> HIDE DEF e
    <2> QED
      BY <1>1, <1>2, <2>1, <2>2, <2>3, HandleTerminalCalm
  <1>4. CASE agent.run.turn = None /\ captured[o].kind # "foreground"
    <2> DEFINE e == TurnEvent("turn_canceled", None)
    <2>1. e.turn = None /\ Forced(o) = HandleTerminal(agent, e)
      BY <1>4 DEF TurnEvent, Forced
    <2>2. TerminalTurn(agent, None) = agent.active \/ agent.fg # None
      BY TerminalTurnUnnamed
    <2> HIDE DEF e
    <2> QED
      BY <1>2, <2>1, <2>2, HandleTerminalCalm
  <1>5. CASE agent.run.turn = None /\ captured[o].kind = "foreground"
    <2> DEFINE n == SettleForegroundRun(agent, captured[o].token)
    <2>1. n \in Agent /\ n.replacing = agent.replacing
      <3>1. CASE agent.run.kind = "foreground" /\ agent.run.token = captured[o].token
        <4>1. n = ClearRun(agent) /\ HasRun(agent) /\ agent.run.token \in Tokens
          BY <1>1, <3>1 DEF SettleForegroundRun, HasRun, RunShape
        <4>2. ClearRun(agent) \in Agent /\ ClearRun(agent).replacing = agent.replacing
          BY <1>1, <4>1, ClearRunType DEF ClearRun, Agent
        <4> QED
          BY <4>1, <4>2
      <3>2. CASE ~ (agent.run.kind = "foreground" /\ agent.run.token = captured[o].token)
        BY <1>1, <3>2 DEF SettleForegroundRun
      <3> QED
        BY <3>1, <3>2
    <2>2. Forced(o) = [n EXCEPT !.lifecycle = IF agent.replacing THEN @ ELSE "idle"]
      BY <1>5 DEF Forced
    <2> HIDE DEF n
    <2>3. /\ Forced(o).replacing = agent.replacing
          /\ Forced(o).lifecycle = "running" => agent.replacing
      BY <2>1, <2>2 DEF Agent
    <2> QED
      BY <1>2, <2>3 DEF StillBusy, ShownBusy
  <1> QED
    BY <1>3, <1>4, <1>5

LEMMA RefusedStays ==
    ASSUME PhantomInv, \A o \in Ops : result[o] = "refused" => result'[o] = "refused"
    PROVE  Refused => Refused'
  BY DEF Refused

\* A step of nobody, or of an operation that is elsewhere afterwards.
LEMMA PhantomStays ==
    ASSUME IInv, PhantomInv, Calm(agent, agent'), StillBusy(agent, agent'),
           UNCHANGED <<pc, captured, result>>
    PROVE  PhantomInv'
  <1>1. (Refused <=> Refused') /\ \A o \in Ops : (IsCancelling(o))' <=> IsCancelling(o)
    BY DEF Refused, IsCancelling
  <1>2. Phantom(agent') => agent'.run = agent.run /\ agent'.settled = agent.settled
    BY DEF Calm
  <1>3. Phantom(agent') => Phantom(agent)
    BY <1>2 DEF Phantom
  <1>4. \A o \in Ops : Calls(agent', o) => Calls(agent, o)
    BY DEF Calm
  <1>5. (ShownBusy(agent) => ShownBusy(agent'))
    BY DEF StillBusy
  <1> QED
    BY <1>1, <1>2, <1>3, <1>4, <1>5 DEF PhantomInv

LEMMA PhantomMoves ==
    ASSUME IInv, PhantomInv, Calm(agent, agent'),
           NEW o \in Ops, NEW l, Goto(o, l), l \in Fresh => pc[o] \in Fresh,
           \A x \in Ops \ {o} : captured'[x] = captured[x] /\ result'[x] = result[x],
           captured'[o] \in {captured[o], NoRun},
           result'[o] = result[o] \/ pc[o] \notin Past,
           result'[o] = "refused" => l \in Past,
           ShownBusy(agent) => ShownBusy(agent') \/ Refused',
           Phantom(agent') /\ IsCancelling(o) /\ captured[o].token = agent.run.token =>
              Refused' \/ (l \in {"interrupting", "settling"} /\ captured'[o] = captured[o])
    PROVE  PhantomInv'
  <1>1. pc'[o] = l /\ \A x \in Ops : x # o => pc'[x] = pc[x]
    BY DEF IInv, Consistent, Goto
  <1>2. Refused => Refused'
    <2>1. \A x \in Ops : result[x] = "refused" => result'[x] = "refused"
      BY DEF PhantomInv
    <2> QED
      BY <2>1, RefusedStays
  <1>3. Phantom(agent') => /\ Phantom(agent)
                           /\ agent'.run = agent.run /\ agent'.settled = agent.settled
    BY DEF Phantom, Calm
  <1>4. ASSUME Phantom(agent'), ~ Refused'
        PROVE  \E x \in Ops : (IsCancelling(x))' /\ captured'[x].token = agent'.run.token
    <2>1. PICK x \in Ops : IsCancelling(x) /\ captured[x].token = agent.run.token
      BY <1>2, <1>3, <1>4 DEF PhantomInv
    <2>2. CASE x = o
      BY <1>1, <1>3, <1>4, <2>1, <2>2 DEF IsCancelling
    <2>3. CASE x # o
      BY <1>1, <1>3, <1>4, <2>1, <2>3 DEF IsCancelling
    <2> QED
      BY <2>2, <2>3
  <1>5. Phantom(agent') => agent'.run.token \notin agent'.settled
    BY <1>3 DEF PhantomInv
  <1>6. ShownBusy(agent') \/ Refused'
    BY <1>2 DEF PhantomInv
  <1>7. ASSUME NEW x \in Ops, pc'[x] \in Fresh
        PROVE  ~ Calls(agent', x)
    <2>1. pc[x] \in Fresh
      BY <1>1, <1>7
    <2> QED
      BY <2>1 DEF PhantomInv, Calm
  <1>8. ASSUME NEW x \in Ops, result'[x] = "refused"
        PROVE  pc'[x] \in Past
    BY <1>1, <1>8 DEF PhantomInv
  <1>9. ASSUME NEW x \in Ops, captured'[x].kind = "foreground"
        PROVE  \E p \in Prompts : captured'[x].token = RunToken(p)
    <2>1. captured'[x] = captured[x] \/ captured'[x] = NoRun
      OBVIOUS
    <2>2. captured'[x] # NoRun
      BY <1>9 DEF NoRun
    <2> QED
      BY <1>9, <2>1, <2>2 DEF PhantomInv
  <1> QED
    BY <1>4, <1>5, <1>6, <1>7, <1>8, <1>9 DEF PhantomInv

\* An operation that is not cancelling moves.
LEMMA PhantomPasses ==
    ASSUME IInv, PhantomInv, Calm(agent, agent'), ShownBusy(agent) => ShownBusy(agent') \/ Refused',
           UNCHANGED <<captured, result>>,
           NEW o \in Ops, NEW l, Goto(o, l), l \in Fresh => pc[o] \in Fresh,
           pc[o] \notin {"interrupting", "settling"}, result[o] = "refused" => l \in Past
    PROVE  PhantomInv'
  <1>1. ~ IsCancelling(o)
    BY DEF IsCancelling
  <1> QED
    BY <1>1, PhantomMoves

LEMMA StreamAgentPhantom ==
    ASSUME IInv, PhantomInv, NEW p \in Prompts, UNCHANGED <<captured, result>>,
           pc[p] \notin {"interrupting", "settling"}, result[p] # "refused",
           NEW refused \in {agent, [agent EXCEPT !.replacing = FALSE]},
           StreamAgent(agent, p, refused)
    PROVE  PhantomInv'
  <1>1. p \in Ops /\ agent \in Agent
    BY DEF Ops, IInv, Consistent, Sound
  <1>2. CASE agent.fg # None \/ HasRun(agent)
    <2>1. agent' = refused /\ Goto(p, "failed") /\ "failed" \notin Fresh
      BY <1>2 DEF StreamAgent, Fresh, SteerSteps
    <2>2. agent'.run = agent.run /\ agent'.settled = agent.settled /\ agent'.fg = agent.fg
      BY <1>1, <2>1 DEF Agent
    <2>3. ShownBusy(agent')
      BY <1>2, <2>2 DEF ShownBusy, HasRun
    <2> QED
      BY <1>1, <2>1, <2>2, <2>3, SameRunCalm, PhantomPasses
  <1>3. CASE ~ (agent.fg # None \/ HasRun(agent))
    <2>1. /\ agent' = [agent EXCEPT !.failed = FALSE, !.run = PendingRun(p, agent.replacing)]
          /\ Goto(p, "starting") /\ "starting" \notin Fresh
      BY <1>3 DEF StreamAgent, Fresh, SteerSteps
    <2>2. agent'.run = PendingRun(p, agent.replacing) /\ agent'.settled = agent.settled
      BY <1>1, <2>1 DEF Agent
    <2>3. ~ Phantom(agent') /\ HasRun(agent') /\ \A o \in Ops : agent'.run.token # CancelToken(o)
      BY <2>2, CancelTokens DEF PendingRun, Phantom, HasRun
    <2>4. Calm(agent, agent') /\ ShownBusy(agent')
      BY <2>2, <2>3 DEF Calm, Calls, ShownBusy
    <2> QED
      BY <1>1, <2>1, <2>4, PhantomPasses
  <1> QED
    BY <1>2, <1>3

LEMMA ReplacePhantom ==
    ASSUME IInv, PhantomInv, NEW p \in Prompts, UNCHANGED <<captured, result>>,
           pc[p] \in Fresh, result[p] # "refused", Replace(p)
    PROVE  PhantomInv'
  <1>1. p \in Ops /\ agent \in Agent /\ pc[p] \notin {"interrupting", "settling"}
    BY DEF Ops, IInv, Consistent, Sound, Fresh, SteerSteps
  <1>2. agent' = [agent EXCEPT !.replacing = TRUE, !.lifecycle = "running"] /\ Goto(p, "cancelQueued")
    BY DEF Replace
  <1>3. agent'.run = agent.run /\ agent'.settled = agent.settled /\ ShownBusy(agent')
    BY <1>1, <1>2 DEF Agent, ShownBusy
  <1> QED
    BY <1>1, <1>2, <1>3, SameRunCalm, PhantomPasses

LEMMA CancelReturnsPhantom ==
    ASSUME IInv, PhantomInv, NEW o \in Ops, NEW s, Calm(agent, s), StillBusy(agent, s),
           NEW status, NEW m, CancelReturns(s, o, status, m), pc[o] \notin Past,
           result \in [Ops -> Results],
           Phantom(s) /\ IsCancelling(o) /\ captured[o].token = agent.run.token => status = "refused"
    PROVE  PhantomInv'
  <1>1. /\ agent' = s /\ Goto(o, "returned") /\ "returned" \in Past /\ "returned" \notin Fresh
        /\ captured' = [captured EXCEPT ![o] = NoRun]
        /\ result' = [result EXCEPT ![o] = status]
    BY DEF CancelReturns, Past, Fresh, SteerSteps
  <1>2. captured \in [Ops -> Run]
    BY DEF IInv, Consistent
  <1>3. /\ \A x \in Ops \ {o} : captured'[x] = captured[x] /\ result'[x] = result[x]
        /\ captured'[o] \in {captured[o], NoRun} /\ result'[o] = status
    BY <1>1, <1>2
  <1>4. status = "refused" => Refused'
    BY <1>3 DEF Refused
  <1> QED
    BY <1>1, <1>3, <1>4, PhantomMoves DEF StillBusy

LEMMA ForcedEndsPhantom ==
    ASSUME IInv, PhantomInv, ActiveHasRun(agent), NEW o \in Ops,
           IsCancelling(o), captured[o].token = agent.run.token, Phantom(agent)
    PROVE  ~ Phantom(Forced(o))
  <1>1. Sound(agent) /\ agent \in Agent /\ RunShape(agent)
    BY DEF IInv, Consistent, Sound
  <1>2. captured[o].kind # "foreground"
    BY <1>1 DEF PhantomInv, RunShape, Phantom
  <1>3. agent.fg = None /\ HasRun(agent) /\ agent.run.token \in Tokens
    BY <1>1 DEF Sound, Owned, Phantom, HasRun, RunShape
  <1> DEFINE e == TurnEvent("turn_canceled", None)
             t == agent.active
  <1>4. Forced(o) = HandleTerminal(agent, e) /\ e.turn = None /\ t = TerminalTurn(agent, e.turn)
    BY <1>2, <1>3, TerminalTurnUnnamed DEF Forced, Phantom, TurnEvent
  <1>5. ~ (t # None /\ t \in agent.finalized)
    BY <1>1, <1>3, NoneIsNoPrompt DEF ActiveHasRun
  <1>6. Settles(agent, t)
    BY DEF Settles, Phantom
  <1> HIDE DEF e, t
  <1>7. HandleTerminal(agent, e).run = IF Settles(agent, t) THEN NoRun ELSE agent.run
    BY <1>1, <1>4, <1>5, HandleTerminalEffect
  <1>8. Forced(o).run = NoRun
    BY <1>4, <1>6, <1>7
  <1> QED
    BY <1>8 DEF Phantom, NoRun

LEMMA CancelStepPhantom ==
    ASSUME TypedInv, OpenInv, PhantomInv, NEW o \in Ops, CancelStep(o)
    PROVE  PhantomInv'
  <1>1. /\ IInv /\ Sound(agent) /\ ActiveHasRun(agent) /\ result \in [Ops -> Results]
    BY DEF TypedInv, IInv, Consistent, OpenInv, Typed
  <1>2. CASE InterruptAcknowledged(o) \/ InterruptRefused(o)
    <2>1. /\ pc[o] = "interrupting" /\ Goto(o, "settling") /\ "settling" \notin Fresh
          /\ UNCHANGED <<agent, captured, result>>
      BY <1>2 DEF InterruptAcknowledged, InterruptRefused, managerVars, Fresh, SteerSteps
    <2>2. pc[o] \notin Past
      BY <2>1 DEF Past
    <2>3. result'[o] # "refused"
      BY <2>1, <2>2 DEF PhantomInv
    <2>4. Calm(agent, agent')
      BY <2>1, SameRunCalm
    <2> QED
      BY <1>1, <2>1, <2>2, <2>3, <2>4, PhantomMoves
  <1>3. ASSUME pc[o] = "settling", ~ HasSettled(agent, o) \/ TRUE
        PROVE  pc[o] \notin Past /\ IsCancelling(o)
    BY <1>3 DEF Past, IsCancelling
  <1>4. CASE CancelCompletes(o)
    <2>1. /\ pc[o] = "settling" /\ captured[o].token \in agent.settled
          /\ CancelReturns(agent, o, "settled", micro)
      BY <1>4 DEF CancelCompletes, HasSettled
    <2>2. Phantom(agent) => captured[o].token # agent.run.token
      BY <2>1 DEF PhantomInv
    <2> QED
      BY <1>1, <1>3, <2>1, <2>2, SameRunCalm, CancelReturnsPhantom DEF StillBusy
  <1>5. CASE CancelTimesOut(o)
    <2>1. pc[o] = "settling"
      BY <1>5 DEF CancelTimesOut
    <2>2. CASE CancelReturns(agent, o, "refused", micro)
      BY <1>1, <1>3, <2>1, <2>2, SameRunCalm, CancelReturnsPhantom DEF StillBusy
    <2>3. CASE CancelReturns(Forced(o), o, "settled", micro)
      <3>1. Calm(agent, Forced(o)) /\ StillBusy(agent, Forced(o))
        BY <1>1, ForcedCalm
      <3>2. Phantom(Forced(o)) => Phantom(agent)
        BY <3>1 DEF Calm, Phantom
      <3>3. Phantom(Forced(o)) => captured[o].token # agent.run.token
        BY <1>1, <1>3, <2>1, <3>2, ForcedEndsPhantom
      <3> QED
        BY <1>1, <1>3, <2>1, <2>3, <3>1, <3>3, CancelReturnsPhantom
    <2> QED
      BY <1>5, <2>2, <2>3 DEF CancelTimesOut
  <1> QED
    BY <1>2, <1>4, <1>5 DEF CancelStep

LEMMA CancelStartsPhantom ==
    ASSUME TypedInv, PhantomInv, NEW o \in Ops, CancelStarts(o)
    PROVE  PhantomInv'
  <1>1. /\ IInv /\ Sound(agent) /\ agent \in Agent /\ RunShape(agent) /\ result \in [Ops -> Results]
        /\ captured \in [Ops -> Run] /\ pc \in [Ops -> Steps]
        /\ pc[o] = "cancelQueued"
    BY DEF TypedInv, IInv, Consistent, Sound, Typed, CancelStarts
  <1>2. pc[o] \notin Past /\ pc[o] \in Fresh /\ ~ IsCancelling(o)
    BY <1>1 DEF Past, Fresh, IsCancelling
  <1>3. CASE CancelReturns(agent, o, "not_running", Tail(micro))
    BY <1>1, <1>2, <1>3, SameRunCalm, CancelReturnsPhantom DEF StillBusy
  <1> DEFINE tracked == IF agent.lifecycle = "running"
                        THEN TrackAutonomousRun(agent, CancelToken(o), None) ELSE agent
  <1>4. CASE /\ HasRun(tracked) /\ agent' = tracked
             /\ captured' = [captured EXCEPT ![o] = tracked.run]
             /\ Goto(o, "interrupting") /\ result' = result
    <2> HIDE DEF tracked
    <2>1. /\ pc'[o] = "interrupting" /\ \A x \in Ops : x # o => pc'[x] = pc[x]
          /\ captured'[o] = agent'.run /\ \A x \in Ops : x # o => captured'[x] = captured[x]
      BY <1>1, <1>4 DEF Goto
    <2>2. (Refused <=> Refused') /\ (IsCancelling(o))'
      BY <1>4, <2>1 DEF Refused, IsCancelling
    <2>3. \/ agent' = agent /\ HasRun(agent)
          \/ /\ ~ HasRun(agent) /\ agent'.run = AutonomousRun(CancelToken(o), None)
             /\ agent'.settled = agent.settled
      BY <1>1, <1>4 DEF tracked, TrackAutonomousRun, Agent
    <2>4. Phantom(agent') => agent'.run.token \notin agent'.settled
      <3>1. CASE agent' = agent
        BY <3>1 DEF PhantomInv
      <3>2. CASE agent'.run = AutonomousRun(CancelToken(o), None) /\ agent'.settled = agent.settled
        BY <1>2, <3>2 DEF PhantomInv, Calls, AutonomousRun
      <3> QED
        BY <2>3, <3>1, <3>2
    <2>5. ShownBusy(agent')
      BY <1>4 DEF ShownBusy
    <2>6. ASSUME NEW x \in Ops, pc'[x] \in Fresh
          PROVE  ~ Calls(agent', x)
      <3>1. x # o /\ ~ Calls(agent, x)
        BY <2>1, <2>6 DEF PhantomInv, Fresh, SteerSteps
      <3>2. CASE agent' = agent
        BY <3>1, <3>2
      <3>3. CASE /\ agent'.run = AutonomousRun(CancelToken(o), None)
                 /\ agent'.settled = agent.settled
        BY <3>1, <3>3, CancelTokens DEF Calls, AutonomousRun
      <3> QED
        BY <2>3, <3>2, <3>3
    <2>7. ASSUME NEW x \in Ops, result'[x] = "refused"
          PROVE  pc'[x] \in Past
      BY <1>2, <1>4, <2>1, <2>7 DEF PhantomInv
    <2>8. ASSUME NEW x \in Ops, captured'[x].kind = "foreground"
          PROVE  \E p \in Prompts : captured'[x].token = RunToken(p)
      <3>1. CASE x # o
        BY <2>1, <2>8, <3>1 DEF PhantomInv
      <3>2. CASE x = o
        <4>1. agent' = agent /\ agent.run.kind = "foreground"
          BY <2>1, <2>3, <2>8, <3>2 DEF AutonomousRun
        <4> QED
          BY <1>1, <2>1, <3>2, <4>1 DEF RunShape
      <3> QED
        BY <3>1, <3>2
    <2> QED
      BY <2>1, <2>2, <2>4, <2>5, <2>6, <2>7, <2>8 DEF PhantomInv
  <1> QED
    BY <1>3, <1>4 DEF CancelStarts

LEMMA ContinuationPhantom ==
    ASSUME TypedInv, PhantomInv, Continuation
    PROVE  PhantomInv'
  <1>1. IInv /\ agent \in Agent /\ Prompts \subseteq Ops
    BY DEF TypedInv, IInv, Consistent, Sound, Ops
  <1>2. ASSUME NEW o \in Ops, CancelResumes(o)
        PROVE  PhantomInv'
    <2>1. /\ pc[o] = "returned" /\ pc[o] \notin {"interrupting", "settling"}
          /\ UNCHANGED <<captured, result>>
      BY <1>2 DEF CancelResumes
    <2>2. CASE o \in Stops /\ Goto(o, "done") /\ agent' = agent
      <3>1. "done" \in Past /\ "done" \notin Fresh /\ Calm(agent, agent')
        BY <2>2, SameRunCalm DEF Past, Fresh, SteerSteps
      <3> QED
        BY <1>1, <2>1, <2>2, <3>1, PhantomPasses
    <2>3. CASE /\ result[o] = "refused" /\ Goto(o, "failed")
               /\ agent' = [agent EXCEPT !.replacing = FALSE]
      <3>1. agent'.run = agent.run /\ agent'.settled = agent.settled
        BY <1>1, <2>3 DEF Agent
      <3>2. "failed" \in Past /\ "failed" \notin Fresh /\ Calm(agent, agent') /\ Refused'
        BY <2>1, <2>3, <3>1, SameRunCalm DEF Past, Fresh, SteerSteps, Refused
      <3> QED
        BY <1>1, <2>1, <2>3, <3>2, PhantomPasses
    <2>4. CASE /\ o \in Prompts /\ result[o] # "refused"
               /\ StreamAgent(agent, o, [agent EXCEPT !.replacing = FALSE])
      BY <1>1, <2>1, <2>4, StreamAgentPhantom
    <2> QED
      BY <1>2, <2>2, <2>3, <2>4 DEF CancelResumes
  <1>3. ASSUME NEW p \in Prompts, SteerStarts(p)
        PROVE  PhantomInv'
    <2>1. /\ pc[p] = "steerQueued" /\ Goto(p, "admitting") /\ UNCHANGED <<agent, captured, result>>
          /\ Calm(agent, agent')
      BY <1>3, SameRunCalm DEF SteerStarts
    <2>2. pc[p] \in Fresh /\ pc[p] \notin {"interrupting", "settling"} /\ pc[p] \notin Past
      BY <2>1 DEF Fresh, SteerSteps, Past
    <2>3. result[p] # "refused"
      BY <1>1, <2>2 DEF PhantomInv
    <2> QED
      BY <1>1, <2>1, <2>2, <2>3, PhantomPasses
  <1>4. ASSUME NEW p \in Prompts, SteerResumes(p)
        PROVE  PhantomInv'
    <2>1. pc[p] = "steerReturned" /\ UNCHANGED <<captured, result>>
      BY <1>4 DEF SteerResumes
    <2>2. pc[p] \in Fresh /\ pc[p] \notin {"interrupting", "settling"} /\ pc[p] \notin Past
      BY <2>1 DEF Fresh, SteerSteps, Past
    <2>3. result[p] # "refused"
      BY <1>1, <2>2 DEF PhantomInv
    <2>4. CASE agent' = agent /\ \E l \in {"done", "failed"} : Goto(p, l)
      <3>1. PICK l \in {"done", "failed"} : Goto(p, l)
        BY <2>4
      <3>2. l \in Past /\ l \notin Fresh /\ Calm(agent, agent')
        BY <2>4, SameRunCalm DEF Past, Fresh, SteerSteps
      <3> QED
        BY <1>1, <2>1, <2>2, <2>4, <3>1, <3>2, PhantomPasses
    <2>5. CASE Replace(p)
      BY <1>1, <2>1, <2>2, <2>3, <2>5, ReplacePhantom
    <2>6. CASE StreamAgent(agent, p, agent)
      BY <1>1, <2>1, <2>2, <2>3, <2>6, StreamAgentPhantom
    <2> QED
      BY <1>4, <2>4, <2>5, <2>6 DEF SteerResumes
  <1> QED
    BY <1>2, <1>3, <1>4, CancelStartsPhantom DEF Continuation

LEMMA SteerStepPhantom ==
    ASSUME TypedInv, PhantomInv, NEW p \in Prompts, SteerStep(p)
    PROVE  PhantomInv'
  <1>1. IInv /\ p \in Ops /\ result \in [Ops -> Results]
    BY DEF TypedInv, Typed, Ops
  <1>2. /\ pc[p] \in {"admitting", "steering", "draining"}
        /\ UNCHANGED <<agent, captured>>
        /\ \E l \in {"steering", "draining", "steerReturned"} : Goto(p, l)
        /\ \/ result' = result
           \/ \E r \in {"accepted", "unavailable", "error"} : result' = [result EXCEPT ![p] = r]
    BY DEF SteerStep, SteerAdmitted, SteerAnswered, SteerDrained
  <1>3. PICK l \in {"steering", "draining", "steerReturned"} : Goto(p, l)
    BY <1>2
  <1>4. pc[p] \in Fresh /\ pc[p] \notin Past /\ ~ IsCancelling(p) /\ Calm(agent, agent')
    BY <1>2, SameRunCalm DEF Fresh, SteerSteps, Past, IsCancelling
  <1>5. \A x \in Ops \ {p} : captured'[x] = captured[x] /\ result'[x] = result[x]
    BY <1>1, <1>2
  <1>6. result'[p] # "refused"
    BY <1>1, <1>2, <1>4 DEF PhantomInv
  <1>7. captured'[p] \in {captured[p], NoRun}
    BY <1>2
  <1> HIDE DEF IsCancelling
  <1> QED
    BY <1>1, <1>2, <1>3, <1>4, <1>5, <1>6, <1>7, PhantomMoves

LEMMA StartPhantom ==
    ASSUME TypedInv, PhantomInv, NEW p \in Prompts, NEW stale \in BOOLEAN,
           StartResolves(p) \/ StartRejects(p, stale) \/ StreamEnds(p)
    PROVE  PhantomInv'
  <1>1. IInv /\ p \in Ops /\ Sound(agent) /\ agent \in Agent /\ Consistent(agent, pc, captured)
    BY DEF TypedInv, IInv, Consistent, Sound, Ops
  <1>2. UNCHANGED <<captured, result>> /\ pc[p] \in {"starting", "streaming"}
    BY DEF StartResolves, StartRejects, StreamEnds
  <1>3. pc[p] \notin {"interrupting", "settling"} /\ pc[p] \notin Past
    BY <1>2 DEF Past
  <1>4. result[p] # "refused"
    BY <1>1, <1>3 DEF PhantomInv
  <1>5. ASSUME Calm(agent, agent'), StillBusy(agent, agent'),
               NEW l \in {"streaming", "done", "failed"}, Goto(p, l)
        PROVE  PhantomInv'
    <2>1. l \notin Fresh
      BY DEF Fresh, SteerSteps
    <2> QED
      BY <1>1, <1>2, <1>3, <1>4, <1>5, <2>1, PhantomPasses DEF StillBusy
  <1>6. Calm(agent, agent) /\ StillBusy(agent, agent)
    BY SameRunCalm DEF StillBusy
  <1>7. CASE StartResolves(p)
    <2>1. CASE RunToken(p) \in agent.settled
      BY <1>5, <1>6, <1>7, <2>1 DEF StartResolves
    <2>2. CASE RunToken(p) \notin agent.settled
      <3>1. agent' = Opened(agent, p) /\ Goto(p, "streaming") /\ pc[p] = "starting"
        BY <1>7, <2>2 DEF StartResolves
      <3>2. IsPending(agent) /\ agent.run.token = RunToken(p)
        BY <1>1, <2>2, <3>1 DEF Consistent
      <3>3. /\ agent'.run.kind = agent.run.kind /\ agent'.run.token = agent.run.token
            /\ agent'.settled = agent.settled /\ agent'.fg = p
        BY <1>1, <3>1 DEF Opened, Agent, Run
      <3>4. Calm(agent, agent')
        BY <3>2, <3>3 DEF Calm, Calls, HasRun, Phantom, IsPending
      <3>5. StillBusy(agent, agent')
        BY <3>3, NoneIsNoPrompt DEF StillBusy, ShownBusy
      <3> QED
        BY <1>5, <3>1, <3>4, <3>5
    <2> QED
      BY <2>1, <2>2
  <1>8. CASE StartRejects(p, stale)
    <2>1. CASE RunToken(p) \in agent.settled
      BY <1>5, <1>6, <1>8, <2>1 DEF StartRejects
    <2>2. CASE RunToken(p) \notin agent.settled
      <3>1. agent' = Rejected(agent, p, stale) /\ Goto(p, "failed") /\ pc[p] = "starting"
        BY <1>8, <2>2 DEF StartRejects
      <3>2. IsPending(agent) /\ agent.run.token = RunToken(p)
        BY <1>1, <2>2, <3>1 DEF Consistent
      <3>3. Advances(agent, agent') /\ agent'.run = NoRun
        BY <1>1, <3>1, <3>2, RejectedAdvances
      <3>4. agent'.lifecycle # "running"
        BY <1>1, <3>1, <3>2, RejectedReleases
      <3>5. Calm(agent, agent')
        BY <3>3, AdvancesCalm DEF NoRun
      <3> QED
        BY <1>5, <3>1, <3>4, <3>5 DEF StillBusy, ShownBusy
    <2> QED
      BY <2>1, <2>2
  <1>9. CASE StreamEnds(p)
    <2>1. agent' = agent /\ Goto(p, "done")
      BY <1>1, <1>9, StreamEndsStep DEF StreamEnds
    <2> QED
      BY <1>5, <1>6, <2>1
  <1> QED
    BY <1>7, <1>8, <1>9

LEMMA TaskPhantom ==
    ASSUME TypedInv, OpenInv, PhantomInv, Task
    PROVE  PhantomInv'
  <1>1. IInv /\ Prompts \subseteq Ops /\ Stops \subseteq Ops
    BY DEF TypedInv, Ops
  <1>2. ASSUME NEW o \in Ops, pc[o] = "idle"
        PROVE  /\ pc[o] \in Fresh /\ pc[o] \notin {"interrupting", "settling"}
               /\ result[o] # "refused"
    <2>1. pc[o] \in Fresh /\ pc[o] \notin Past
      BY <1>2 DEF Fresh, Past
    <2> QED
      BY <1>2, <2>1 DEF PhantomInv
  <1>3. ASSUME agent' = agent PROVE Calm(agent, agent') /\ StillBusy(agent, agent')
    BY <1>3, SameRunCalm DEF StillBusy
  <1>4. ASSUME NEW p \in Prompts, NEW mode, Send(p, mode)
        PROVE  PhantomInv'
    <2>1. pc[p] = "idle" /\ UNCHANGED <<captured, result>>
      BY <1>4 DEF Send
    <2>2. CASE StreamAgent(agent, p, agent)
      BY <1>1, <1>2, <2>1, <2>2, StreamAgentPhantom
    <2>3. CASE Replace(p)
      BY <1>1, <1>2, <2>1, <2>3, ReplacePhantom
    <2>4. CASE agent' = agent /\ Goto(p, "steerQueued")
      BY <1>1, <1>2, <1>3, <2>1, <2>4, PhantomPasses
    <2> QED
      BY <1>4, <2>2, <2>3, <2>4 DEF Send
  <1>5. ASSUME NEW o \in Stops, Stop(o)
        PROVE  PhantomInv'
    <2>1. pc[o] = "idle" /\ Goto(o, "cancelQueued") /\ UNCHANGED <<agent, captured, result>>
      BY <1>5 DEF Stop
    <2> QED
      BY <1>1, <1>2, <1>3, <2>1, PhantomPasses
  <1>6. CASE ProviderStep
    <2>1. UNCHANGED <<agent, pc, captured, result>>
      BY <1>6 DEF ProviderStep, ProviderAccepts, ProviderBegins, ProviderOutputs, ProviderEnds, Emit,
         managerVars, opVars
    <2> QED
      BY <1>1, <1>3, <2>1, PhantomStays
  <1>7. \A p \in Prompts, stale \in BOOLEAN :
           StartResolves(p) \/ StartRejects(p, stale) \/ StreamEnds(p) => PhantomInv'
    BY StartPhantom
  <1>8. \A p \in Prompts : StartResolves(p) \/ StreamEnds(p) => PhantomInv'
    BY <1>7
  <1> QED
    BY <1>4, <1>5, <1>6, <1>7, <1>8, SteerStepPhantom, CancelStepPhantom DEF Task

LEMMA InitPhantom == Init => PhantomInv
  <1> SUFFICES ASSUME Init PROVE PhantomInv
    OBVIOUS
  <1>1. agent.run = NoRun /\ agent.settled = {} /\ agent.lifecycle = "idle"
    BY DEF Init
  <1>2. \A o \in Ops : pc[o] = "idle" /\ captured[o] = NoRun /\ result[o] = "none"
    BY DEF Init
  <1> QED
    BY <1>1, <1>2 DEF PhantomInv, Phantom, NoRun, ShownBusy, Calls, HasRun

LEMMA NextPhantom == TypedInv /\ OpenInv /\ PhantomInv /\ [Next]_vars => PhantomInv'
  <1> SUFFICES ASSUME TypedInv, OpenInv, PhantomInv, [Next]_vars PROVE PhantomInv'
    OBVIOUS
  <1>1. IInv
    BY DEF TypedInv
  <1>2. CASE DispatchNext
    <2>1. UNCHANGED <<pc, captured, result>>
      BY <1>2 DEF DispatchNext, opVars
    <2> QED
      BY <1>1, <1>2, <2>1, DispatchCalm, PhantomStays
  <1>3. CASE UNCHANGED vars
    <2>1. UNCHANGED <<agent, pc, captured, result>>
      BY <1>3 DEF vars, managerVars, opVars
    <2> QED
      BY <1>1, <2>1, SameRunCalm, PhantomStays DEF StillBusy
  <1> QED
    BY <1>2, <1>3, TaskPhantom, ContinuationPhantom DEF Next

\* Whatever the order in which turns end, fail to start, are replaced and are
\* cancelled: when nobody works with the agent any more, it is not running.
THEOREM RestsWhenQuiet == Spec => []QuietMeansSettled
  <1> DEFINE Inv == FullInv /\ OpenInv /\ WaitInv /\ PhantomInv /\ ReplacingOwned
  <1>1. Init => Inv
    <2>1. Init => ReplacingOwned
      BY DEF Init, ReplacingOwned
    <2> QED
      BY <2>1, InitFull, InitOpen, InitWait, InitPhantom
  <1>2. Inv /\ [Next]_vars => Inv'
    <2> SUFFICES ASSUME Inv, [Next]_vars PROVE Inv'
      OBVIOUS
    <2>1. TypedInv /\ IInv
      BY DEF FullInv, TypedInv
    <2> QED
      BY <2>1, NextFull, NextOpen, NextWaitInv, NextPhantom, NextOwner
  <1>3. Inv => QuietMeansSettled
    <2> SUFFICES ASSUME Inv, Quiet, \A o \in Ops : result[o] # "refused",
                        \A o \in Stops : pc[o] = "idle"
                 PROVE  ~ HasInFlightRun(agent)
      BY DEF QuietMeansSettled
    <2>1. /\ TypedInv /\ IInv /\ Sound(agent) /\ agent \in Agent /\ RunShape(agent) /\ Owned(agent)
          /\ Consistent(agent, pc, captured) /\ ActiveHasRun(agent) /\ LaneInv /\ ~ Refused
      BY DEF FullInv, TypedInv, IInv, Consistent, Sound, OpenInv, Refused
    <2>2. lane = <<>> /\ micro = <<>> /\ queue = <<>>
      BY DEF Quiet, Idle
    <2>3. steering = None
      BY <2>1, <2>2, SteerExcludes DEF TypedInv, OpenInv
    <2>4. \A o \in Ops : pc[o] \notin InLane \cup Queued \cup {"returned"}
      <3>1. \A o \in Ops : pc[o] \notin InLane
        BY <2>1, <2>2, RunningIsHead
      <3> QED
        BY <2>2, <3>1 DEF WaitInv, ResumesIn, Resuming
    <2>5. agent.run.kind # "foreground"
      <3> SUFFICES ASSUME agent.run.kind = "foreground" PROVE FALSE
        OBVIOUS
      <3>1. PICK p \in Prompts : agent.run.token = RunToken(p)
        BY <2>1 DEF RunShape
      <3>2. pc[p] = (IF agent.run.turn = None THEN "starting" ELSE "streaming")
            /\ RunToken(p) \notin agent.settled
        BY <2>1, <3>1 DEF Consistent, RunShape
      <3> QED
        BY <3>2 DEF Quiet, IsLive
    <2>6. agent.fg = None
      BY <2>1, <2>5 DEF Owned
    <2>7. agent.run.kind # "autonomous"
      <3> SUFFICES ASSUME agent.run.kind = "autonomous" PROVE FALSE
        OBVIOUS
      <3>1. agent.run.turn # None
        <4> SUFFICES ASSUME agent.run.turn = None PROVE FALSE
          OBVIOUS
        <4>1. PICK o \in Ops : IsCancelling(o)
          BY <2>1 DEF PhantomInv, Phantom
        <4> QED
          BY <2>4, <4>1 DEF IsCancelling, InLane
      <3>2. agent.active = agent.run.turn /\ agent.active \in Turns
        BY <2>1, <3>1 DEF ActiveHasRun, Agent, Run
      <3>3. agent.active \in Autos
        BY <2>1, <2>6, <3>1, <3>2 DEF ActiveHasRun, Turns
      <3>4. Ahead = <<>>
        BY <2>2, <2>3, <2>5 DEF Ahead, IsPending
      <3>5. turn[agent.active] = "running"
        BY <3>3, <3>4 DEF OpenInv, InOrder, ActiveFirst
      <3> QED
        BY <3>2, <3>5 DEF Quiet
    <2>8. ~ HasRun(agent)
      BY <2>1, <2>5, <2>7 DEF HasRun, Agent, Run
    <2>9. agent.lifecycle # "running"
      <3> SUFFICES ASSUME agent.lifecycle = "running" PROVE FALSE
        OBVIOUS
      <3>1. agent.replacing
        BY <2>1, <2>6, <2>8 DEF PhantomInv, ShownBusy
      <3>2. PICK p \in Prompts : pc[p] \in CancelSteps
        BY <2>5, <3>1 DEF ReplacingOwned, Owner, IsPending
      <3> QED
        BY <2>4, <3>2 DEF CancelSteps, InLane, Queued, Ops
    <2> QED
      BY <2>6, <2>8, <2>9 DEF HasInFlightRun
  <1> QED
    BY <1>1, <1>2, <1>3, PTL DEF Spec

-----------------------------------------------------------------------------
(* Who is turned away.                                                       *)

\* A cancellation waits for the run it found, and one that came back unrefused
\* left no run without a turn, unless another cancellation tracked it since.
ReturnInv ==
    /\ \A o \in Ops : IsCancelling(o) /\ Phantom(agent) => captured[o].token = agent.run.token
    /\ \A o \in Ops : pc[o] = "returned" /\ result[o] # "refused" /\ Phantom(agent) =>
          \E x \in Ops : IsCancelling(x)

LEMMA ReturnAside ==
    ASSUME WaitInv, ReturnInv, Calm(agent, agent'),
           \A x \in Ops : (IsCancelling(x))' => IsCancelling(x) /\ captured'[x] = captured[x],
           \A x \in Ops : IsCancelling(x) => (IsCancelling(x))' \/ micro = <<>>,
           \A x \in Ops : pc'[x] = "returned" =>
              \/ pc[x] = "returned" /\ result'[x] = result[x]
              \/ ~ Phantom(agent') \/ result'[x] = "refused"
    PROVE  ReturnInv'
  <1>1. Phantom(agent') => Phantom(agent) /\ agent'.run = agent.run
    BY DEF Calm, Phantom
  <1>2. ASSUME NEW x \in Ops, (IsCancelling(x))', Phantom(agent')
        PROVE  captured'[x].token = agent'.run.token
    <2>1. IsCancelling(x) /\ captured'[x] = captured[x]
      BY <1>2
    <2> QED
      BY <1>1, <1>2, <2>1 DEF ReturnInv
  <1>3. ASSUME NEW x \in Ops, pc'[x] = "returned", result'[x] # "refused", Phantom(agent')
        PROVE  \E y \in Ops : (IsCancelling(y))'
    <2>1. pc[x] = "returned" /\ result[x] # "refused"
      BY <1>3
    <2>2. micro # <<>>
      BY <2>1 DEF WaitInv, ResumesIn, Resuming
    <2>3. PICK y \in Ops : IsCancelling(y)
      BY <1>1, <1>3, <2>1 DEF ReturnInv
    <2> QED
      BY <2>2, <2>3
  <1> QED
    BY <1>2, <1>3 DEF ReturnInv

LEMMA ReturnMoves ==
    ASSUME IInv, WaitInv, ReturnInv, Calm(agent, agent'), captured' = captured,
           NEW o \in Ops, NEW l, Goto(o, l), l \notin {"interrupting", "returned"},
           pc[o] = "settling" \/ l = "settling" => pc[o] = "interrupting" /\ l = "settling",
           pc[o] = "interrupting" => l = "settling",
           \A x \in Ops \ {o} : result'[x] = result[x]
    PROVE  ReturnInv'
  <1>1. pc'[o] = l /\ \A x \in Ops : x # o => pc'[x] = pc[x]
    BY DEF IInv, Consistent, Goto
  <1>2. \A x \in Ops : IsCancelling(x) <=> (IsCancelling(x))'
    BY <1>1 DEF IsCancelling
  <1>3. \A x \in Ops : pc'[x] = "returned" => pc[x] = "returned" /\ result'[x] = result[x]
    BY <1>1
  <1> QED
    BY <1>2, <1>3, ReturnAside

LEMMA ReturnReturns ==
    ASSUME IInv, Typed, WaitInv, ReturnInv, NEW o \in Ops, NEW s, Calm(agent, s),
           NEW status, NEW m, CancelReturns(s, o, status, m),
           status = "refused" \/ ~ Phantom(s), ~ IsCancelling(o) \/ micro = <<>>
    PROVE  ReturnInv'
  <1>1. /\ agent' = s /\ pc'[o] = "returned" /\ \A x \in Ops : x # o => pc'[x] = pc[x]
        /\ result'[o] = status /\ \A x \in Ops : x # o => result'[x] = result[x]
        /\ \A x \in Ops : x # o => captured'[x] = captured[x]
    BY DEF IInv, Consistent, Typed, CancelReturns, Goto
  <1>2. \A x \in Ops : (IsCancelling(x))' => IsCancelling(x) /\ captured'[x] = captured[x]
    BY <1>1 DEF IsCancelling
  <1>3. \A x \in Ops : IsCancelling(x) => (IsCancelling(x))' \/ micro = <<>>
    BY <1>1 DEF IsCancelling
  <1>4. \A x \in Ops : pc'[x] = "returned" =>
              \/ pc[x] = "returned" /\ result'[x] = result[x]
              \/ ~ Phantom(agent') \/ result'[x] = "refused"
    BY <1>1
  <1> QED
    BY <1>1, <1>2, <1>3, <1>4, ReturnAside

LEMMA StreamAgentReturn ==
    ASSUME IInv, WaitInv, ReturnInv, NEW p \in Prompts, UNCHANGED <<captured, result>>,
           pc[p] \notin {"interrupting", "settling"},
           NEW refused \in {agent, [agent EXCEPT !.replacing = FALSE]},
           StreamAgent(agent, p, refused)
    PROVE  ReturnInv'
  <1>1. p \in Ops /\ agent \in Agent
    BY DEF Ops, IInv, Consistent, Sound
  <1>2. \E l \in {"failed", "starting"} : Goto(p, l)
    BY DEF StreamAgent
  <1>3. Calm(agent, agent')
    <2>1. CASE agent' = refused
      <3>1. agent'.run = agent.run /\ agent'.settled = agent.settled
        BY <1>1, <2>1 DEF Agent
      <3> QED
        BY <3>1, SameRunCalm
    <2>2. CASE agent' = [agent EXCEPT !.failed = FALSE, !.run = PendingRun(p, agent.replacing)]
      <3>1. agent'.run = PendingRun(p, agent.replacing) /\ agent'.settled = agent.settled
        BY <1>1, <2>2 DEF Agent
      <3> QED
        BY <3>1, CancelTokens DEF Calm, Calls, Phantom, PendingRun
    <2> QED
      BY <2>1, <2>2 DEF StreamAgent
  <1> QED
    BY <1>1, <1>2, <1>3, ReturnMoves

LEMMA ReplaceReturn ==
    ASSUME IInv, WaitInv, ReturnInv, NEW p \in Prompts, UNCHANGED <<captured, result>>,
           pc[p] \notin {"interrupting", "settling"}, Replace(p)
    PROVE  ReturnInv'
  <1>1. p \in Ops /\ agent \in Agent /\ Goto(p, "cancelQueued")
    BY DEF Ops, IInv, Consistent, Sound, Replace
  <1>2. agent'.run = agent.run /\ agent'.settled = agent.settled
    BY <1>1 DEF Agent, Replace
  <1> QED
    BY <1>1, <1>2, SameRunCalm, ReturnMoves

LEMMA CancelStepReturn ==
    ASSUME TypedInv, OpenInv, WaitInv, PhantomInv, ReturnInv, micro = <<>>,
           NEW o \in Ops, CancelStep(o)
    PROVE  ReturnInv'
  <1>1. IInv /\ Typed /\ Sound(agent) /\ ActiveHasRun(agent) /\ Calm(agent, agent)
    BY SameRunCalm DEF TypedInv, IInv, Consistent, OpenInv
  <1>2. CASE InterruptAcknowledged(o) \/ InterruptRefused(o)
    <2>1. pc[o] = "interrupting" /\ Goto(o, "settling") /\ UNCHANGED <<agent, captured, result>>
      BY <1>2 DEF InterruptAcknowledged, InterruptRefused, managerVars
    <2> QED
      BY <1>1, <2>1, ReturnMoves
  <1>3. CASE CancelCompletes(o)
    <2>1. /\ IsCancelling(o) /\ captured[o].token \in agent.settled
          /\ CancelReturns(agent, o, "settled", micro)
      BY <1>3 DEF CancelCompletes, HasSettled, IsCancelling
    <2>2. ~ Phantom(agent)
      BY <2>1 DEF PhantomInv, ReturnInv
    <2> QED
      BY <1>1, <2>1, <2>2, ReturnReturns
  <1>4. CASE CancelTimesOut(o)
    <2>1. IsCancelling(o)
      BY <1>4 DEF CancelTimesOut, IsCancelling
    <2>2. CASE CancelReturns(agent, o, "refused", micro)
      BY <1>1, <2>2, ReturnReturns
    <2>3. CASE CancelReturns(Forced(o), o, "settled", micro)
      <3>1. Calm(agent, Forced(o))
        BY <1>1, ForcedCalm
      <3>2. ~ Phantom(Forced(o))
        <4>1. Phantom(Forced(o)) => Phantom(agent)
          BY <3>1 DEF Calm, Phantom
        <4>2. Phantom(agent) => captured[o].token = agent.run.token
          BY <2>1 DEF ReturnInv
        <4> QED
          BY <1>1, <2>1, <4>1, <4>2, ForcedEndsPhantom
      <3> QED
        BY <1>1, <2>3, <3>1, <3>2, ReturnReturns
    <2> QED
      BY <1>4, <2>2, <2>3 DEF CancelTimesOut
  <1> QED
    BY <1>2, <1>3, <1>4 DEF CancelStep

LEMMA CancelStartsReturn ==
    ASSUME TypedInv, WaitInv, ReturnInv, NEW o \in Ops, CancelStarts(o)
    PROVE  ReturnInv'
  <1>1. /\ IInv /\ Typed /\ agent \in Agent /\ LaneInv /\ captured \in [Ops -> Run]
        /\ pc \in [Ops -> Steps] /\ pc[o] = "cancelQueued" /\ Continues("start", o)
        /\ Calm(agent, agent)
    BY SameRunCalm DEF TypedInv, IInv, Consistent, Sound, CancelStarts
  <1> DEFINE tracked == IF agent.lifecycle = "running"
                        THEN TrackAutonomousRun(agent, CancelToken(o), None) ELSE agent
  <1>2. CASE ~ HasRun(tracked) /\ CancelReturns(agent, o, "not_running", Tail(micro))
    <2>1. ~ Phantom(agent)
      BY <1>2 DEF TrackAutonomousRun, HasRun, Phantom
    <2>2. ~ IsCancelling(o)
      BY <1>1 DEF IsCancelling
    <2> HIDE DEF tracked
    <2> QED
      BY <1>1, <1>2, <2>1, <2>2, ReturnReturns
  <1>3. CASE /\ HasRun(tracked) /\ agent' = tracked
             /\ captured' = [captured EXCEPT ![o] = tracked.run]
             /\ Goto(o, "interrupting") /\ result' = result
    <2> HIDE DEF tracked
    <2>1. /\ pc'[o] = "interrupting" /\ \A x \in Ops : x # o => pc'[x] = pc[x]
          /\ captured'[o] = agent'.run
      BY <1>1, <1>3 DEF Goto
    <2>2. ASSUME NEW x \in Ops, x # o
          PROVE  ~ (IsCancelling(x))'
      <3>1. micro # <<>> /\ Head(micro) = <<"start", o>>
        BY <1>1 DEF Continues
      <3>2. lane[1] = o
        BY <1>1, <3>1, NoOtherStart DEF LaneInv
      <3>3. pc[x] \notin InLane
        BY <1>1, <2>2, <3>2, RunningIsHead
      <3> QED
        BY <2>1, <2>2, <3>3 DEF IsCancelling, InLane
    <2>3. (IsCancelling(o))'
      BY <2>1 DEF IsCancelling
    <2> QED
      BY <2>1, <2>2, <2>3 DEF ReturnInv
  <1> QED
    BY <1>2, <1>3 DEF CancelStarts

LEMMA ContinuationReturn ==
    ASSUME TypedInv, WaitInv, ReturnInv, Continuation
    PROVE  ReturnInv'
  <1>1. IInv /\ agent \in Agent /\ Prompts \subseteq Ops
    BY DEF TypedInv, IInv, Consistent, Sound, Ops
  <1>2. ASSUME NEW o \in Ops, CancelResumes(o)
        PROVE  ReturnInv'
    <2>1. pc[o] = "returned" /\ UNCHANGED <<captured, result>>
      BY <1>2 DEF CancelResumes
    <2>2. CASE agent' \in {agent, [agent EXCEPT !.replacing = FALSE]}
               /\ \E l \in {"done", "failed"} : Goto(o, l)
      <3>1. agent'.run = agent.run /\ agent'.settled = agent.settled
        BY <1>1, <2>2 DEF Agent
      <3> QED
        BY <1>1, <2>1, <2>2, <3>1, SameRunCalm, ReturnMoves
    <2>3. CASE o \in Prompts /\ StreamAgent(agent, o, [agent EXCEPT !.replacing = FALSE])
      BY <1>1, <2>1, <2>3, StreamAgentReturn
    <2> QED
      BY <1>2, <2>2, <2>3 DEF CancelResumes
  <1>3. ASSUME NEW p \in Prompts, SteerStarts(p) \/ SteerResumes(p)
        PROVE  ReturnInv'
    <2>1. pc[p] \in {"steerQueued", "steerReturned"} /\ UNCHANGED <<captured, result>>
      BY <1>3 DEF SteerStarts, SteerResumes
    <2>2. CASE agent' = agent /\ \E l \in {"admitting", "done", "failed"} : Goto(p, l)
      BY <1>1, <2>1, <2>2, SameRunCalm, ReturnMoves
    <2>3. CASE StreamAgent(agent, p, agent)
      BY <1>1, <2>1, <2>3, StreamAgentReturn
    <2>4. CASE Replace(p)
      BY <1>1, <2>1, <2>4, ReplaceReturn
    <2> QED
      BY <1>3, <2>2, <2>3, <2>4 DEF SteerStarts, SteerResumes
  <1> QED
    BY <1>2, <1>3, CancelStartsReturn DEF Continuation

LEMMA StartCalm ==
    ASSUME IInv, NEW p \in Prompts, NEW stale \in BOOLEAN, StartResolves(p) \/ StartRejects(p, stale)
    PROVE  Calm(agent, agent')
  <1>1. Sound(agent) /\ agent \in Agent /\ Consistent(agent, pc, captured) /\ pc[p] = "starting"
    BY DEF IInv, Consistent, Sound, StartResolves, StartRejects
  <1>2. CASE RunToken(p) \in agent.settled
    <2>1. agent' = agent
      BY <1>2 DEF StartResolves, StartRejects
    <2> QED
      BY <2>1, SameRunCalm
  <1>3. CASE RunToken(p) \notin agent.settled
    <2>1. IsPending(agent) /\ agent.run.token = RunToken(p)
      BY <1>1, <1>3 DEF Consistent
    <2>2. CASE agent' = Opened(agent, p)
      <3>1. /\ agent'.run.kind = agent.run.kind /\ agent'.run.token = agent.run.token
            /\ agent'.settled = agent.settled
        BY <1>1, <2>2 DEF Opened, Agent, Run
      <3> QED
        BY <2>1, <3>1 DEF Calm, Calls, HasRun, Phantom, IsPending
    <2>3. CASE agent' = Rejected(agent, p, stale)
      <3>1. Advances(agent, agent') /\ agent'.run = NoRun
        BY <1>1, <2>1, <2>3, RejectedAdvances
      <3> QED
        BY <3>1, AdvancesCalm DEF NoRun
    <2> QED
      BY <1>3, <2>2, <2>3 DEF StartResolves, StartRejects
  <1> QED
    BY <1>2, <1>3

LEMMA TaskReturn ==
    ASSUME TypedInv, OpenInv, WaitInv, PhantomInv, ReturnInv, Idle, Task
    PROVE  ReturnInv'
  <1>1. IInv /\ Prompts \subseteq Ops /\ Stops \subseteq Ops /\ micro = <<>>
    BY DEF TypedInv, Ops, Idle
  <1>2. ASSUME agent' = agent PROVE Calm(agent, agent')
    BY <1>2, SameRunCalm
  <1>3. ASSUME NEW p \in Prompts, NEW mode, Send(p, mode)
        PROVE  ReturnInv'
    <2>1. pc[p] = "idle" /\ UNCHANGED <<captured, result>>
      BY <1>3 DEF Send
    <2>2. CASE StreamAgent(agent, p, agent)
      BY <1>1, <2>1, <2>2, StreamAgentReturn
    <2>3. CASE Replace(p)
      BY <1>1, <2>1, <2>3, ReplaceReturn
    <2>4. CASE agent' = agent /\ Goto(p, "steerQueued")
      BY <1>1, <1>2, <2>1, <2>4, ReturnMoves
    <2> QED
      BY <1>3, <2>2, <2>3, <2>4 DEF Send
  <1>4. ASSUME NEW o \in Stops, Stop(o)
        PROVE  ReturnInv'
    <2>1. pc[o] = "idle" /\ Goto(o, "cancelQueued") /\ UNCHANGED <<agent, captured, result>>
      BY <1>4 DEF Stop
    <2> QED
      BY <1>1, <1>2, <2>1, ReturnMoves
  <1>5. CASE ProviderStep
    <2>1. UNCHANGED <<agent, pc, captured, result>>
      BY <1>5 DEF ProviderStep, ProviderAccepts, ProviderBegins, ProviderOutputs, ProviderEnds, Emit,
         managerVars, opVars
    <2> QED
      BY <2>1 DEF ReturnInv, IsCancelling
  <1>6. ASSUME NEW p \in Prompts, NEW stale \in BOOLEAN, StartResolves(p) \/ StartRejects(p, stale)
        PROVE  ReturnInv'
    <2>1. pc[p] = "starting" /\ UNCHANGED <<captured, result>> /\ Calm(agent, agent')
      BY <1>1, <1>6, StartCalm DEF StartResolves, StartRejects
    <2>2. \E l \in {"streaming", "failed"} : Goto(p, l)
      BY <1>6 DEF StartResolves, StartRejects
    <2> QED
      BY <1>1, <2>1, <2>2, ReturnMoves
  <1>7. ASSUME NEW p \in Prompts, StreamEnds(p)
        PROVE  ReturnInv'
    <2>1. /\ pc[p] = "streaming" /\ Goto(p, "done") /\ UNCHANGED <<captured, result>>
          /\ agent' = agent
      BY <1>1, <1>7, StreamEndsStep DEF StreamEnds
    <2> QED
      BY <1>1, <1>2, <2>1, ReturnMoves
  <1>8. ASSUME NEW p \in Prompts, SteerStep(p)
        PROVE  ReturnInv'
    <2>1. /\ pc[p] \in {"admitting", "steering", "draining"}
          /\ UNCHANGED <<agent, captured>>
          /\ \E l \in {"steering", "draining", "steerReturned"} : Goto(p, l)
          /\ \/ result' = result
             \/ \E r : result' = [result EXCEPT ![p] = r]
      BY <1>8 DEF SteerStep, SteerAdmitted, SteerAnswered, SteerDrained
    <2>2. \A x \in Ops \ {p} : result'[x] = result[x]
      BY <2>1 DEF TypedInv, Typed
    <2> QED
      BY <1>1, <1>2, <2>1, <2>2, ReturnMoves
  <1>9. \A p \in Prompts : StartResolves(p) => ReturnInv'
    BY <1>6
  <1> QED
    BY <1>1, <1>3, <1>4, <1>5, <1>6, <1>7, <1>8, <1>9, CancelStepReturn DEF Task

LEMMA NextReturn ==
    TypedInv /\ OpenInv /\ WaitInv /\ PhantomInv /\ ReturnInv /\ [Next]_vars => ReturnInv'
  <1> SUFFICES ASSUME TypedInv, OpenInv, WaitInv, PhantomInv, ReturnInv, [Next]_vars
               PROVE  ReturnInv'
    OBVIOUS
  <1>1. CASE DispatchNext
    <2>1. UNCHANGED <<pc, captured, result>> /\ Calm(agent, agent')
      BY <1>1, DispatchCalm DEF DispatchNext, opVars, TypedInv
    <2>2. \A x \in Ops : IsCancelling(x) <=> (IsCancelling(x))'
      BY <2>1 DEF IsCancelling
    <2> QED
      BY <2>1, <2>2, ReturnAside
  <1>2. CASE UNCHANGED vars
    <2>1. UNCHANGED <<agent, pc, captured, result>>
      BY <1>2 DEF vars, managerVars, opVars
    <2> QED
      BY <2>1 DEF ReturnInv, IsCancelling
  <1> QED
    BY <1>1, <1>2, TaskReturn, ContinuationReturn DEF Next

\* Only its own resumption moves a prompt whose cancellation came back.
LEMMA ReturnedResumes ==
    ASSUME IInv, [Next]_vars, NEW p \in Prompts, pc[p] = "returned", pc'[p] # "returned"
    PROVE  CancelResumes(p)
  <1>1. pc \in [Ops -> Steps] /\ p \in Ops /\ Prompts \subseteq Ops /\ Stops \subseteq Ops
    BY DEF IInv, Consistent, Ops
  <1>2. ASSUME NEW o, NEW l, Goto(o, l), pc[o] # "returned"
        PROVE  FALSE
    BY <1>1, <1>2 DEF Goto
  <1>3. CASE UNCHANGED pc
    BY <1>3
  <1>4. CASE DispatchNext \/ ProviderStep \/ UNCHANGED vars
    <2>1. UNCHANGED pc
      BY <1>4 DEF DispatchNext, ProviderStep, ProviderAccepts, ProviderBegins, ProviderOutputs,
         ProviderEnds, opVars, vars
    <2> QED
      BY <1>3, <2>1
  <1>5. ASSUME NEW q \in Prompts, NEW mode, Send(q, mode)
        PROVE  FALSE
    <2>1. pc[q] # "returned" /\ \E l : Goto(q, l)
      BY <1>5 DEF Send, StreamAgent, Replace
    <2> QED
      BY <1>2, <2>1
  <1>6. ASSUME NEW q \in Prompts, NEW stale,
               StartResolves(q) \/ StreamEnds(q) \/ StartRejects(q, stale) \/ SteerStep(q)
                  \/ SteerStarts(q)
        PROVE  FALSE
    <2>1. pc[q] # "returned" /\ \E l : Goto(q, l)
      BY <1>6 DEF StartResolves, StreamEnds, StartRejects, SteerStep, SteerAdmitted, SteerAnswered,
         SteerDrained, SteerStarts
    <2> QED
      BY <1>2, <2>1
  <1>7. ASSUME NEW q \in Prompts, SteerResumes(q)
        PROVE  FALSE
    <2>1. pc[q] # "returned" /\ \E l : Goto(q, l)
      BY <1>7 DEF SteerResumes, StreamAgent, Replace
    <2> QED
      BY <1>2, <2>1
  <1>8. ASSUME NEW o \in Ops, CancelStep(o) \/ CancelStarts(o)
        PROVE  FALSE
    <2>1. pc[o] # "returned" /\ \E l : Goto(o, l)
      BY <1>8 DEF CancelStep, InterruptAcknowledged, InterruptRefused, CancelCompletes,
         CancelTimesOut, CancelStarts, CancelReturns
    <2> QED
      BY <1>2, <2>1
  <1>9. ASSUME NEW o \in Stops, Stop(o)
        PROVE  FALSE
    <2>1. pc[o] # "returned" /\ Goto(o, "cancelQueued")
      BY <1>9 DEF Stop
    <2> QED
      BY <1>2, <2>1
  <1>10. ASSUME NEW o \in Ops, CancelResumes(o)
         PROVE  o = p
    <2>1. \E l : Goto(o, l)
      BY <1>10 DEF CancelResumes, StreamAgent
    <2> QED
      BY <1>1, <2>1 DEF Goto
  <1>11. CASE Continuation
    BY <1>6, <1>7, <1>8, <1>10, <1>11 DEF Continuation
  <1>12. CASE Task
    BY <1>4, <1>5, <1>6, <1>8, <1>9, <1>12 DEF Task
  <1> QED
    BY <1>4, <1>11, <1>12 DEF Next

\* A prompt whose cancellation succeeded is turned away only for another prompt,
\* another cancellation or a turn of the provider's own.
THEOREM TurnedAwayForAnother == Spec => RejectedForAnother
  <1> DEFINE Inv == FullInv /\ OpenInv /\ WaitInv /\ PhantomInv /\ ReturnInv
             Turned == \A p \in Prompts :
                 pc[p] = "returned" /\ result[p] # "refused" /\ pc'[p] = "failed" =>
                    \/ \E o \in Ops \ {p} : IsCancelling(o) \/ pc[o] = "streaming"
                    \/ \E q \in Prompts \ {p} : IsLive(q)
                    \/ \E x \in Autos : turn[x] = "running"
  <1>1. Init => Inv
    <2>1. Init => ReturnInv
      BY DEF Init, ReturnInv, IsCancelling
    <2> QED
      BY <2>1, InitFull, InitOpen, InitWait, InitPhantom
  <1>2. Inv /\ [Next]_vars => Inv'
    <2> SUFFICES ASSUME Inv, [Next]_vars PROVE Inv'
      OBVIOUS
    <2>1. TypedInv
      BY DEF FullInv
    <2> QED
      BY <2>1, NextFull, NextOpen, NextWaitInv, NextPhantom, NextReturn
  <1>3. Inv /\ [Next]_vars => Turned
    <2> SUFFICES ASSUME Inv, [Next]_vars, NEW p \in Prompts,
                        pc[p] = "returned", result[p] # "refused", pc'[p] = "failed"
                 PROVE  \/ \E o \in Ops \ {p} : IsCancelling(o) \/ pc[o] = "streaming"
                        \/ \E q \in Prompts \ {p} : IsLive(q)
                        \/ \E x \in Autos : turn[x] = "running"
      OBVIOUS
    <2>1. /\ IInv /\ Sound(agent) /\ agent \in Agent /\ RunShape(agent) /\ Owned(agent)
          /\ Consistent(agent, pc, captured) /\ ActiveHasRun(agent) /\ p \in Ops
          /\ Prompts \subseteq Ops
      BY DEF FullInv, TypedInv, IInv, Consistent, Sound, OpenInv, Ops
    <2>2. CancelResumes(p)
      BY <2>1, ReturnedResumes
    <2>3. micro # <<>> /\ StreamAgent(agent, p, [agent EXCEPT !.replacing = FALSE])
      <3>1. p \notin Stops
        BY AgentTurnAssumption
      <3> QED
        BY <2>2, <3>1 DEF CancelResumes, Continues
    <2>4. HasRun(agent)
      <3>1. pc'[p] # "starting"
        OBVIOUS
      <3>2. agent.fg # None \/ HasRun(agent)
        BY <2>1, <2>3, <3>1 DEF StreamAgent, Goto, Consistent
      <3> QED
        BY <2>1, <3>2 DEF Owned, HasRun
    <2>5. CASE agent.run.kind = "foreground"
      <3>1. PICK q \in Prompts : agent.run.token = RunToken(q)
        BY <2>1, <2>5 DEF RunShape
      <3>2. /\ pc[q] = IF agent.run.turn = None THEN "starting" ELSE "streaming"
            /\ RunToken(q) \notin agent.settled
        BY <2>1, <2>5, <3>1 DEF Consistent, RunShape
      <3>3. q # p
        BY <3>2
      <3> QED
        BY <2>1, <3>2, <3>3 DEF IsLive
    <2>6. CASE agent.run.kind = "autonomous" /\ agent.run.turn = None
      <3>1. PICK o \in Ops : IsCancelling(o)
        BY <2>1, <2>6 DEF ReturnInv, Phantom
      <3>2. o # p
        BY <3>1 DEF IsCancelling
      <3> QED
        BY <3>1, <3>2
    <2>7. CASE agent.run.kind = "autonomous" /\ agent.run.turn # None
      <3>1. agent.active = agent.run.turn /\ agent.active \in Turns /\ agent.fg = None
        BY <2>1, <2>7 DEF ActiveHasRun, Agent, Run, Owned
      <3>2. agent.active \in Autos
        BY <2>1, <2>7, <3>1 DEF ActiveHasRun, Turns
      <3>3. Ahead = <<>>
        BY <2>3, <2>7 DEF OpenInv, QueueWaits, Ahead, IsPending
      <3>4. turn[agent.active] = "running"
        BY <3>2, <3>3 DEF OpenInv, InOrder, ActiveFirst
      <3> QED
        BY <3>2, <3>4
    <2> QED
      BY <2>1, <2>4, <2>5, <2>6, <2>7 DEF HasRun, Agent, Run
  <1>4. RejectedForAnother <=> [][Turned]_vars
    BY DEF RejectedForAnother
  <1> QED
    BY <1>1, <1>2, <1>3, <1>4, PTL DEF Spec

-----------------------------------------------------------------------------
(* The order of the timeline.                                                *)

IsItem(e) == e.type = "item"
Prompted(p, line) == \E i \in DOMAIN line : line[i] = UserMessage(p, {})
Steered(p, line) == \E i \in DOMAIN line : line[i] = UserMessage(p, {p})

\* Every message is of a turn that its prompt opened or steered; output of a
\* prompt's turn comes after the prompt; and the output before a message that
\* steered was emitted before the session was asked, the output after it since.
LineInOrder(line, asks) ==
    /\ line \in Seq(Entry)
    /\ \A i \in DOMAIN line : ~ IsItem(line[i]) =>
          line[i] \in {UserMessage(line[i].turn, {}), UserMessage(line[i].turn, {line[i].turn})}
    /\ \A i \in DOMAIN line : IsItem(line[i]) => line[i].asked \subseteq asks
    /\ \A i \in DOMAIN line : IsItem(line[i]) /\ line[i].turn \in Prompts =>
          \E j \in 1 .. i : line[j] = UserMessage(line[i].turn, {})
    /\ \A i, j \in DOMAIN line : \A p \in Prompts : line[i] = UserMessage(p, {p}) /\ IsItem(line[j]) =>
          (p \in line[j].asked <=> i < j)

\* Output on its way is of a turn whose prompt is in the timeline, or that is
\* about to open, and knows every prompt that has steered or is steering.
Output(e) ==
    /\ e.asked \subseteq asked
    /\ e.turn \in Prompts =>
          Prompted(e.turn, timeline) \/ (IsPending(agent) /\ agent.run.token = RunToken(e.turn))
    /\ \A p \in Prompts : Steered(p, timeline) \/ steering = p => p \in e.asked

Unasked == {"idle", "steerQueued", "admitting"}
HasSteered == {"draining", "steerReturned", "done"}

\* A prompt that steered was accepted, one that has not reached the session was
\* not asked, and a stream has its prompt.
Answers(line, asks, at, res) ==
    /\ \A p \in Prompts : Steered(p, line) =>
          p \in asks /\ res[p] = "accepted" /\ at[p] \in HasSteered
    /\ \A p \in Prompts : at[p] \in Unasked => p \notin asks
    /\ \A p \in Prompts : at[p] = "streaming" => Prompted(p, line)

\* Nothing emitted so far knows the prompt that is being admitted.
FirstAsked == steering # None =>
    /\ steering \in asked
    /\ \A i \in DOMAIN timeline : IsItem(timeline[i]) => steering \notin timeline[i].asked

LineInv ==
    /\ LineInOrder(timeline, asked)
    /\ \A i \in DOMAIN Ahead : IsItem(Ahead[i]) => Output(Ahead[i])
    /\ Answers(timeline, asked, pc, result)
    /\ FirstAsked

LEMMA EntryTypes ==
    /\ \A p \in Prompts, asks \in SUBSET Prompts : UserMessage(p, asks) \in Entry
    /\ \A p, x : UserMessage(p, x).turn = p /\ UserMessage(p, x).asked = x
                 /\ UserMessage(p, x).type = "user_message"
    /\ \A p, x : ~ IsItem(UserMessage(p, x))
    /\ \A e \in Event : IsItem(e) => e \in Entry
  BY DEF UserMessage, Entry, Event, IsItem, Turns

LEMMA LineGrows ==
    ASSUME NEW line \in Seq(Entry), NEW e \in Entry
    PROVE  LET n == Append(line, e) IN
           /\ n \in Seq(Entry) /\ DOMAIN n = 1 .. Len(line) + 1 /\ Len(line) \in Nat
           /\ DOMAIN line = 1 .. Len(line)
           /\ n[Len(line) + 1] = e /\ \A i \in DOMAIN line : n[i] = line[i]
           /\ \A p : Prompted(p, line) => Prompted(p, n)
           /\ \A p : Steered(p, line) => Steered(p, n)
           /\ \A p : Prompted(p, n) => Prompted(p, line) \/ e = UserMessage(p, {})
           /\ \A p : Steered(p, n) => Steered(p, line) \/ e = UserMessage(p, {p})
  <1> DEFINE n == Append(line, e)
  <1>1. /\ n \in Seq(Entry) /\ DOMAIN n = 1 .. Len(line) + 1 /\ Len(line) \in Nat
        /\ DOMAIN line = 1 .. Len(line)
        /\ n[Len(line) + 1] = e /\ \A i \in DOMAIN line : n[i] = line[i]
    OBVIOUS
  <1> HIDE DEF n
  <1>2. \A i \in DOMAIN n : n[i] = e \/ (i \in DOMAIN line /\ n[i] = line[i])
    BY <1>1
  <1>3. DOMAIN line \subseteq DOMAIN n /\ Len(line) + 1 \in DOMAIN n
    BY <1>1
  <1>4. \A x : (\E i \in DOMAIN line : line[i] = x) => \E i \in DOMAIN n : n[i] = x
    BY <1>1, <1>3
  <1>5. \A x : (\E i \in DOMAIN n : n[i] = x) => x = e \/ \E i \in DOMAIN line : line[i] = x
    BY <1>2
  <1> QED
    BY <1>1, <1>4, <1>5 DEF n, Prompted, Steered

LEMMA ItemInOrder ==
    ASSUME NEW asks, LineInOrder(timeline, asks), NEW e \in Entry, IsItem(e), e.asked \subseteq asks,
           e.turn \in Prompts => Prompted(e.turn, timeline),
           \A p \in Prompts : Steered(p, timeline) => p \in e.asked
    PROVE  LineInOrder(Append(timeline, e), asks)
  <1> DEFINE n == Append(timeline, e)
             k == Len(timeline) + 1
  <1>1. timeline \in Seq(Entry)
    BY DEF LineInOrder
  <1>2. /\ n \in Seq(Entry) /\ DOMAIN n = 1 .. k /\ Len(timeline) \in Nat
        /\ DOMAIN timeline = 1 .. Len(timeline)
        /\ n[k] = e /\ \A i \in DOMAIN timeline : n[i] = timeline[i]
    BY <1>1, LineGrows
  <1>3. \A p, x : e # UserMessage(p, x)
    BY EntryTypes
  <1> HIDE DEF n, k
  <1>4. \A i \in DOMAIN n : i = k \/ (i \in DOMAIN timeline /\ n[i] = timeline[i])
    BY <1>2 DEF k
  <1>5. \A i \in DOMAIN n : ~ IsItem(n[i]) =>
          n[i] \in {UserMessage(n[i].turn, {}), UserMessage(n[i].turn, {n[i].turn})}
    BY <1>2, <1>4 DEF LineInOrder
  <1>6. \A i \in DOMAIN n : IsItem(n[i]) => n[i].asked \subseteq asks
    BY <1>2, <1>4 DEF LineInOrder
  <1>7. ASSUME NEW i \in DOMAIN n, IsItem(n[i]), n[i].turn \in Prompts
        PROVE  \E j \in 1 .. i : n[j] = UserMessage(n[i].turn, {})
    <2>1. CASE i = k
      <3>1. PICK j \in DOMAIN timeline : timeline[j] = UserMessage(e.turn, {})
        BY <1>2, <1>7, <2>1 DEF Prompted
      <3> QED
        BY <1>2, <2>1, <3>1 DEF k
    <2>2. CASE i \in DOMAIN timeline /\ n[i] = timeline[i]
      <3>1. PICK j \in 1 .. i : timeline[j] = UserMessage(timeline[i].turn, {})
        BY <1>7, <2>2 DEF LineInOrder
      <3> QED
        BY <1>2, <2>2, <3>1
    <2> QED
      BY <1>4, <2>1, <2>2
  <1>8. ASSUME NEW i \in DOMAIN n, NEW j \in DOMAIN n, NEW p \in Prompts,
               n[i] = UserMessage(p, {p}), IsItem(n[j])
        PROVE  p \in n[j].asked <=> i < j
    <2>1. i \in DOMAIN timeline /\ timeline[i] = UserMessage(p, {p})
      BY <1>2, <1>3, <1>4, <1>8
    <2>2. CASE j = k
      <3>1. p \in e.asked /\ i < k
        BY <1>2, <2>1 DEF Steered, k
      <3> QED
        BY <1>2, <2>2, <3>1
    <2>3. CASE j \in DOMAIN timeline /\ n[j] = timeline[j]
      BY <1>8, <2>1, <2>3 DEF LineInOrder
    <2> QED
      BY <1>4, <2>2, <2>3
  <1> QED
    BY <1>2, <1>5, <1>6, <1>7, <1>8 DEF LineInOrder, n

LEMMA MessageInOrder ==
    ASSUME NEW asks, LineInOrder(timeline, asks), NEW p \in Prompts, NEW by \in {{}, {p}},
           by # {} => \A i \in DOMAIN timeline : IsItem(timeline[i]) => p \notin timeline[i].asked
    PROVE  LineInOrder(Append(timeline, UserMessage(p, by)), asks)
  <1> DEFINE e == UserMessage(p, by)
             n == Append(timeline, e)
             k == Len(timeline) + 1
  <1>1. timeline \in Seq(Entry) /\ e \in Entry /\ e.turn = p /\ e.asked = by /\ ~ IsItem(e)
    BY EntryTypes DEF LineInOrder
  <1>2. /\ n \in Seq(Entry) /\ DOMAIN n = 1 .. k /\ Len(timeline) \in Nat
        /\ DOMAIN timeline = 1 .. Len(timeline)
        /\ n[k] = e /\ \A i \in DOMAIN timeline : n[i] = timeline[i]
    BY <1>1, LineGrows
  <1>3. \A q, x : e = UserMessage(q, x) => q = p /\ x = by
    BY EntryTypes
  <1>4. e \in {UserMessage(e.turn, {}), UserMessage(e.turn, {e.turn})}
    BY <1>1
  <1> HIDE DEF n, k, e
  <1>5. \A i \in DOMAIN n : i = k \/ (i \in DOMAIN timeline /\ n[i] = timeline[i])
    BY <1>2 DEF k
  <1>6. \A i \in DOMAIN n : IsItem(n[i]) => i \in DOMAIN timeline /\ n[i] = timeline[i]
    BY <1>1, <1>2, <1>5
  <1>7. \A i \in DOMAIN n : ~ IsItem(n[i]) =>
          n[i] \in {UserMessage(n[i].turn, {}), UserMessage(n[i].turn, {n[i].turn})}
    BY <1>2, <1>4, <1>5 DEF LineInOrder
  <1>8. \A i \in DOMAIN n : IsItem(n[i]) => n[i].asked \subseteq asks
    BY <1>6 DEF LineInOrder
  <1>9. ASSUME NEW i \in DOMAIN n, IsItem(n[i]), n[i].turn \in Prompts
        PROVE  \E j \in 1 .. i : n[j] = UserMessage(n[i].turn, {})
    <2>1. i \in DOMAIN timeline /\ n[i] = timeline[i]
      BY <1>6, <1>9
    <2>2. PICK j \in 1 .. i : timeline[j] = UserMessage(timeline[i].turn, {})
      BY <1>9, <2>1 DEF LineInOrder
    <2> QED
      BY <1>2, <2>1, <2>2
  <1>10. ASSUME NEW i \in DOMAIN n, NEW j \in DOMAIN n, NEW q \in Prompts,
                n[i] = UserMessage(q, {q}), IsItem(n[j])
         PROVE  q \in n[j].asked <=> i < j
    <2>1. j \in DOMAIN timeline /\ n[j] = timeline[j]
      BY <1>6, <1>10
    <2>2. CASE i = k
      <3>1. q = p /\ by = {q}
        BY <1>2, <1>3, <1>10, <2>2
      <3>2. p \notin timeline[j].asked
        BY <1>10, <2>1, <3>1
      <3>3. ~ (k < j)
        BY <1>2, <2>1 DEF k
      <3> QED
        BY <2>1, <2>2, <3>1, <3>2, <3>3
    <2>3. CASE i \in DOMAIN timeline /\ n[i] = timeline[i]
      BY <1>10, <2>1, <2>3 DEF LineInOrder
    <2> QED
      BY <1>5, <2>2, <2>3
  <1> QED
    BY <1>2, <1>7, <1>8, <1>9, <1>10 DEF LineInOrder, n, e

LEMMA LineOrders == LineInOrder(timeline, asked) => OutputAfterItsPrompt
  <1> SUFFICES ASSUME LineInOrder(timeline, asked) PROVE OutputAfterItsPrompt
    OBVIOUS
  <1>1. \A i, j \in DOMAIN timeline :
          timeline[i] = UserMessage(timeline[i].turn, {timeline[i].turn}) /\ timeline[j].type = "item" =>
             (timeline[i].turn \in timeline[j].asked <=> i < j)
    <2> SUFFICES ASSUME NEW i \in DOMAIN timeline, NEW j \in DOMAIN timeline, IsItem(timeline[j]),
                        timeline[i] = UserMessage(timeline[i].turn, {timeline[i].turn})
                 PROVE  timeline[i].turn \in timeline[j].asked <=> i < j
      BY DEF IsItem
    <2>1. timeline[i] \in Entry /\ timeline[i].asked = {timeline[i].turn}
      BY EntryTypes DEF LineInOrder
    <2>2. timeline[i].turn \in Prompts
      BY <2>1 DEF Entry
    <2> QED
      BY <2>2 DEF LineInOrder
  <1> QED
    BY <1>1 DEF LineInOrder, OutputAfterItsPrompt, IsItem

LEMMA LineAside ==
    ASSUME LineInv, UNCHANGED <<timeline, asked, steering>>, Answers(timeline, asked, pc', result'),
           Ahead' # <<>> /\ IsPending(agent) =>
               IsPending(agent') /\ agent'.run.token = agent.run.token,
           \A i \in DOMAIN Ahead' : IsItem(Ahead'[i]) =>
               Output(Ahead'[i]) \/ \E j \in DOMAIN Ahead : Ahead'[i] = Ahead[j]
    PROVE  LineInv'
  <1>1. LineInOrder(timeline', asked') /\ Answers(timeline', asked', pc', result') /\ FirstAsked'
    BY DEF LineInv, FirstAsked
  <1>2. ASSUME NEW i \in DOMAIN Ahead', IsItem(Ahead'[i])
        PROVE  Output(Ahead[i])'
    <2>1. Output(Ahead'[i])
      BY <1>2 DEF LineInv
    <2>2. Ahead' # <<>>
      BY <1>2
    <2> QED
      BY <2>1, <2>2 DEF Output
  <1> QED
    BY <1>1, <1>2 DEF LineInv

\* One operation moves on, and nothing is recorded.
LEMMA AnswersMove ==
    ASSUME Answers(timeline, asked, pc, result), pc \in [Ops -> Steps], result \in [Ops -> Results],
           NEW o \in Ops, NEW l, Goto(o, l), l # "streaming",
           l \in Unasked => pc[o] \in Unasked,
           \A x \in Ops \ {o} : result'[x] = result[x],
           pc[o] \in HasSteered => result[o] # "accepted" \/ (l \in HasSteered /\ result' = result)
    PROVE  Answers(timeline, asked, pc', result')
  <1>1. /\ pc'[o] = l /\ \A x \in Ops \ {o} : pc'[x] = pc[x]
        /\ Prompts \subseteq Ops
    BY DEF Goto, Ops
  <1>2. ASSUME NEW p \in Prompts, Steered(p, timeline)
        PROVE  p \in asked /\ result'[p] = "accepted" /\ pc'[p] \in HasSteered
    <2>1. p \in asked /\ result[p] = "accepted" /\ pc[p] \in HasSteered
      BY <1>2 DEF Answers
    <2> QED
      BY <1>1, <2>1
  <1>3. \A p \in Prompts : pc'[p] \in Unasked => pc[p] \in Unasked
    BY <1>1
  <1>4. \A p \in Prompts : pc'[p] = "streaming" => pc[p] = "streaming"
    BY <1>1
  <1> QED
    BY <1>2, <1>3, <1>4 DEF Answers

\* What such a step does to the events on their way.
KeepsRun(s, n) == IsPending(n) => IsPending(s) /\ n.run.token = s.run.token

LEMMA LineStep ==
    ASSUME TypedInv, OpenInv, LineInv, queue = <<>>,
           UNCHANGED <<timeline, asked, steering, queue, barrier>>,
           staged' = <<>> \/ (staged' = staged /\ KeepsRun(agent, agent')),
           NEW o \in Ops, NEW l, Goto(o, l), l # "streaming",
           l \in Unasked => pc[o] \in Unasked,
           \A x \in Ops \ {o} : result'[x] = result[x],
           pc[o] \in HasSteered => result[o] # "accepted" \/ (l \in HasSteered /\ result' = result)
    PROVE  LineInv'
  <1>1. pc \in [Ops -> Steps] /\ result \in [Ops -> Results]
    BY DEF TypedInv, IInv, Consistent, Typed
  <1>2. Answers(timeline, asked, pc', result')
    BY <1>1, AnswersMove DEF LineInv
  <1>3. steering # None => ~ IsPending(agent)
    BY DEF OpenInv, SteerHolds, ActiveHasRun, TypedInv, Typed, SteerSteps
  <1>4. Ahead' = <<>> \/ (Ahead' = Ahead /\ (IsPending(agent) =>
           IsPending(agent') /\ agent'.run.token = agent.run.token))
    BY <1>3 DEF Ahead, KeepsRun
  <1> QED
    BY <1>2, <1>4, LineAside

LEMMA StreamAgentKeeps ==
    ASSUME NEW p, NEW s, NEW refused, s = agent,
           refused.run = agent.run, StreamAgent(s, p, refused)
    PROVE  /\ staged' = <<>> \/ (staged' = staged /\ KeepsRun(agent, agent'))
           /\ Goto(p, "failed") \/ Goto(p, "starting")
  BY DEF StreamAgent, KeepsRun, IsPending

LEMMA LineContinuation ==
    ASSUME TypedInv, OpenInv, LineInv, Continuation
    PROVE  LineInv'
  <1>1. /\ agent \in Agent /\ Prompts \subseteq Ops /\ micro # <<>>
        /\ UNCHANGED <<timeline, asked, steering, queue, barrier>>
        /\ result \in [Ops -> Results] /\ pc \in [Ops -> Steps]
    BY DEF TypedInv, IInv, Typed, Consistent, Sound, Ops, Continuation, CancelStarts, CancelResumes,
       SteerStarts, SteerResumes, Continues, providerVars
  <1>2. queue = <<>>
    BY <1>1 DEF OpenInv, QueueWaits
  <1>3. Unasked = {"idle", "steerQueued", "admitting"} /\ HasSteered = {"draining", "steerReturned", "done"}
    BY DEF Unasked, HasSteered
  <1>4. ASSUME NEW o \in Ops, CancelStarts(o)
        PROVE  LineInv'
    <2>1. /\ pc[o] = "cancelQueued" /\ staged' = staged
          /\ Goto(o, "returned") \/ Goto(o, "interrupting")
          /\ \A x \in Ops \ {o} : result'[x] = result[x]
      BY <1>1, <1>4 DEF CancelStarts, CancelReturns
    <2>2. KeepsRun(agent, agent')
      <3>1. agent' = agent \/ agent' = TrackAutonomousRun(agent, CancelToken(o), None)
        BY <1>4 DEF CancelStarts, CancelReturns
      <3> QED
        BY <1>1, <3>1 DEF TrackAutonomousRun, AutonomousRun, KeepsRun, IsPending, Agent
    <2> QED
      BY <1>1, <1>2, <1>3, <2>1, <2>2, LineStep
  <1>5. ASSUME NEW o \in Ops, CancelResumes(o)
        PROVE  LineInv'
    <2> DEFINE givenUp == [agent EXCEPT !.replacing = FALSE]
    <2>1. pc[o] = "returned" /\ result' = result /\ givenUp.run = agent.run
      BY <1>1, <1>5 DEF CancelResumes, Agent
    <2>2. /\ staged' = <<>> \/ (staged' = staged /\ KeepsRun(agent, agent'))
          /\ Goto(o, "done") \/ Goto(o, "failed") \/ Goto(o, "starting")
      <3>1. CASE agent' \in {agent, givenUp} /\ staged' = staged /\ (Goto(o, "done") \/ Goto(o, "failed"))
        BY <2>1, <3>1 DEF KeepsRun, IsPending
      <3>2. CASE StreamAgent(agent, o, givenUp)
        BY <2>1, <3>2, StreamAgentKeeps
      <3> QED
        BY <1>5, <3>1, <3>2 DEF CancelResumes
    <2> QED
      BY <1>1, <1>2, <1>3, <2>1, <2>2, LineStep
  <1>6. ASSUME NEW p \in Prompts, SteerStarts(p)
        PROVE  LineInv'
    <2>1. /\ pc[p] = "steerQueued" /\ result' = result /\ Goto(p, "admitting")
          /\ staged' = staged /\ agent' = agent
      BY <1>6 DEF SteerStarts
    <2> QED
      BY <1>1, <1>2, <1>3, <2>1, LineStep DEF KeepsRun
  <1>7. ASSUME NEW p \in Prompts, SteerResumes(p)
        PROVE  LineInv'
    <2>1. pc[p] = "steerReturned" /\ result' = result
      BY <1>7 DEF SteerResumes
    <2>2. CASE agent' = agent /\ staged' = staged /\ Goto(p, IF result[p] = "accepted" THEN "done" ELSE "failed")
      BY <1>1, <1>2, <1>3, <2>1, <2>2, LineStep DEF KeepsRun
    <2>3. CASE result[p] = "unavailable" /\ Replace(p)
      <3>1. agent'.run = agent.run /\ staged' = staged /\ Goto(p, "cancelQueued")
        BY <1>1, <2>3 DEF Replace, Agent
      <3> QED
        BY <1>1, <1>2, <1>3, <2>1, <2>3, <3>1, LineStep DEF KeepsRun, IsPending
    <2>4. CASE result[p] = "unavailable" /\ StreamAgent(agent, p, agent)
      <3>1. /\ staged' = <<>> \/ (staged' = staged /\ KeepsRun(agent, agent'))
            /\ Goto(p, "failed") \/ Goto(p, "starting")
        BY <2>4, StreamAgentKeeps
      <3> QED
        BY <1>1, <1>2, <1>3, <2>1, <2>4, <3>1, LineStep
    <2> QED
      BY <1>7, <2>2, <2>3, <2>4 DEF SteerResumes
  <1> QED
    BY <1>4, <1>5, <1>6, <1>7 DEF Continuation

\* The tasks that record nothing and ask nobody.
LEMMA LineTask ==
    ASSUME TypedInv, OpenInv, LineInv, Idle,
           NEW o \in Ops,
           \/ o \in Prompts /\ \E mode : Send(o, mode)
           \/ o \in Prompts /\ (StreamEnds(o) \/ SteerDrained(o) \/ \E stale : StartRejects(o, stale))
           \/ o \in Prompts /\ StartResolves(o) /\ RunToken(o) \in agent.settled
           \/ o \in Prompts /\ SteerAdmitted(o) /\ agent.active # expected[o]
           \/ o \in Stops /\ Stop(o)
           \/ CancelStep(o)
    PROVE  LineInv'
  <1>1. /\ agent \in Agent /\ Prompts \subseteq Ops /\ queue = <<>>
        /\ result \in [Ops -> Results] /\ pc \in [Ops -> Steps] /\ Sound(agent)
    BY DEF TypedInv, IInv, Typed, Consistent, Sound, Ops, Idle
  <1>3. Unasked = {"idle", "steerQueued", "admitting"} /\ HasSteered = {"draining", "steerReturned", "done"}
    BY DEF Unasked, HasSteered
  <1>4. CASE o \in Prompts /\ \E mode : Send(o, mode)
    <2>1. PICK mode : Send(o, mode)
      BY <1>4
    <2>2. /\ pc[o] = "idle" /\ result' = result
          /\ UNCHANGED <<timeline, asked, steering, queue, barrier>>
      BY <2>1 DEF Send, providerVars
    <2>3. /\ staged' = <<>> \/ (staged' = staged /\ KeepsRun(agent, agent'))
          /\ \E l \in {"failed", "starting", "steerQueued", "cancelQueued"} : Goto(o, l)
      <3>1. CASE StreamAgent(agent, o, agent)
        BY <3>1, StreamAgentKeeps
      <3>2. CASE Goto(o, "steerQueued") /\ UNCHANGED <<agent, staged>>
        BY <3>2 DEF KeepsRun
      <3>3. CASE Replace(o)
        BY <1>1, <3>3 DEF Replace, Agent, KeepsRun, IsPending
      <3> QED
        BY <2>1, <3>1, <3>2, <3>3 DEF Send
    <2> QED
      BY <1>1, <1>3, <2>2, <2>3, LineStep
  <1>5. CASE o \in Prompts /\ StreamEnds(o)
    <2>1. /\ pc[o] = "streaming" /\ result' = result /\ Goto(o, "done") /\ staged' = staged
          /\ UNCHANGED <<timeline, asked, steering, queue, barrier>>
      BY <1>5 DEF StreamEnds, providerVars
    <2>2. KeepsRun(agent, agent')
      BY <1>1, <1>5 DEF StreamEnds, SettleForegroundRun, ClearRun, NoRun, KeepsRun, IsPending, Agent
    <2> QED
      BY <1>1, <1>3, <2>1, <2>2, LineStep
  <1>6. CASE o \in Prompts /\ SteerDrained(o)
    <2>1. /\ pc[o] = "draining" /\ result' = result /\ Goto(o, "steerReturned")
          /\ UNCHANGED <<agent, staged, timeline, asked, steering, queue, barrier>>
      BY <1>6 DEF SteerDrained, providerVars
    <2> QED
      BY <1>1, <1>3, <2>1, LineStep DEF KeepsRun
  <1>7. CASE o \in Prompts /\ \E stale : StartRejects(o, stale)
    <2>1. PICK stale : StartRejects(o, stale)
      BY <1>7
    <2>2. /\ pc[o] = "starting" /\ result' = result /\ Goto(o, "failed")
          /\ UNCHANGED <<timeline, asked, steering, queue, barrier>>
          /\ staged' = <<>> \/ (staged' = staged /\ agent' = agent)
      BY <2>1 DEF StartRejects
    <2> QED
      BY <1>1, <1>3, <2>2, LineStep DEF KeepsRun
  <1>8. CASE o \in Prompts /\ StartResolves(o) /\ RunToken(o) \in agent.settled
    <2>1. /\ pc[o] = "starting" /\ result' = result /\ Goto(o, "failed")
          /\ UNCHANGED <<agent, staged, timeline, asked, steering, queue, barrier>>
      BY <1>8 DEF StartResolves, providerVars
    <2> QED
      BY <1>1, <1>3, <2>1, LineStep DEF KeepsRun
  <1>9. CASE o \in Prompts /\ SteerAdmitted(o) /\ agent.active # expected[o]
    <2>1. /\ pc[o] = "admitting" /\ Goto(o, "steerReturned")
          /\ \A x \in Ops \ {o} : result'[x] = result[x]
          /\ UNCHANGED <<agent, staged, timeline, asked, steering, queue, barrier>>
      BY <1>1, <1>9 DEF SteerAdmitted
    <2> QED
      BY <1>1, <1>3, <2>1, LineStep DEF KeepsRun
  <1>10. CASE o \in Stops /\ Stop(o)
    <2>1. /\ pc[o] = "idle" /\ result' = result /\ Goto(o, "cancelQueued")
          /\ UNCHANGED <<agent, staged, timeline, asked, steering, queue, barrier>>
      BY <1>10 DEF Stop, providerVars
    <2> QED
      BY <1>1, <1>3, <2>1, LineStep DEF KeepsRun
  <1>11. CASE CancelStep(o)
    <2>1. /\ pc[o] \in {"interrupting", "settling"} /\ staged' = staged
          /\ Goto(o, "settling") \/ Goto(o, "returned")
          /\ \A x \in Ops \ {o} : result'[x] = result[x]
          /\ UNCHANGED <<timeline, asked, steering, queue, barrier>>
          /\ agent' = agent \/ agent' = Forced(o)
      BY <1>1, <1>11 DEF CancelStep, InterruptAcknowledged, InterruptRefused, CancelCompletes,
         CancelTimesOut, CancelReturns, managerVars, providerVars
    <2>2. KeepsRun(agent, agent')
      <3>1. CASE agent' = agent
        BY <3>1 DEF KeepsRun
      <3>2. CASE agent' = Forced(o)
        <4>1. agent'.run \in {agent.run, NoRun}
          BY <1>1, <2>1, <3>2, ForcedActive DEF OpenInv
        <4> QED
          BY <4>1 DEF KeepsRun, IsPending, NoRun
      <3> QED
        BY <2>1, <3>1, <3>2
    <2> QED
      BY <1>1, <1>3, <2>1, <2>2, LineStep
  <1> QED
    BY <1>4, <1>5, <1>6, <1>7, <1>8, <1>9, <1>10, <1>11

\* The timeline grows, and whatever is still on its way fits behind it.
LEMMA LineGrown ==
    ASSUME LineInv, asked' = asked, steering' = None, ~ IsPending(agent)',
           LineInOrder(timeline', asked), Answers(timeline', asked, pc', result'),
           \A q \in Prompts : Prompted(q, timeline) => Prompted(q, timeline'),
           \A q \in Prompts : Steered(q, timeline') => Steered(q, timeline) \/ steering = q,
           \A q \in Prompts : IsPending(agent) /\ agent.run.token = RunToken(q) => Prompted(q, timeline'),
           \A i \in DOMAIN Ahead' : IsItem(Ahead'[i]) => \E j \in DOMAIN Ahead : Ahead'[i] = Ahead[j]
    PROVE  LineInv'
  <1>1. ASSUME NEW i \in DOMAIN Ahead', IsItem(Ahead'[i])
        PROVE  Output(Ahead[i])'
    <2>1. Output(Ahead'[i])
      BY <1>1 DEF LineInv
    <2>2. None \notin Prompts
      BY NoneIsNoPrompt
    <2> QED
      BY <2>1, <2>2 DEF Output
  <1>2. FirstAsked'
    BY DEF FirstAsked
  <1> QED
    BY <1>1, <1>2 DEF LineInv

LEMMA RecordedIsMessage ==
    ASSUME NEW asks, LineInOrder(timeline, asks), NEW p \in Prompts, Recorded(p)
    PROVE  Prompted(p, timeline) \/ Steered(p, timeline)
  <1>1. PICK i \in DOMAIN timeline : timeline[i].type = "user_message" /\ timeline[i].turn = p
    BY DEF Recorded
  <1>2. timeline[i] \in {UserMessage(p, {}), UserMessage(p, {p})}
    BY <1>1 DEF LineInOrder, IsItem
  <1> QED
    BY <1>2 DEF Prompted, Steered

LEMMA LineStarts ==
    ASSUME TypedInv, OpenInv, LineInv, Idle, NEW p \in Prompts, StartResolves(p),
           RunToken(p) \notin agent.settled
    PROVE  LineInv'
  <1>1. /\ IInv /\ LaneInv /\ Typed /\ p \in Ops /\ pc[p] = "starting" /\ agent \in Agent
        /\ ActiveHasRun(agent) /\ SteerHolds /\ queue = <<>> /\ Prompts \subseteq Ops
        /\ pc \in [Ops -> Steps] /\ UNCHANGED <<steering, asked, result>>
    BY DEF TypedInv, OpenInv, StartResolves, Ops, IInv, Consistent, Sound, providerVars, Idle
  <1>2. agent' = Opened(agent, p) /\ Goto(p, "streaming") /\ RecordSubmittedPrompt(p, {})
    BY DEF StartResolves
  <1>3. IsPending(agent) /\ agent.run.token = RunToken(p)
    BY <1>1 DEF IInv, Consistent
  <1>4. steering = None
    BY <1>1, <1>3, SteerExcludes DEF ActiveHasRun
  <1> DEFINE G == WithoutStart(staged, p)
  <1>5. staged \in Seq(Event) /\ G \in Seq(Event) /\ queue' = queue \o G /\ Ahead = staged
    BY <1>1, <1>3, <1>4, WithoutStartType DEF StartResolves, IInv, Buffered, Ahead
  <1>6. \A i \in DOMAIN G : \E j \in DOMAIN Ahead : G[i] = Ahead[j]
    BY <1>5, WithoutStartEvents
  <1> HIDE DEF G
  <1>7. ~ IsPending(agent)' /\ p # None
    BY <1>1, <1>2, NoneIsNoPrompt DEF Opened, Agent, Run, IsPending
  <1>8. Ahead' = G
    BY <1>1, <1>4, <1>5, <1>7 DEF Ahead
  <1>9. ~ Steered(p, timeline) /\ timeline \in Seq(Entry) /\ LineInOrder(timeline, asked)
    BY <1>1 DEF LineInv, Answers, HasSteered, LineInOrder
  <1>10. /\ LineInOrder(timeline', asked) /\ Prompted(p, timeline')
         /\ \A q \in Prompts : Prompted(q, timeline) => Prompted(q, timeline')
         /\ \A q \in Prompts : Steered(q, timeline') => Steered(q, timeline)
    <2>1. CASE Recorded(p)
      BY <1>2, <1>9, <2>1, RecordedIsMessage DEF RecordSubmittedPrompt
    <2>2. CASE ~ Recorded(p)
      <3> DEFINE e == UserMessage(p, {})
      <3>1. timeline' = Append(timeline, e) /\ e \in Entry
        BY <1>2, <2>2, EntryTypes DEF RecordSubmittedPrompt
      <3>2. LineInOrder(timeline', asked)
        BY <1>9, <3>1, MessageInOrder
      <3>3. \A q \in Prompts : e # UserMessage(q, {q})
        BY EntryTypes
      <3>4. Len(timeline) + 1 \in DOMAIN timeline' /\ timeline'[Len(timeline) + 1] = e
        BY <1>9, <3>1, LineGrows
      <3>5. Prompted(p, timeline')
        BY <3>4 DEF Prompted
      <3> HIDE DEF e
      <3> QED
        BY <1>9, <3>1, <3>2, <3>3, <3>5, LineGrows
    <2> QED
      BY <2>1, <2>2
  <1>11. Answers(timeline', asked, pc', result')
    <2>1. pc'[p] = "streaming" /\ \A q \in Prompts : q # p => pc'[q] = pc[q]
      BY <1>1, <1>2 DEF Goto
    <2>2. "streaming" \notin Unasked
      BY DEF Unasked
    <2> QED
      BY <1>1, <1>9, <1>10, <2>1, <2>2 DEF LineInv, Answers
  <1>12. \A q \in Prompts : IsPending(agent) /\ agent.run.token = RunToken(q) => Prompted(q, timeline')
    BY <1>3, <1>10, TokensDiffer
  <1> QED
    BY <1>1, <1>4, <1>6, <1>7, <1>8, <1>10, <1>11, <1>12, LineGrown

LEMMA LineAdmits ==
    ASSUME TypedInv, OpenInv, LineInv, Idle, NEW p \in Prompts, SteerAdmitted(p),
           agent.active = expected[p]
    PROVE  LineInv'
  <1>1. /\ IInv /\ LaneInv /\ Typed /\ p \in Ops /\ pc[p] = "admitting"
        /\ ActiveHasRun(agent) /\ SteerHolds /\ queue = <<>> /\ Prompts \subseteq Ops
        /\ pc \in [Ops -> Steps]
        /\ UNCHANGED <<agent, timeline, result>>
    BY DEF TypedInv, OpenInv, SteerAdmitted, Ops, IInv, Consistent, Idle
  <1>2. /\ steering' = p /\ barrier' = <<>> /\ asked' = asked \cup {p}
        /\ pc'[p] = "steering" /\ \A q \in Prompts : q # p => pc'[q] = pc[q]
    BY <1>1 DEF SteerAdmitted, Goto
  <1>3. p # None
    BY NoneIsNoPrompt
  <1>4. Ahead' = <<>>
    BY <1>2, <1>3 DEF Ahead
  <1>5. p \notin asked /\ ~ Steered(p, timeline)
    BY <1>1 DEF LineInv, Answers, Unasked, HasSteered
  <1>6. LineInOrder(timeline, asked')
    BY <1>2 DEF LineInv, LineInOrder
  <1>7. Answers(timeline, asked', pc', result)
    BY <1>2, <1>5 DEF LineInv, Answers, Unasked
  <1>8. FirstAsked'
    BY <1>1, <1>2, <1>5 DEF FirstAsked, LineInv, LineInOrder
  <1> QED
    BY <1>1, <1>4, <1>6, <1>7, <1>8 DEF LineInv

LEMMA LineAnswers ==
    ASSUME TypedInv, OpenInv, LineInv, Idle, NEW p \in Prompts, NEW answer, SteerAnswered(p, answer)
    PROVE  LineInv'
  <1>1. /\ IInv /\ LaneInv /\ Typed /\ p \in Ops /\ pc[p] = "steering"
        /\ ActiveHasRun(agent) /\ SteerHolds /\ queue = <<>> /\ Prompts \subseteq Ops
        /\ pc \in [Ops -> Steps] /\ result \in [Ops -> Results]
        /\ UNCHANGED <<agent, asked>>
    BY DEF TypedInv, OpenInv, SteerAnswered, Ops, IInv, Consistent, Typed, Idle, providerVars
  <1>2. steering = p /\ p # None /\ agent.active # None
    BY <1>1, NoneIsNoPrompt, SteerExcludes DEF SteerHolds
  <1>3. ~ IsPending(agent)
    BY <1>1, <1>2 DEF ActiveHasRun
  <1>4. /\ steering' = None /\ queue' = queue \o barrier /\ barrier \in Seq(Event)
        /\ pc'[p] = "draining" /\ result'[p] = answer
        /\ \A q \in Prompts : q # p => pc'[q] = pc[q] /\ result'[q] = result[q]
    BY <1>1, <1>3 DEF SteerAnswered, Goto, IInv, Buffered
  <1>5. Ahead' = Ahead /\ ~ IsPending(agent)'
    BY <1>1, <1>2, <1>3, <1>4 DEF Ahead
  <1>6. /\ ~ Steered(p, timeline) /\ timeline \in Seq(Entry) /\ LineInOrder(timeline, asked)
        /\ p \in asked /\ \A i \in DOMAIN timeline : IsItem(timeline[i]) => p \notin timeline[i].asked
    BY <1>1, <1>2 DEF LineInv, Answers, HasSteered, LineInOrder, FirstAsked
  <1>7. /\ LineInOrder(timeline', asked)
        /\ \A q \in Prompts : Prompted(q, timeline) => Prompted(q, timeline')
        /\ \A q \in Prompts : Steered(q, timeline') =>
              Steered(q, timeline) \/ (q = p /\ answer = "accepted")
    <2>1. CASE timeline' = timeline
      BY <1>6, <2>1
    <2>2. CASE timeline' # timeline
      <3> DEFINE e == UserMessage(p, {p})
      <3>1. timeline' = Append(timeline, e) /\ e \in Entry /\ answer = "accepted"
        BY <2>2, EntryTypes DEF SteerAnswered, RecordSubmittedPrompt
      <3>2. LineInOrder(timeline', asked)
        BY <1>6, <3>1, MessageInOrder
      <3>3. \A q \in Prompts : e = UserMessage(q, {q}) => q = p
        BY EntryTypes
      <3> HIDE DEF e
      <3>4. /\ \A q : Prompted(q, timeline) => Prompted(q, timeline')
            /\ \A q : Steered(q, timeline') => Steered(q, timeline) \/ e = UserMessage(q, {q})
        BY <1>6, <3>1, LineGrows
      <3> QED
        BY <3>1, <3>2, <3>3, <3>4
    <2> QED
      BY <2>1, <2>2
  <1>8. Answers(timeline', asked, pc', result')
    <2>1. "draining" \in HasSteered /\ "draining" \notin Unasked
      BY DEF HasSteered, Unasked
    <2> QED
      BY <1>4, <1>6, <1>7, <2>1 DEF LineInv, Answers
  <1> QED
    BY <1>1, <1>2, <1>3, <1>4, <1>5, <1>7, <1>8, LineGrown

LEMMA LineProvider ==
    ASSUME TypedInv, ProviderInv, LineInv, ProviderStep
    PROVE  LineInv'
  <1>1. /\ IInv /\ Buffered /\ UNCHANGED <<timeline, asked, steering, pc, result, agent>>
        /\ Ahead \in Seq(Event) /\ Prompts \subseteq Ops
    BY AheadType DEF TypedInv, IInv, ProviderStep, ProviderAccepts, ProviderBegins, ProviderOutputs,
       ProviderEnds, Emit, managerVars, opVars, Ops
  <1>2. Answers(timeline, asked, pc', result')
    BY <1>1 DEF LineInv
  <1>3. ASSUME NEW e, Emit(<<e>>), IsItem(e) => Output(e)
        PROVE  LineInv'
    <2>1. Ahead' = Ahead \o <<e>>
      BY <1>1, <1>3, EmitAhead
    <2>2. \A i \in DOMAIN Ahead' : Ahead'[i] = e \/ \E j \in DOMAIN Ahead : Ahead'[i] = Ahead[j]
      BY <1>1, <2>1
    <2> QED
      BY <1>1, <1>2, <1>3, <2>2, LineAside
  <1>4. CASE \E p \in Prompts : ProviderAccepts(p)
    <2>1. Ahead' = Ahead
      BY <1>1, <1>4 DEF ProviderAccepts, managerVars, Ahead
    <2> QED
      BY <1>1, <1>2, <2>1, LineAside
  <1>5. ASSUME NEW t \in Turns, ProviderBegins(t) \/ \E type \in Terminals : ProviderEnds(t, type)
        PROVE  LineInv'
    <2>1. PICK type \in Terminals \cup {"turn_started"} : Emit(<<TurnEvent(type, t)>>)
      BY <1>5 DEF ProviderBegins, ProviderEnds
    <2>2. ~ IsItem(TurnEvent(type, t))
      BY <2>1 DEF TurnEvent, IsItem, Terminals
    <2> QED
      BY <1>3, <2>1, <2>2
  <1>6. ASSUME NEW t \in Turns, ProviderOutputs(t)
        PROVE  LineInv'
    <2> DEFINE e == [type |-> "item", turn |-> t, asked |-> asked]
    <2>1. Emit(<<e>>) /\ turn[t] = "running"
      BY <1>6 DEF ProviderOutputs
    <2>2. t \in Prompts =>
             Prompted(t, timeline) \/ (IsPending(agent) /\ agent.run.token = RunToken(t))
      <3> SUFFICES ASSUME t \in Prompts, ~ IsPending(agent) PROVE Prompted(t, timeline)
        BY <2>1, TurnIsTracked DEF IsPending
      <3>1. agent.run.kind = "foreground" /\ agent.run.token = RunToken(t)
        BY <2>1, TurnIsTracked
      <3>2. pc[t] = "streaming"
        BY <1>1, <3>1 DEF IInv, Consistent, IsPending
      <3> QED
        BY <3>2 DEF LineInv, Answers
    <2>3. \A q \in Prompts : Steered(q, timeline) \/ steering = q => q \in asked
      BY NoneIsNoPrompt DEF LineInv, Answers, FirstAsked
    <2>4. Output(e)
      BY <2>2, <2>3 DEF Output
    <2> QED
      BY <1>3, <2>1, <2>4
  <1> QED
    BY <1>4, <1>5, <1>6 DEF ProviderStep

LEMMA LineDispatch ==
    ASSUME TypedInv, OpenInv, LineInv, DispatchNext
    PROVE  LineInv'
  <1>1. /\ Sound(agent) /\ QueueWaits /\ queue # <<>> /\ queue \in Seq(Event)
        /\ UNCHANGED <<steering, asked, pc, result, staged>>
    BY DEF TypedInv, IInv, Consistent, Buffered, OpenInv, DispatchNext, opVars, providerVars
  <1>2. steering = None /\ ~ IsPending(agent) /\ Ahead = queue
    BY <1>1 DEF QueueWaits, Ahead
  <1> DEFINE e == Head(queue)
  <1>3. /\ e \in Event /\ e = Ahead[1] /\ 1 \in DOMAIN Ahead
        /\ \A i \in DOMAIN Tail(queue) : Tail(queue)[i] = queue[i + 1] /\ i + 1 \in DOMAIN queue
    BY <1>1, <1>2
  <1>4. ~ IsPending(agent)'
    <2>1. Advances(agent, agent')
      BY <1>1, <1>3, HandleAdvances DEF DispatchNext
    <2> QED
      BY <1>2, <2>1 DEF Advances, IsPending, NoRun
  <1>5. Ahead' = Tail(queue)
    BY <1>1, <1>2, <1>4 DEF Ahead, DispatchNext
  <1>6. \A i \in DOMAIN Ahead' : \E j \in DOMAIN Ahead : Ahead'[i] = Ahead[j]
    BY <1>2, <1>3, <1>5
  <1> HIDE DEF e
  <1>7. timeline \in Seq(Entry) /\ LineInOrder(timeline, asked)
    BY DEF LineInv, LineInOrder
  <1>8. /\ LineInOrder(timeline', asked)
        /\ \A q \in Prompts : Prompted(q, timeline) => Prompted(q, timeline')
        /\ \A q \in Prompts : Steered(q, timeline') => Steered(q, timeline)
    <2>1. CASE ~ IsItem(e)
      BY <1>7, <2>1 DEF DispatchNext, IsItem, e
    <2>2. CASE IsItem(e)
      <3>1. timeline' = Append(timeline, e) /\ e \in Entry
        BY <1>3, <2>2, EntryTypes DEF DispatchNext, IsItem, e
      <3>2. Output(e)
        BY <1>3, <2>2 DEF LineInv
      <3>3. /\ e.asked \subseteq asked
            /\ e.turn \in Prompts => Prompted(e.turn, timeline)
            /\ \A q \in Prompts : Steered(q, timeline) => q \in e.asked
        BY <1>2, <3>2 DEF Output
      <3>4. LineInOrder(timeline', asked)
        BY <1>7, <2>2, <3>1, <3>3, ItemInOrder
      <3>5. \A q : e # UserMessage(q, {q})
        BY <2>2, EntryTypes
      <3>6. /\ \A q : Prompted(q, timeline) => Prompted(q, timeline')
            /\ \A q : Steered(q, timeline') => Steered(q, timeline) \/ e = UserMessage(q, {q})
        BY <1>7, <3>1, LineGrows
      <3> QED
        BY <3>4, <3>5, <3>6
    <2> QED
      BY <2>1, <2>2
  <1>9. Answers(timeline', asked, pc', result')
    BY <1>1, <1>8 DEF LineInv, Answers
  <1> QED
    BY <1>1, <1>2, <1>4, <1>6, <1>8, <1>9, LineGrown

LEMMA InitLine == Init => LineInv
  <1> SUFFICES ASSUME Init PROVE LineInv
    OBVIOUS
  <1>1. timeline = <<>> /\ asked = {} /\ steering = None /\ \A p \in Prompts : pc[p] = "idle"
    BY DEF Init, Ops
  <1>2. Ahead = <<>>
    BY DEF Init, Ahead, IsPending, NoRun
  <1> QED
    BY <1>1, <1>2 DEF LineInv, LineInOrder, Answers, FirstAsked, Steered

LEMMA NextLine == FullInv /\ OpenInv /\ LineInv /\ [Next]_vars => LineInv'
  <1> SUFFICES ASSUME FullInv, OpenInv, LineInv, [Next]_vars PROVE LineInv'
    OBVIOUS
  <1>1. TypedInv /\ ProviderInv /\ Prompts \subseteq Ops /\ Stops \subseteq Ops
    BY DEF FullInv, Ops
  <1>2. CASE UNCHANGED vars
    <2>1. UNCHANGED <<agent, staged, queue, barrier, steering, pc, result, timeline, asked>>
      BY <1>2 DEF vars, managerVars, opVars, providerVars
    <2>2. Ahead' = Ahead /\ Answers(timeline, asked, pc', result')
      BY <2>1 DEF Ahead, LineInv
    <2> QED
      BY <2>1, <2>2, LineAside
  <1>3. CASE Idle /\ Task
    <2>1. ASSUME NEW p \in Prompts,
                 (\E mode \in Modes : Send(p, mode)) \/ StartResolves(p) \/ StreamEnds(p) \/ SteerStep(p)
                    \/ \E stale \in BOOLEAN : StartRejects(p, stale)
          PROVE  LineInv'
      <3>1. CASE StartResolves(p)
        BY <1>1, <1>3, <3>1, LineTask, LineStarts
      <3>2. CASE SteerStep(p)
        <4>1. CASE SteerAdmitted(p)
          BY <1>1, <1>3, <4>1, LineTask, LineAdmits
        <4>2. CASE \E answer : SteerAnswered(p, answer)
          BY <1>1, <1>3, <4>2, LineAnswers
        <4> QED
          BY <1>1, <1>3, <3>2, <4>1, <4>2, LineTask DEF SteerStep
      <3> QED
        BY <1>1, <1>3, <2>1, <3>1, <3>2, LineTask
    <2>2. ASSUME NEW o \in Stops, Stop(o) PROVE LineInv'
      BY <1>1, <1>3, <2>2, LineTask
    <2>3. ASSUME NEW o \in Ops, CancelStep(o) PROVE LineInv'
      BY <1>1, <1>3, <2>3, LineTask
    <2> QED
      BY <1>1, <1>3, <2>1, <2>2, <2>3, LineProvider DEF Task
  <1> QED
    BY <1>1, <1>2, <1>3, LineContinuation, LineDispatch DEF Next

\* However early the provider answers and whatever is held back, a prompt comes
\* before the output of its turn, and a prompt that steered a turn between what
\* was emitted before it was asked and what was emitted since.
THEOREM OutputFollowsPrompt == Spec => []OutputAfterItsPrompt
  <1>1. Spec => [](FullInv /\ OpenInv /\ LineInv)
    BY InitFull, InitOpen, InitLine, NextFull, NextOpen, NextLine, PTL DEF Spec
  <1>2. LineInv => OutputAfterItsPrompt
    BY LineOrders DEF LineInv
  <1> QED
    BY <1>1, <1>2, PTL
=============================================================================
