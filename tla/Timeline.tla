------------------------------- MODULE Timeline -------------------------------
(***************************************************************************)
(* One chat between the daemon, which numbers and projects its rows, and   *)
(* an app that has it open: live rows, pages, subscriptions, the catch-up  *)
(* that makes them meet (viewed-timeline-sync.ts), the transcript painted  *)
(* from the device, rewinds, reloads, lost connections and failed fetches. *)
(* TimelinePages has the pages, TimelineStream what they do to the screen. *)
(*                                                                         *)
(* The connection delivers in order.  The daemon answers a subscription    *)
(* when it arrives and a fetch some time later, after loading the agent:   *)
(* the fetches of one chat wait for the same things, so in their order.    *)
(***************************************************************************)
EXTENDS TimelinePages, TimelineStream

CONSTANTS
  MaxRows,      \* bound: rows of an epoch
  MaxTotal,     \* bound: rows of all epochs when one is appended
  MaxEpoch,     \* bound: epochs
  PageSize,     \* TIMELINE_FETCH_PAGE_SIZE
  MaxFaults,    \* bound: disturbances, of all kinds together
  Disturbances, \* the kinds of them: a subset of Kinds
  Lapses        \* what of AllLapses happens

Kinds == {"rewind", "reload", "fail", "link", "restart", "foreground", "older",
          "membership"}

\* Situations that cost the app rows: the chats are subscribed anew while rows
\* are on their way or appended; rows are missed by an app that has applied an
\* empty history; the fetch that follows a notice fails; a notice comes before
\* the first history; the user retries the catch-up of a painted chat.
AllLapses == {"resubscribe", "blank", "refetch", "early", "retry"}

ASSUME BoundsAssumption ==
  /\ MaxRows \in Nat /\ MaxTotal \in Nat /\ MaxEpoch \in Nat \ {0} /\ MaxFaults \in Nat
  /\ PageSize \in Nat \ {0} /\ Disturbances \subseteq Kinds
  /\ Lapses \subseteq AllLapses

VARIABLES
  epoch, rows,  \* daemon: the epoch of the timeline; the rows of every epoch so far
  subscribed,   \* daemon: the app's present subscription is in place, for this chat
  up,           \* there is a connection
  inbox,        \* what the app sent: fetches and its latest subscription
  wire,         \* what the daemon sent: rows, notices, pages, acknowledgements
  desired,      \* app: the chat is open
  acked,        \* app: it is among the acknowledged ids
  subRetry,     \* app: a subscription failed and will be tried again
  sync,         \* app: the catch-up of the chat
  forced,       \* app: the next tail replaces what is held
  noticed,      \* app: the fetch of a replacement notice is in flight
  init,         \* app: direction of the first fetch of an unsynced chat
  queue,        \* app: live rows received and not yet applied
  chat,         \* app: what it holds and shows
  cached,       \* app: range of the painted transcript, until synced
  stored,       \* device: the persisted transcript
  faults        \* disturbances left (bound)

daemonVars == <<epoch, rows, subscribed>>
linkVars   == <<up, inbox, wire>>
appVars    == <<desired, acked, subRetry, sync, forced, noticed, init, queue, chat, cached>>
vars       == <<daemonVars, linkVars, appVars, stored, faults>>

(***************************************************************************)
(* Requests                                                                *)
(***************************************************************************)
NoReq == [dir |-> "none", epoch |-> 0, seq |-> 0]
TailReq == [dir |-> "tail", epoch |-> 0, seq |-> 0]
AfterReq(e, s)  == [dir |-> "after", epoch |-> e, seq |-> s]
BeforeReq(e, s) == [dir |-> "before", epoch |-> e, seq |-> s]

\* The page the store returns: a cursor of another epoch gets the latest tail.
Fetch(req) ==
  LET reset == req.dir # "tail" /\ req.epoch # epoch
      page  == IF reset \/ req.dir = "tail" THEN TailPage(rows[epoch], PageSize)
               ELSE IF req.dir = "after" THEN AfterPage(rows[epoch], req.seq, PageSize)
               ELSE BeforePage(rows[epoch], req.seq, PageSize)
  IN  [dir |-> req.dir, epoch |-> epoch, reset |-> reset, max |-> Len(rows[epoch]),
       entries |-> page.entries, start |-> page.start, end |-> page.end,
       older |-> page.older, newer |-> page.newer]

InFlight(ms, req) == \E i \in DOMAIN ms : ms[i].kind \in {"fetch", "page", "fail"} /\ ms[i].req = req

\* A request in flight is shared by whoever asks for the same; fresh says that
\* one of them asked to initialize an unsynced chat.
Asked(ms, req, fresh) ==
  [i \in DOMAIN ms |->
     IF ms[i].kind \in {"fetch", "page", "fail"} /\ ms[i].req = req
     THEN [ms[i] EXCEPT !.fresh = @ \/ fresh] ELSE ms[i]]

Sent(box, req, fresh) == Append(box, [kind |-> "fetch", req |-> req, fresh |-> fresh])

(***************************************************************************)
(* The catch-up of the chat: its status, the request it was started with,  *)
(* the one it awaits, whether a first page that is not the last one gives  *)
(* way to the latest tail, whether it awaits that tail, the request that   *)
(* is owed but cannot run, and whether the device has been read.           *)
(***************************************************************************)
NoSync == [status |-> "none", req |-> NoReq, await |-> NoReq, fallback |-> FALSE,
           latest |-> FALSE, pending |-> NoReq, loaded |-> FALSE]

\* Mutant: a catch-up that is complete stays so.
CancelledIfRunning(s) ==
  IF s.status = "complete" THEN s ELSE [NoSync EXCEPT !.loaded = s.loaded]

Cancelled(s) == [NoSync EXCEPT !.loaded = s.loaded]

\* Mutant: a synced chat is resumed from its range even if it has none.
ResumeBlind(c, ca) ==
  IF ca # NoRange THEN AfterReq(ca.epoch, ca.end)
  ELSE IF c.synced THEN AfterReq(c.range.epoch, c.range.end)
  ELSE TailReq

\* planTimelineResumeFetch of the painted range, or the synced one.
Resume(c, ca) ==
  IF ca # NoRange THEN AfterReq(ca.epoch, ca.end)
  ELSE IF c.synced /\ c.range # NoRange THEN AfterReq(c.range.epoch, c.range.end)
  ELSE TailReq

\* decideCatchUp
Decision(s, req, supersede) ==
  IF supersede
  THEN IF s.status = "running" /\ s.req = req THEN "keep"
       ELSE IF s.status = "running" /\ s.req.dir = "tail" THEN "park"
       ELSE "replace"
  ELSE IF s.status \in {"running", "complete"} THEN "keep" ELSE "replace"

\* startCatchUp, when the catch-up can run (can) or not: the new state, and
\* the fetch that it starts with.
Started(s, can, resume, req, supersede) ==
  LET next     == IF req = NoReq THEN resume ELSE req
      decision == Decision(s, next, supersede)
      owed     == IF req = NoReq THEN s.pending ELSE req
  IN  CASE ~ can \/ ~ s.loaded  -> [sync |-> [s EXCEPT !.pending = owed], fetch |-> NoReq]
        [] can /\ s.loaded /\ decision = "park" ->
             [sync |-> [s EXCEPT !.pending = next], fetch |-> NoReq]
        [] can /\ s.loaded /\ decision = "keep" -> [sync |-> s, fetch |-> NoReq]
        [] OTHER ->
             [sync |-> [status |-> "running", req |-> next, await |-> next,
                        fallback |-> req = NoReq /\ next.dir = "after",
                        latest |-> FALSE, pending |-> NoReq, loaded |-> TRUE],
              fetch |-> next]

\* startAcknowledgedCatchUps, for the chat.
Owed(s, can, resume) ==
  IF s.status = "none" \/ (s.status = "complete" /\ s.pending # NoReq)
  THEN Started(s, can, resume, s.pending, s.pending # NoReq)
  ELSE [sync |-> s, fetch |-> NoReq]

\* recoverGap
Recovered(s, can, resume, range) ==
  IF desired THEN Started(s, can, resume, AfterReq(range.epoch, range.end), TRUE)
             ELSE [sync |-> s, fetch |-> NoReq]

\* Mutant: one page is all a catch-up fetches.
ContinuedOnce(s, can, resume, p) ==
  Owed([s EXCEPT !.status = "complete", !.req = NoReq, !.await = NoReq,
                 !.fallback = FALSE, !.latest = FALSE], can, resume)

\* fetchUntilCurrent after its page p: the next page, the latest tail instead,
\* or done, and then what was parked meanwhile.
Continued(s, can, resume, p) ==
  IF ~ s.latest /\ p.newer
  THEN IF s.fallback
       THEN [sync |-> [s EXCEPT !.await = TailReq, !.latest = TRUE], fetch |-> TailReq]
       ELSE LET next == AfterReq(p.epoch, p.end)
            IN  [sync |-> [s EXCEPT !.await = next], fetch |-> next]
  ELSE Owed([s EXCEPT !.status = "complete", !.req = NoReq, !.await = NoReq,
                      !.fallback = FALSE, !.latest = FALSE], can, resume)

\* A fetch that failed is tried again later, from the page it got to.
Failed(s) ==
  [s EXCEPT !.status = "error", !.req = IF s.latest THEN @ ELSE s.await,
            !.await = NoReq, !.latest = FALSE, !.fallback = FALSE]

CanCatchUp == up /\ desired /\ acked

\* Send a fetch, if any.  To an unsynced chat a catch-up's fetch is its first one.
Issue(req, initialize, before, box, ws) ==
  LET fresh == initialize /\ req # NoReq
  IN  /\ inbox' = IF req = NoReq THEN box
                  ELSE IF InFlight(box, req) \/ InFlight(ws, req) THEN Asked(box, req, fresh)
                  ELSE Sent(box, req, fresh)
      /\ wire'  = IF req = NoReq THEN ws ELSE Asked(ws, req, fresh)
      /\ init'  = IF fresh /\ before = "none" THEN req.dir ELSE before

\* What is left of the messages when only some kinds of them stay.
OfKind(ms, kinds) == Only(ms, {i \in DOMAIN ms : ms[i].kind \in kinds})

\* Subscribe anew, to a set with or without the chat.  The route of the earlier
\* subscription is deleted at once: what is on its way for it is ignored.
Observe(open) ==
  /\ inbox' = Append(OfKind(inbox, {"fetch"}), [kind |-> "subscribe", open |-> open])
  /\ wire' = OfKind(wire, {"page", "fail"})
  /\ subscribed' = FALSE
  /\ subRetry' = FALSE

Disturb(kind) == kind \in Disturbances /\ faults > 0 /\ faults' = faults - 1

Deliver(m) == wire' = IF subscribed THEN Append(wire, m) ELSE wire

\* The app has applied an empty history, or will: whichever row it receives next
\* will be the start of its transcript.
Blank == \/ chat.synced /\ chat.range = NoRange
         \/ \E i \in DOMAIN wire : wire[i].kind = "page" /\ wire[i].page.max = 0

\* A row may be appended, or the epoch changed: the app is subscribed to it, or
\* has to catch up anyway, from a transcript of which it knows the start.
Watched == \/ subscribed
           \/ /\ ~ CanCatchUp \/ "resubscribe" \in Lapses
              /\ ~ Blank \/ "blank" \in Lapses

\* Nothing of the chat is on its way.
Idle == inbox = <<>> /\ wire = <<>> /\ queue = <<>>

(***************************************************************************)
(* The daemon                                                              *)
(***************************************************************************)
\* recordTimeline and dispatchStream: a row of a turn, or of a history that is
\* loaded and streamed.
AppendRow(a) ==
  LET seq == Len(rows[epoch]) + 1
  IN  /\ seq <= MaxRows /\ MapThenSumSet(LAMBDA e : Len(rows[e]), 1..MaxEpoch) < MaxTotal
      /\ Watched
      /\ rows' = [rows EXCEPT ![epoch] = Append(@, a)]
      /\ Deliver([kind |-> "row", row |-> [epoch |-> epoch, seq |-> seq, anchor |-> a]])
      /\ UNCHANGED <<epoch, subscribed, up, inbox, appVars, stored, faults>>

\* The history is cut and numbered anew, and the app is told to replace it.
Rewind(k) ==
  /\ Disturb("rewind")
  /\ epoch < MaxEpoch /\ k < Len(rows[epoch])
  /\ Watched /\ (chat.synced \/ ~ subscribed \/ "early" \in Lapses)
  /\ epoch' = epoch + 1
  /\ rows' = [rows EXCEPT ![epoch + 1] = SubSeq(rows[epoch], 1, k)]
  /\ Deliver([kind |-> "notice"])
  /\ UNCHANGED <<subscribed, up, inbox, appVars, stored>>

\* The agent is loaded again: a new epoch that is streamed from its first row.
Reload ==
  /\ Disturb("reload")
  /\ epoch < MaxEpoch /\ rows[epoch] # <<>>
  /\ Watched
  /\ epoch' = epoch + 1
  /\ UNCHANGED <<rows, subscribed, linkVars, appVars, stored>>

\* handleFetchAgentTimelineRequest
Answer ==
  /\ inbox # <<>> /\ Head(inbox).kind = "fetch"
  /\ wire' = Append(wire, [kind |-> "page", req |-> Head(inbox).req,
                           fresh |-> Head(inbox).fresh, page |-> Fetch(Head(inbox).req)])
  /\ inbox' = Tail(inbox)
  /\ UNCHANGED <<daemonVars, up, appVars, stored, faults>>

Refuse ==
  /\ Disturb("fail")
  /\ inbox # <<>> /\ Head(inbox).kind = "fetch"
  /\ ~ (noticed /\ Head(inbox).req = TailReq) \/ "refetch" \in Lapses
  /\ wire' = Append(wire, [kind |-> "fail", req |-> Head(inbox).req,
                           fresh |-> Head(inbox).fresh])
  /\ inbox' = Tail(inbox)
  /\ UNCHANGED <<daemonVars, up, appVars, stored>>

\* agent.timeline.set_subscription.request; fetches ahead of it may still wait.
Subscribe(i) ==
  /\ inbox[i].kind = "subscribe"
  /\ subscribed' = inbox[i].open
  /\ wire' = Append(wire, [kind |-> "subscribed", open |-> inbox[i].open])
  /\ inbox' = Without(inbox, i)
  /\ UNCHANGED <<epoch, rows, up, appVars, stored, faults>>

(***************************************************************************)
(* The app                                                                 *)
(***************************************************************************)
CurrentRange(c) == IF c.synced THEN c.range ELSE cached

ReceiveRow ==
  /\ wire # <<>> /\ Head(wire).kind = "row"
  /\ queue' = Append(queue, Head(wire).row)
  /\ wire' = Tail(wire)
  /\ UNCHANGED <<daemonVars, up, inbox, desired, acked, subRetry, sync, forced, noticed,
                 init, chat, cached, stored, faults>>

\* The frame on which the queued rows are applied.
FlushQueue ==
  LET c     == WithRows(chat, queue)
      start == IF RowsLeaveGap(chat, queue)
               THEN Recovered(sync, CanCatchUp, Resume(c, cached), c.range)
               ELSE [sync |-> sync, fetch |-> NoReq]
  IN  /\ queue # <<>>
      /\ queue' = <<>>
      /\ chat' = c
      /\ sync' = start.sync
      /\ Issue(start.fetch, ~ c.synced, init, inbox, wire)
      /\ UNCHANGED <<daemonVars, up, desired, acked, subRetry, forced, noticed, cached,
                     stored, faults>>

\* requestTimelineReplacement
ReceiveNotice ==
  /\ wire # <<>> /\ Head(wire).kind = "notice"
  /\ noticed' = TRUE
  /\ Issue(TailReq, FALSE, init, inbox, Tail(wire))
  /\ UNCHANGED <<daemonVars, up, desired, acked, subRetry, sync, forced, queue, chat,
                 cached, stored, faults>>

\* shouldResolveTimelineInit
InitResolved(p, reset) ==
  init # "none" /\ (reset \/ (p.dir = init /\ ~ (p.dir = "after" /\ p.newer)))

\* The page p replaces what is held, or is the tail of a first visit.
Replaces(p) == p.reset \/ (forced /\ p.dir = "tail")
IsBoot(p) == ~ Replaces(p) /\ p.dir = "tail" /\ init # "none"

\* The page of m has made c2 of the chat c1: the catch-up that awaited it goes
\* on.  The queued rows and the page may each ask for rows that are missing; a
\* catch-up that was started thereby is not the one that awaited the page.
PageApplied(m, c1, c2) ==
  LET p      == m.page
      boot   == IsBoot(p)
      cur    == CurrentRange(c1)
      ca     == IF c2.synced THEN NoRange ELSE cached
      next   == Resume(c2, ca)
      none(s) == [sync |-> s, fetch |-> NoReq]
      first  == IF RowsLeaveGap(chat, queue)
                THEN Recovered(sync, CanCatchUp, next, c1.range) ELSE none(sync)
      second == IF boot /\ p.end # 0
                THEN Recovered(first.sync, CanCatchUp, next, c2.range)
                ELSE IF /\ TailPolicy(p, cur, Replaces(p), boot) = "incremental"
                        /\ p.dir = "after" /\ LeavesGap(p, cur)
                THEN Recovered(first.sync, CanCatchUp, next, cur)
                ELSE none(first.sync)
      owned  == /\ CanCatchUp /\ sync.status = "running" /\ sync.await = m.req
                /\ first.fetch = NoReq /\ second.fetch = NoReq
      third  == IF owned THEN Continued(second.sync, CanCatchUp, next, p)
                ELSE none(second.sync)
      fetch  == IF third.fetch # NoReq THEN third.fetch
                ELSE IF second.fetch # NoReq THEN second.fetch ELSE first.fetch
      latest == third.sync.latest /\ owned
  IN  /\ queue' = <<>>
      /\ chat' = c2
      /\ cached' = ca
      /\ sync' = third.sync
      /\ forced' = (latest \/ (forced /\ p.dir # "tail"))
      /\ noticed' = (noticed /\ p.dir # "tail")
      /\ Issue(fetch, ~ c2.synced /\ ~ latest,
               IF InitResolved(p, Replaces(p)) THEN "none" ELSE init, inbox, Tail(wire))
      /\ UNCHANGED <<daemonVars, up, desired, acked, subRetry, stored, faults>>

\* A page arrives: the queued rows are applied, then the page.
ReceivePage ==
  /\ wire # <<>> /\ Head(wire).kind = "page"
  /\ \E m \in {Head(wire)}, c1 \in {WithRows(chat, queue)} :
     \E c2 \in {WithPage(c1, m.page, CurrentRange(c1), Replaces(m.page), IsBoot(m.page))} :
       PageApplied(m, c1, c2)

\* A fetch failed: nothing is applied.
ReceiveFailure ==
  LET m     == Head(wire)
      owned == CanCatchUp /\ sync.status = "running" /\ sync.await = m.req
  IN  /\ wire # <<>> /\ m.kind = "fail"
      /\ wire' = Tail(wire)
      /\ sync' = IF owned THEN Failed(sync) ELSE sync
      /\ init' = IF m.fresh THEN "none" ELSE init
      /\ forced' = (forced /\ m.req # TailReq)
      /\ noticed' = (noticed /\ m.req # TailReq)
      /\ UNCHANGED <<daemonVars, up, inbox, desired, acked, subRetry, queue, chat, cached,
                     stored, faults>>

\* The subscription is in place; what is owed can run.
ReceiveSubscribed ==
  LET m     == Head(wire)
      start == IF m.open THEN Owed(sync, up /\ desired, Resume(chat, cached))
               ELSE [sync |-> sync, fetch |-> NoReq]
  IN  /\ wire # <<>> /\ m.kind = "subscribed"
      /\ acked' = m.open
      /\ sync' = start.sync
      /\ Issue(start.fetch, ~ chat.synced, init, inbox, Tail(wire))
      /\ UNCHANGED <<daemonVars, up, desired, subRetry, forced, noticed, queue, chat,
                     cached, stored, faults>>

\* The device has been read (prepareCachedTimeline): if no history was applied
\* meanwhile its transcript is painted, and the catch-up may start.
PrepareChat ==
  LET paint == ~ chat.synced /\ stored.items # <<>>
      c     == IF paint THEN Painted(chat, stored) ELSE chat
      ca    == IF paint /\ stored.range # NoRange THEN stored.range ELSE cached
      ready == [sync EXCEPT !.loaded = TRUE]
      start == Started(ready, CanCatchUp, Resume(c, ca), ready.pending, ready.pending # NoReq)
  IN  /\ ~ sync.loaded /\ desired
      /\ chat' = c
      /\ cached' = ca
      /\ sync' = start.sync
      /\ Issue(start.fetch, ~ c.synced, init, inbox, wire)
      /\ UNCHANGED <<daemonVars, up, desired, acked, subRetry, forced, noticed, queue,
                     stored, faults>>

\* The timer of a failed catch-up, or the user pressing retry: the timer resumes
\* from what is held, the user repeats the request.
Retry(manual) ==
  LET start == Started(sync, CanCatchUp, Resume(chat, cached),
                       IF manual THEN sync.req ELSE NoReq, manual)
  IN  /\ sync.status = "error" /\ CanCatchUp
      /\ manual => chat.synced \/ sync.req = TailReq \/ "retry" \in Lapses
      /\ sync' = start.sync
      /\ Issue(start.fetch, ~ chat.synced, init, inbox, wire)
      /\ UNCHANGED <<daemonVars, up, desired, acked, subRetry, forced, noticed, queue,
                     chat, cached, stored, faults>>

\* setActive: the app is in the foreground again.
Foreground ==
  LET start == Started(sync, CanCatchUp, Resume(chat, cached), NoReq, TRUE)
  IN  /\ Disturb("foreground")
      /\ desired
      /\ sync' = start.sync
      /\ Issue(start.fetch, ~ chat.synced, init, inbox, wire)
      /\ UNCHANGED <<daemonVars, up, desired, acked, subRetry, forced, noticed, queue,
                     chat, cached, stored>>

\* loadOlderAgentHistory
LoadOlder ==
  LET req == BeforeReq(chat.range.epoch, chat.range.start)
      busy(ms) == \E i \in DOMAIN ms :
                    ms[i].kind \in {"fetch", "page", "fail"} /\ ms[i].req.dir = "before"
  IN  /\ Disturb("older")
      /\ up /\ chat.synced /\ chat.range # NoRange /\ chat.older
      /\ ~ busy(inbox) /\ ~ busy(wire)
      /\ Issue(req, FALSE, init, inbox, wire)
      /\ UNCHANGED <<daemonVars, up, desired, acked, subRetry, sync, forced, noticed,
                     queue, chat, cached, stored>>

\* replaceOpenTabAgentIds: the tab is closed.
CloseChat ==
  /\ Disturb("membership")
  /\ desired /\ up /\ (Idle \/ "resubscribe" \in Lapses)
  /\ desired' = FALSE
  /\ sync' = Cancelled(sync)
  /\ Observe(FALSE)
  /\ UNCHANGED <<epoch, rows, up, acked, forced, noticed, init, queue, chat, cached, stored>>

\* replaceVisibleAgentIds: it is opened again.  An acknowledgement of before
\* lets its catch-up start at once.
OpenChat ==
  LET start == Owed(sync, up /\ acked, Resume(chat, cached))
  IN  /\ ~ desired /\ up /\ (Idle \/ "resubscribe" \in Lapses)
      /\ desired' = TRUE
      /\ sync' = start.sync
      /\ subscribed' = FALSE /\ subRetry' = FALSE
      /\ Issue(start.fetch, ~ chat.synced, init,
               Append(OfKind(inbox, {"fetch"}), [kind |-> "subscribe", open |-> TRUE]),
               OfKind(wire, {"page", "fail"}))
      /\ UNCHANGED <<epoch, rows, up, acked, forced, noticed, queue, chat, cached,
                     stored, faults>>

\* Another chat is opened or closed: the set of chats is subscribed anew.
OtherChat ==
  /\ Disturb("membership")
  /\ desired /\ up /\ (Idle \/ "resubscribe" \in Lapses)
  /\ Observe(TRUE)
  /\ UNCHANGED <<epoch, rows, up, desired, acked, sync, forced, noticed, init, queue,
                 chat, cached, stored>>

\* The subscription is refused; a timer subscribes again.
RefuseSubscription(i) ==
  /\ Disturb("fail")
  /\ inbox[i].kind = "subscribe"
  /\ inbox' = Without(inbox, i)
  /\ subRetry' = inbox[i].open
  /\ UNCHANGED <<daemonVars, up, wire, desired, acked, sync, forced, noticed, init, queue,
                 chat, cached, stored>>

RetrySubscription ==
  /\ subRetry /\ up /\ desired
  /\ Observe(TRUE)
  /\ UNCHANGED <<epoch, rows, up, desired, acked, sync, forced, noticed, init, queue,
                 chat, cached, stored, faults>>

\* The connection is lost with what was on it.  Fetches fail, the catch-up is
\* cancelled; rows that arrived are still applied.
Unlinked ==
  /\ up' = FALSE
  /\ inbox' = <<>> /\ wire' = <<>>
  /\ subscribed' = FALSE

Disconnect ==
  LET fresh(ms) == \E i \in DOMAIN ms : ms[i].kind \in {"fetch", "page", "fail"} /\ ms[i].fresh
  IN  /\ Disturb("link")
      /\ up /\ (~ Blank \/ rows[epoch] = <<>> \/ "blank" \in Lapses)
      /\ Unlinked
      /\ acked' = FALSE /\ subRetry' = FALSE /\ forced' = FALSE /\ noticed' = FALSE
      /\ sync' = Cancelled(sync)
      /\ init' = IF fresh(inbox) \/ fresh(wire) THEN "none" ELSE init
      /\ UNCHANGED <<epoch, rows, desired, queue, chat, cached, stored>>

Connect ==
  /\ ~ up
  /\ up' = TRUE
  /\ IF desired THEN Observe(TRUE)
     ELSE UNCHANGED <<inbox, wire, subscribed, subRetry>>
  /\ UNCHANGED <<epoch, rows, desired, acked, sync, forced, noticed, init, queue, chat,
                 cached, stored, faults>>

\* The app is closed and the chat is opened in a new one.  The device has the
\* transcript as it was shown last, or what it had when the app was started.
Restart ==
  /\ Disturb("restart")
  /\ Unlinked
  /\ stored' \in {stored} \cup (IF Shown(chat) = <<>> THEN {} ELSE {Snapshot(chat)})
  /\ desired' = TRUE
  /\ acked' = FALSE /\ subRetry' = FALSE /\ forced' = FALSE /\ noticed' = FALSE
  /\ init' = "none" /\ queue' = <<>>
  /\ sync' = NoSync /\ chat' = NoChat /\ cached' = NoRange
  /\ UNCHANGED <<epoch, rows>>

Init ==
  /\ epoch = 1 /\ rows = [e \in 1..MaxEpoch |-> <<>>]
  /\ subscribed = FALSE /\ up = FALSE /\ inbox = <<>> /\ wire = <<>>
  /\ desired = TRUE /\ acked = FALSE /\ subRetry = FALSE
  /\ sync = NoSync /\ forced = FALSE /\ noticed = FALSE /\ init = "none"
  /\ queue = <<>> /\ chat = NoChat /\ cached = NoRange
  /\ stored = Snapshot(NoChat)
  /\ faults = MaxFaults

\* Steps nobody has to cause.
Internal ==
  \/ Answer
  \/ \E i \in DOMAIN inbox : Subscribe(i)
  \/ ReceiveRow \/ FlushQueue \/ ReceiveNotice \/ ReceivePage \/ ReceiveFailure
  \/ ReceiveSubscribed \/ PrepareChat \/ Retry(FALSE) \/ RetrySubscription \/ Connect

External ==
  \/ \E a \in NextAnchors(rows[epoch]) : AppendRow(a)
  \/ \E k \in 0..MaxRows : Rewind(k)
  \/ Reload
  \/ Refuse
  \/ \E i \in DOMAIN inbox : RefuseSubscription(i)
  \/ Retry(TRUE) \/ Foreground \/ LoadOlder
  \/ CloseChat \/ OpenChat \/ OtherChat
  \/ Disconnect \/ Restart

Next == Internal \/ External

Spec == Init /\ [][Next]_vars

(***************************************************************************)
(* Properties                                                              *)
(***************************************************************************)
Rows == [epoch : 1..MaxEpoch, seq : 1..MaxRows, anchor : 1..MaxRows]
Ranges == {NoRange} \cup [epoch : 1..MaxEpoch, start : 1..MaxRows, end : 1..MaxRows]
ShownItems == [epoch : 1..MaxEpoch, anchor : 1..MaxRows, end : 1..MaxRows, late : BOOLEAN]
Requests == {NoReq, TailReq} \cup
            [dir : {"after", "before"}, epoch : 1..MaxEpoch, seq : 1..MaxRows]

\* Every variable has its type.
TypeOK ==
  /\ epoch \in 1..MaxEpoch
  /\ \A e \in 1..MaxEpoch :
       /\ Len(rows[e]) <= MaxRows
       /\ \A s \in DOMAIN rows[e] : rows[e][s] \in 1..s /\ rows[e][rows[e][s]] = rows[e][s]
  /\ {subscribed, up, desired, acked, subRetry, forced, noticed} \subseteq BOOLEAN
  /\ \A i \in DOMAIN inbox : \/ inbox[i].kind = "fetch" /\ inbox[i].req \in Requests \ {NoReq}
                             \/ inbox[i].kind = "subscribe" /\ inbox[i].open \in BOOLEAN
  /\ \A i \in DOMAIN wire : wire[i].kind \in {"row", "notice", "page", "fail", "subscribed"}
  /\ sync.status \in {"none", "running", "complete", "error"}
  /\ {sync.req, sync.await, sync.pending} \subseteq Requests
  /\ {sync.fallback, sync.latest, sync.loaded} \subseteq BOOLEAN
  /\ init \in {"none", "tail", "after"}
  /\ \A i \in DOMAIN queue : queue[i] \in Rows
  /\ chat.range \in Ranges /\ {chat.synced, chat.older, chat.newer} \subseteq BOOLEAN
  /\ \A i \in DOMAIN Shown(chat) : Shown(chat)[i] \in ShownItems
  /\ cached \in Ranges /\ stored.range \in Ranges
  /\ faults \in 0..MaxFaults

\* The copies on screen of the item started by row a.
Copies(a, late) ==
  {i \in DOMAIN Shown(chat) : Shown(chat)[i].anchor = a /\ Shown(chat)[i].late = late}

\* A synced chat shows its range: only items of its epoch, every item that was
\* started in the range, once, in order, with its last row of the range, and
\* nothing else but the copies that stand where their update arrived.  It knows
\* that there is history before the range.
HeldIsWhole ==
  chat.synced =>
    LET r     == chat.range
        src   == rows[r.epoch]
        shown == Shown(chat)
        own   == {a \in Anchors(src) : a \in r.start..r.end}
    IN  IF r = NoRange THEN shown = <<>>
        ELSE /\ r.end <= Len(src)
             /\ r.start > 1 => chat.older
             /\ \A i \in DOMAIN shown :
                  /\ shown[i].epoch = r.epoch
                  /\ ~ shown[i].late => shown[i].anchor \in own
                  /\ ~ shown[i].late => \A j \in 1..(i - 1) :
                       ~ shown[j].late => shown[j].anchor < shown[i].anchor
             /\ \A a \in own :
                  /\ Copies(a, FALSE) \cup Copies(a, TRUE) # {}
                  /\ Cardinality(Copies(a, TRUE)) <= 1
                  /\ \A s \in Sources(src, a) :
                       s <= r.end => \E i \in DOMAIN shown :
                                       shown[i].anchor = a /\ shown[i].end >= s

\* No message is on its way and no timer or read of the device is outstanding:
\* nothing will happen to the open chat that the app does not wait for.
Settled == /\ Idle /\ up /\ desired /\ sync.loaded /\ ~ subRetry
           /\ ~ (sync.status = "error" /\ CanCatchUp)

Current == /\ chat.synced /\ ~ chat.newer
           /\ chat.range.epoch = epoch /\ chat.range.end = Len(rows[epoch])

\* Whatever was lost, refused or crossed on the way, once nothing is left to
\* happen an open chat is not stuck: it is subscribed, its catch-up is complete,
\* and it holds the daemon's last row, of the daemon's epoch, and takes live rows.
SettledIsCurrent ==
  Settled => /\ subscribed /\ sync.status = "complete"
             /\ rows[epoch] # <<>> => Current

\* A chat whose window ends before the daemon's last row ignores live rows
\* without a trace, so somebody must be fetching what follows.
DetachedIsCatchingUp ==
  chat.synced /\ chat.newer /\ CanCatchUp /\ sync.loaded =>
    sync.status \in {"running", "error"}

\* What is held of an epoch does not shrink at its end, whatever arrives late.
EndOnlyAdvances ==
  [][chat.synced /\ chat'.synced /\ chat'.range.epoch = chat.range.epoch
       => chat'.range.end >= chat.range.end]_vars
==============================================================================
