------------------------ MODULE TimelineCatchUpProofs ------------------------
(***************************************************************************)
(* Theorems about the catch-up of a chat. CatchesUp says what the catch-   *)
(* up, the course and what is held have to do with each other: what is     *)
(* awaited is on its way (Control), nobody asks for what lies beyond what  *)
(* is held (Grounds), no answer on its way upsets what an earlier one      *)
(* leads to (Streams), and nothing is heard of a subscription before it is *)
(* acknowledged. From it follows that a window that takes no live rows is  *)
(* being caught up. Leads says that an app that is up to date will be told *)
(* of every row that it does not hold: a chat for which nothing is left to *)
(* happen is current. The theorems assume that none of the lapses happens: *)
(* each of them breaks what is stated.                                     *)
(***************************************************************************)
EXTENDS TimelineProofs

-----------------------------------------------------------------------------
(* Steps of the daemon and of the link keep CatchesUp.                     *)

LEMMA NowIs ==
    ASSUME Shape
    PROVE  epoch \in Nat /\ epoch \in 1 .. MaxEpoch /\ Len(rows[epoch]) \in Nat
<1>1. epoch \in 1 .. MaxEpoch /\ rows[epoch] \in Histories /\ epoch \in Nat
  BY BoundsAssumption DEF Shape, Daemons
<1> QED
  BY <1>1, AnchorTypes

LEMMA AppendRowCatchesUp ==
    ASSUME Shape, Links, CatchesUp, NEW a \in NextAnchors(rows[epoch]), AppendRow(a)
    PROVE  CatchesUp'
<1>1. /\ Shape' /\ epoch' = epoch
      /\ \E r \in Rows : /\ r.epoch = epoch /\ r.seq = Len(rows[epoch]) + 1 /\ r.anchor = a
                         /\ wire' = IF subscribed THEN Append(wire, [kind |-> "row", row |-> r]) ELSE wire
  BY AppendRowShape
<1>2. UNCHANGED <<up, inbox, appVars>>
  BY DEF AppendRow
<1>3. epoch <= epoch' /\ epoch \in Nat /\ Len(rows[epoch]) \in Nat
  BY <1>1, NowIs
<1>4. CASE subscribed
  <2>1. PICK r \in Rows : /\ r.epoch = epoch /\ r.seq = Len(rows[epoch]) + 1
                          /\ wire' = Append(wire, [kind |-> "row", row |-> r])
    BY <1>1, <1>4
  <2> DEFINE m == [kind |-> "row", row |-> r]
  <2>2. m \in Outbound /\ m.kind = "row" /\ m.row = r
    BY DEF Outbound, RowMsgs
  <2>3. wire' = Append(wire, m)
    BY <2>1
  <2> HIDE DEF m
  <2>4. ~ Asks(m) /\ m.kind # "notice"
    BY <2>2 DEF Asks
  <2>5. Ahead(epoch, Len(rows[epoch]), m)
    BY <1>3, <2>1, <2>2 DEF Ahead, Below
  <2> QED
    BY <1>1, <1>2, <1>3, <1>4, <2>2, <2>3, <2>4, <2>5, SentCatchesUp
<1>5. CASE ~ subscribed
  <2>1. wire' = wire
    BY <1>1, <1>5
  <2> QED
    BY <1>1, <1>2, <1>3, <2>1, StillCatchesUp
<1> QED
  BY <1>4, <1>5

LEMMA RewindCatchesUp ==
    ASSUME Shape, Links, CatchesUp, Lapses = {}, NEW k \in 0 .. MaxRows, Rewind(k)
    PROVE  CatchesUp'
<1>1. /\ Shape' /\ epoch' = epoch + 1
      /\ wire' = IF subscribed THEN Append(wire, [kind |-> "notice"]) ELSE wire
  BY RewindShape
<1>2. UNCHANGED <<up, inbox, appVars>> /\ (chat.synced \/ ~ subscribed)
  BY DEF Rewind
<1>3. epoch <= epoch' /\ epoch \in Nat /\ Len(rows[epoch]) \in Nat
  BY <1>1, NowIs
<1>4. CASE subscribed
  <2> DEFINE m == [kind |-> "notice"]
  <2>2. m \in Outbound /\ m.kind = "notice"
    BY DEF Outbound, NoticeMsgs
  <2>3. wire' = Append(wire, m)
    BY <1>1, <1>4
  <2> HIDE DEF m
  <2>4. ~ Asks(m) /\ Ahead(epoch, Len(rows[epoch]), m)
    BY <2>2 DEF Asks, Ahead
  <2> QED
    BY <1>1, <1>2, <1>3, <1>4, <2>2, <2>3, <2>4, SentCatchesUp
<1>5. CASE ~ subscribed
  <2>1. wire' = wire
    BY <1>1, <1>5
  <2> QED
    BY <1>1, <1>2, <1>3, <2>1, StillCatchesUp
<1> QED
  BY <1>4, <1>5

LEMMA ReloadCatchesUp ==
    ASSUME Shape, CatchesUp, Reload
    PROVE  CatchesUp'
<1>1. Shape' /\ epoch' = epoch + 1 /\ epoch \in Nat
  BY ReloadShape, NowIs
<1>2. UNCHANGED <<up, inbox, wire, appVars>>
  BY DEF Reload, linkVars
<1>3. epoch <= epoch'
  BY <1>1
<1> QED
  BY <1>1, <1>2, <1>3, StillCatchesUp

\* The first request of the inbox is answered or refused.
LEMMA AnsweredCatchesUp ==
    ASSUME Shape, Shape', Links, CatchesUp, UNCHANGED <<epoch, rows, subscribed, up, appVars>>,
           inbox # <<>>, NEW m \in Outbound, Asks(m), Like(m, inbox[1], noticed),
           Ahead(epoch, Len(rows[epoch]), m),
           wire' = Append(wire, m), inbox' = Tail(inbox)
    PROVE  CatchesUp'
<1>1. /\ wire \in Seq(Outbound) /\ inbox \in Seq(Inbound) /\ epoch \in Nat /\ queue \in Seq(Rows)
      /\ Len(rows[epoch]) \in Nat
  BY NowIs DEF Shape
<1>2. Like(m, inbox[1], FALSE)
  BY DEF Like
<1>3. Course' = Append(wire, m) \o Tail(inbox) /\ Course = wire \o inbox
  BY DEF Course
<1>4. Drawn(Append(wire, m) \o Tail(inbox), wire \o inbox, noticed)
  BY <1>1, DrawnAnswered
<1>5. Drawn(wire \o inbox, Append(wire, m) \o Tail(inbox), FALSE)
  BY <1>1, <1>2, DrawnAnswered
<1>6. ASSUME NEW e \in Nat, e <= epoch, Waits(e, 0, wire, queue)
      PROVE  Waits(e, 0, wire', queue')
  <2>1. Waits(e, 0, Append(wire, m), queue)
    BY <1>1, <1>6, WaitsSent
  <2> QED
    BY <2>1 DEF appVars
<1>7. Notices'
  <2>1. \A i \in DOMAIN wire' : wire'[i] = m \/ (i \in DOMAIN wire /\ wire'[i] = wire[i])
    BY <1>1
  <2>2. chat' = chat
    BY DEF appVars
  <2> QED
    BY <2>1, <2>2 DEF CatchesUp, Notices, Asks
<1>8. Heralded'
  <2>1. Hears(wire, acked)
    BY HeraldedIs DEF CatchesUp
  <2>2. ~ (m.kind \in {"row", "notice"})
    BY DEF Asks
  <2>3. Hears(Append(wire, m), acked)
    BY <1>1, <2>1, <2>2, HearsSent
  <2>4. acked' = acked
    BY DEF appVars
  <2> QED
    BY <2>3, <2>4 DEF Heralded, Hears
<1>9. UNCHANGED <<sync, chat, cached, noticed, forced>> /\ (CanCatchUp' <=> CanCatchUp)
  BY DEF appVars, CanCatchUp
<1>10. epoch <= epoch'
  BY <1>1
<1> QED
  BY <1>3, <1>4, <1>5, <1>6, <1>7, <1>8, <1>9, <1>10, QuietCatchesUp

LEMMA AnswerCatchesUp ==
    ASSUME Shape, Links, CatchesUp, Answer
    PROVE  CatchesUp'
<1>1. /\ Shape' /\ Head(inbox) \in FetchMsgs /\ Head(inbox) = inbox[1] /\ inbox # <<>>
      /\ UNCHANGED <<daemonVars, up, appVars, stored, faults>>
      /\ inbox' = Tail(inbox)
      /\ \E p \in Pages :
           /\ PageHolds(Head(inbox).req, p, epoch, rows)
           /\ p.epoch = epoch /\ p.max = Len(rows[epoch])
           /\ wire' = Append(wire, [kind |-> "page", req |-> Head(inbox).req,
                                    fresh |-> Head(inbox).fresh, page |-> p])
  BY AnswerShape
<1>2. PICK p \in Pages :
        /\ p.epoch = epoch /\ p.max = Len(rows[epoch])
        /\ wire' = Append(wire, [kind |-> "page", req |-> Head(inbox).req,
                                 fresh |-> Head(inbox).fresh, page |-> p])
  BY <1>1
<1> DEFINE m == [kind |-> "page", req |-> Head(inbox).req, fresh |-> Head(inbox).fresh, page |-> p]
<1>3. inbox[1].kind = "fetch" /\ inbox[1].req \in Reqs /\ inbox[1].fresh \in BOOLEAN
  BY <1>1 DEF FetchMsgs
<1>4. m \in Outbound /\ m.kind = "page" /\ m.page = p /\ m.req = inbox[1].req
  BY <1>1, <1>3 DEF Outbound, PageMsgs
<1>5. wire' = Append(wire, m)
  BY <1>2
<1> HIDE DEF m
<1>6. Asks(m) /\ Like(m, inbox[1], noticed)
  BY <1>3, <1>4 DEF Asks, Like
<1>7. Ahead(epoch, Len(rows[epoch]), m)
  BY <1>2, <1>4, NowIs DEF Ahead, Upto
<1>8. UNCHANGED <<epoch, rows, subscribed, up, appVars>>
  BY <1>1 DEF daemonVars
<1> QED
  BY <1>1, <1>4, <1>5, <1>6, <1>7, <1>8, AnsweredCatchesUp

LEMMA RefuseCatchesUp ==
    ASSUME Shape, Links, CatchesUp, Lapses = {}, Refuse
    PROVE  CatchesUp'
<1>1. /\ Shape' /\ Head(inbox) \in FetchMsgs /\ Head(inbox) = inbox[1] /\ inbox # <<>>
      /\ UNCHANGED <<daemonVars, up, appVars, stored>>
      /\ inbox' = Tail(inbox)
      /\ ~ (noticed /\ Head(inbox).req = TailReq) \/ "refetch" \in Lapses
      /\ \E m \in FailMsgs : m.req = Head(inbox).req /\ wire' = Append(wire, m)
  BY RefuseShape
<1>2. PICK m \in FailMsgs : m.req = Head(inbox).req /\ wire' = Append(wire, m)
  BY <1>1
<1>3. m \in Outbound /\ m.kind = "fail" /\ inbox[1].kind = "fetch"
  BY <1>1 DEF Outbound, FailMsgs, FetchMsgs
<1>4. Asks(m) /\ Like(m, inbox[1], noticed)
  BY <1>1, <1>2, <1>3 DEF Asks, Like
<1>5. Ahead(epoch, Len(rows[epoch]), m)
  BY <1>3 DEF Ahead
<1>6. UNCHANGED <<epoch, rows, subscribed, up, appVars>>
  BY <1>1 DEF daemonVars
<1> QED
  BY <1>1, <1>2, <1>3, <1>4, <1>5, <1>6, AnsweredCatchesUp

LEMMA DrawnDrawn ==
    ASSUME NEW ls, NEW ms, NEW ns, NEW ntc, Drawn(ls, ms, ntc), Drawn(ms, ns, ntc)
    PROVE  Drawn(ls, ns, ntc)
<1>1. PICK f : Drawing(f, ls, ms, ntc)
  BY DEF Drawn
<1>2. PICK g : Drawing(g, ms, ns, ntc)
  BY DEF Drawn
<1> DEFINE h == [i \in DOMAIN ls |-> g[f[i]]]
<1>3. ASSUME NEW i \in DOMAIN ls, Asks(ls[i])
      PROVE  /\ h[i] = g[f[i]] /\ f[i] \in DOMAIN ms /\ Asks(ms[f[i]])
             /\ h[i] \in DOMAIN ns /\ Like(ls[i], ns[h[i]], ntc)
  <2>1. f[i] \in DOMAIN ms /\ Like(ls[i], ms[f[i]], ntc)
    BY <1>1, <1>3 DEF Drawing
  <2>2. Asks(ms[f[i]])
    BY <2>1 DEF Like
  <2>3. g[f[i]] \in DOMAIN ns /\ Like(ms[f[i]], ns[g[f[i]]], ntc)
    BY <1>2, <2>1, <2>2 DEF Drawing
  <2>4. Like(ls[i], ns[g[f[i]]], ntc)
    BY <2>1, <2>3 DEF Like
  <2> QED
    BY <2>1, <2>2, <2>3, <2>4
<1>4. ASSUME NEW i \in DOMAIN ls, NEW j \in DOMAIN ls, Asks(ls[i]), Asks(ls[j]), i < j
      PROVE  h[i] < h[j]
  <2>1. f[i] < f[j]
    BY <1>1, <1>4 DEF Drawing
  <2>2. g[f[i]] < g[f[j]]
    BY <1>2, <1>3, <1>4, <2>1 DEF Drawing
  <2> QED
    BY <1>3, <1>4, <2>2
<1> HIDE DEF h
<1>5. Drawing(h, ls, ns, ntc)
  BY <1>3, <1>4 DEF Drawing
<1> QED
  BY <1>5 DEF Drawn

LEMMA ReceiveRowCatchesUp ==
    ASSUME Shape, CatchesUp, ReceiveRow
    PROVE  CatchesUp'
<1>1. /\ Shape' /\ wire # <<>> /\ wire[1].kind = "row" /\ wire[1].row \in Rows
      /\ queue' = Append(queue, wire[1].row) /\ wire' = Tail(wire)
      /\ UNCHANGED <<daemonVars, up, inbox, desired, acked, subRetry, sync, forced, noticed,
                     init, chat, cached, stored, faults>>
  BY ReceiveRowShape
<1>2. wire \in Seq(Outbound) /\ inbox \in Seq(Inbound) /\ queue \in Seq(Rows) /\ epoch \in Nat
  BY NowIs DEF Shape
<1>3. ~ Asks(wire[1])
  BY <1>1 DEF Asks
<1>4. Drawn(Tail(wire), wire, noticed) /\ Drawn(wire, Tail(wire), FALSE)
  BY <1>1, <1>2, <1>3, DrawnTail
<1>5. Drawn(inbox', inbox, noticed) /\ Drawn(inbox, inbox', FALSE)
  BY <1>1, <1>2, DrawnItself
<1>6. Drawn(Course', Course, noticed) /\ Drawn(Course, Course', FALSE)
  BY <1>1, <1>4, <1>5, CourseDrawn
<1>7. \A e \in Nat : Waits(e, 0, wire, queue) => Waits(e, 0, wire', queue')
  BY <1>1, <1>2, WaitsMoved
<1>8. Notices'
  <2>1. \A i \in DOMAIN wire : wire[i].kind = "notice" => chat.synced
    BY DEF CatchesUp, Notices
  <2>2. Thinned(Tail(wire), wire) /\ Tail(wire) \in Seq(Outbound)
    BY <1>1, <1>2, ThinnedTail
  <2>3. \A i \in DOMAIN Tail(wire) : Tail(wire)[i].kind = "notice" => chat.synced
    BY <1>2, <2>1, <2>2, NoticesThinned
  <2> QED
    BY <1>1, <2>3 DEF Notices
<1>9. Heralded'
  <2>1. Hears(wire, acked)
    BY HeraldedIs DEF CatchesUp
  <2>2. Hears(Tail(wire), acked)
    BY <1>1, <1>2, <2>1, HearsTail
  <2> QED
    BY <1>1, <2>2 DEF Heralded, Hears
<1>10. UNCHANGED <<sync, chat, cached, noticed, forced>> /\ (CanCatchUp' <=> CanCatchUp)
  BY <1>1 DEF CanCatchUp
<1>11. epoch <= epoch'
  BY <1>1, <1>2 DEF daemonVars
<1> QED
  BY <1>1, <1>6, <1>7, <1>8, <1>9, <1>10, <1>11, QuietCatchesUp

\* A subscription is taken from the inbox.
LEMMA SubscriptionCatchesUp ==
    ASSUME Shape, Links, CatchesUp, NEW i \in DOMAIN inbox, Subscribe(i) \/ RefuseSubscription(i)
    PROVE  CatchesUp'
<1>1. /\ Shape' /\ inbox[i].kind = "subscribe" /\ inbox' = Without(inbox, i)
      /\ UNCHANGED <<epoch, rows, up, desired, acked, sync, forced, noticed, init, queue, chat, cached>>
  BY SubscribeShape, RefuseSubscriptionShape DEF appVars, daemonVars
<1>2. wire' = wire \/ \E m \in Outbound : m.kind = "subscribed" /\ wire' = Append(wire, m)
  <2>1. CASE Subscribe(i)
    <3> DEFINE m == [kind |-> "subscribed", open |-> inbox[i].open]
    <3>1. wire' = Append(wire, m) /\ inbox[i].open \in BOOLEAN
      BY <2>1, SubscribeShape
    <3>2. m \in Outbound /\ m.kind = "subscribed"
      BY <3>1 DEF Outbound, SubscribedMsgs
    <3> QED
      BY <3>1, <3>2
  <2>2. CASE RefuseSubscription(i)
    BY <2>2, RefuseSubscriptionShape
  <2> QED
    BY <2>1, <2>2
<1>3. wire \in Seq(Outbound) /\ inbox \in Seq(Inbound) /\ queue \in Seq(Rows) /\ epoch \in Nat
      /\ Len(rows[epoch]) \in Nat
  BY NowIs DEF Shape
<1>4. ~ Asks(inbox[i])
  BY <1>1 DEF Asks
<1>5. Drawn(inbox', inbox, noticed) /\ Drawn(inbox, inbox', FALSE)
  BY <1>1, <1>3, <1>4, DrawnRemoved
<1>6. UNCHANGED <<sync, chat, cached, noticed, forced>> /\ (CanCatchUp' <=> CanCatchUp)
  BY <1>1 DEF CanCatchUp
<1>7. CASE wire' = wire
  <2>1. Drawn(wire', wire, noticed) /\ Drawn(wire, wire', FALSE)
    BY <1>3, <1>7, DrawnItself
  <2>2. Drawn(Course', Course, noticed) /\ Drawn(Course, Course', FALSE)
    BY <1>1, <1>5, <2>1, CourseDrawn
  <2>3. Notices' /\ Heralded'
    BY <1>1, <1>7 DEF CatchesUp, Notices, Heralded
  <2>4. \A e \in Nat : Waits(e, 0, wire, queue) => Waits(e, 0, wire', queue')
    BY <1>1, <1>7
  <2>5. epoch <= epoch'
    BY <1>1, <1>3
  <2> QED
    BY <1>1, <1>6, <2>2, <2>3, <2>4, <2>5, QuietCatchesUp
<1>8. ASSUME NEW m \in Outbound, m.kind = "subscribed", wire' = Append(wire, m)
      PROVE  CatchesUp'
  <2>0. ~ Asks(m)
    BY <1>8 DEF Asks
  <2>1. Drawn(wire', wire, noticed) /\ Drawn(wire, wire', FALSE)
    BY <1>3, <1>8, <2>0, DrawnSent
  <2>2. Drawn(Course', Course, noticed) /\ Drawn(Course, Course', FALSE)
    BY <1>1, <1>5, <2>1, CourseDrawn
  <2>3. Notices'
    <3>1. \A k \in DOMAIN wire' : wire'[k] = m \/ (k \in DOMAIN wire /\ wire'[k] = wire[k])
      BY <1>3, <1>8
    <3> QED
      BY <1>1, <1>8, <3>1 DEF CatchesUp, Notices
  <2>4. Heralded'
    <3>1. Hears(wire, acked)
      BY HeraldedIs DEF CatchesUp
    <3>2. ~ (m.kind \in {"row", "notice"})
      BY <1>8
    <3>3. Hears(Append(wire, m), acked)
      BY <1>3, <3>1, <3>2, HearsSent
    <3> QED
      BY <1>1, <1>8, <3>3 DEF Heralded, Hears
  <2>5. Ahead(epoch, Len(rows[epoch]), m)
    BY <1>8 DEF Ahead
  <2>6. \A e \in Nat : e <= epoch /\ Waits(e, 0, wire, queue) => Waits(e, 0, wire', queue')
    BY <1>1, <1>3, <1>8, <2>5, WaitsSent
  <2>7. epoch <= epoch'
    BY <1>1, <1>3
  <2> QED
    BY <1>1, <1>6, <2>2, <2>3, <2>4, <2>6, <2>7, QuietCatchesUp
<1> QED
  BY <1>2, <1>7, <1>8

\* What is left when the chats are subscribed anew has the same requests.
LEMMA ObservedCourse ==
    ASSUME Shape, NEW open \in BOOLEAN, NEW ntc
    PROVE  LET box == Append(OfKind(inbox, {"fetch"}), [kind |-> "subscribe", open |-> open])
               ws  == OfKind(wire, {"page", "fail"})
           IN  /\ Drawn(box, inbox, ntc) /\ Drawn(inbox, box, ntc)
               /\ Drawn(ws, wire, ntc) /\ Drawn(wire, ws, ntc)
               /\ Drawn(ws \o box, Course, ntc) /\ Drawn(Course, ws \o box, ntc)
<1> DEFINE mid == OfKind(inbox, {"fetch"})
           m == [kind |-> "subscribe", open |-> open]
           box == Append(mid, m)
           ws == OfKind(wire, {"page", "fail"})
<1>1. wire \in Seq(Outbound) /\ inbox \in Seq(Inbound)
  BY DEF Shape
<1>2. mid \in Seq(Inbound) /\ ws \in Seq(Outbound)
  BY <1>1, OfKindIs
<1>3. \A i \in DOMAIN inbox : Asks(inbox[i]) => inbox[i].kind \in {"fetch"}
  BY <1>1, InboundFields DEF Asks
<1>4. \A i \in DOMAIN wire : Asks(wire[i]) => wire[i].kind \in {"page", "fail"}
  BY <1>1, OutboundFields DEF Asks
<1>5. Drawn(mid, inbox, ntc) /\ Drawn(inbox, mid, ntc)
  BY <1>1, <1>3, DrawnOfKind
<1>6. Drawn(ws, wire, ntc) /\ Drawn(wire, ws, ntc)
  BY <1>1, <1>4, DrawnOfKind
<1>7. ~ Asks(m)
  BY DEF Asks
<1>8. m \in Inbound
  BY DEF Inbound, SubscribeMsgs
<1>9. Drawn(box, mid, ntc) /\ Drawn(mid, box, ntc) /\ box \in Seq(Inbound)
  <2> HIDE DEF m, mid
  <2> QED
    BY <1>2, <1>7, <1>8, DrawnSent
<1>10. Drawn(box, inbox, ntc) /\ Drawn(inbox, box, ntc)
  <2> HIDE DEF m, mid, box
  <2> QED
    BY <1>5, <1>9, DrawnDrawn
<1>11. Drawn(ws \o box, wire \o inbox, ntc) /\ Drawn(wire \o inbox, ws \o box, ntc)
  <2> HIDE DEF m, mid, box, ws
  <2> QED
    BY <1>1, <1>2, <1>6, <1>9, <1>10, DrawnTogether
<1> QED
  BY <1>6, <1>10, <1>11 DEF Course

\* The chats are subscribed anew, and nothing else.
LEMMA ObserveCatchesUp ==
    ASSUME Shape, Shape', CatchesUp, NEW open \in BOOLEAN, Observe(open),
           UNCHANGED <<epoch, rows, desired, acked, sync, forced, noticed, init, queue, chat, cached>>,
           CanCatchUp' <=> CanCatchUp
    PROVE  CatchesUp'
<1>1. /\ inbox' = Append(OfKind(inbox, {"fetch"}), [kind |-> "subscribe", open |-> open])
      /\ wire' = OfKind(wire, {"page", "fail"}) /\ Thinned(wire', wire)
  BY ObserveShape
<1>2. /\ wire \in Seq(Outbound) /\ wire' \in Seq(Outbound) /\ queue \in Seq(Rows) /\ epoch \in Nat
  BY NowIs DEF Shape
<1>3. Course' = wire' \o inbox'
  BY DEF Course
<1>4. Drawn(Course', Course, noticed)
  BY <1>1, <1>3, ObservedCourse
<1>5. Drawn(Course, Course', FALSE)
  BY <1>1, <1>3, ObservedCourse
<1>6. \A i \in DOMAIN wire' : wire'[i].kind \in {"page", "fail"}
  BY <1>1, <1>2, OfKindIs
<1>7. Notices' /\ Heralded'
  BY <1>6 DEF Notices, Heralded
<1>8. \A e \in Nat : Waits(e, 0, wire, queue) => Waits(e, 0, wire', queue')
  BY <1>1, <1>2, WaitsThinned
<1>9. epoch <= epoch'
  BY <1>2
<1> QED
  BY <1>4, <1>5, <1>7, <1>8, <1>9, QuietCatchesUp

LEMMA AnewCatchesUp ==
    ASSUME Shape, Links, CatchesUp
    PROVE  /\ OtherChat => CatchesUp'
           /\ RetrySubscription => CatchesUp'
           /\ Connect => CatchesUp'
<1>1. ASSUME OtherChat PROVE CatchesUp'
  <2>1. /\ Shape' /\ Observe(TRUE)
        /\ UNCHANGED <<epoch, rows, up, desired, acked, sync, forced, noticed, init, queue,
                       chat, cached, stored>>
    BY <1>1, OtherChatShape
  <2>2. CanCatchUp' <=> CanCatchUp
    BY <2>1 DEF CanCatchUp
  <2> DEFINE open == TRUE
  <2>3. open \in BOOLEAN /\ Observe(open)
    BY <2>1
  <2> HIDE DEF open
  <2> QED
    BY <2>1, <2>2, <2>3, ObserveCatchesUp
<1>2. ASSUME RetrySubscription PROVE CatchesUp'
  <2>1. /\ Shape' /\ Observe(TRUE)
        /\ UNCHANGED <<epoch, rows, up, desired, acked, sync, forced, noticed, init, queue,
                       chat, cached, stored, faults>>
    BY <1>2, RetrySubscriptionShape
  <2>2. CanCatchUp' <=> CanCatchUp
    BY <2>1 DEF CanCatchUp
  <2> DEFINE open == TRUE
  <2>3. open \in BOOLEAN /\ Observe(open)
    BY <2>1
  <2> HIDE DEF open
  <2> QED
    BY <2>1, <2>2, <2>3, ObserveCatchesUp
<1>3. ASSUME Connect PROVE CatchesUp'
  <2>1. /\ Shape' /\ ~ up
        /\ IF desired THEN Observe(TRUE)
           ELSE UNCHANGED <<inbox, wire, subscribed, subRetry>>
        /\ UNCHANGED <<epoch, rows, desired, acked, sync, forced, noticed, init, queue, chat,
                       cached, stored, faults>>
    BY <1>3, ConnectShape
  <2>2. CanCatchUp' <=> CanCatchUp
    BY <2>1 DEF CanCatchUp, Links
  <2>3. CASE desired
    <3> DEFINE open == TRUE
    <3>1. open \in BOOLEAN /\ Observe(open)
      BY <2>1, <2>3
    <3> HIDE DEF open
    <3> QED
      BY <2>1, <2>2, <3>1, ObserveCatchesUp
  <2>4. CASE ~ desired
    <3>1. UNCHANGED <<epoch, rows, inbox, wire, queue, acked, sync, forced, noticed, chat, cached>>
      BY <2>1, <2>4
    <3>2. wire \in Seq(Outbound) /\ inbox \in Seq(Inbound) /\ epoch \in Nat
      BY NowIs DEF Shape
    <3>3. Drawn(wire', wire, noticed) /\ Drawn(wire, wire', FALSE)
      BY <3>1, <3>2, DrawnItself
    <3>4. Drawn(inbox', inbox, noticed) /\ Drawn(inbox, inbox', FALSE)
      BY <3>1, <3>2, DrawnItself
    <3>5. Drawn(Course', Course, noticed) /\ Drawn(Course, Course', FALSE)
      BY <2>1, <3>3, <3>4, CourseDrawn
    <3>6. Notices' /\ Heralded'
      BY <3>1 DEF CatchesUp, Notices, Heralded
    <3>7. \A e \in Nat : Waits(e, 0, wire, queue) => Waits(e, 0, wire', queue')
      BY <3>1
    <3>8. epoch <= epoch'
      BY <3>1, <3>2
    <3> QED
      BY <2>1, <2>2, <3>1, <3>5, <3>6, <3>7, <3>8, QuietCatchesUp
  <2> QED
    BY <2>3, <2>4
<1> QED
  BY <1>1, <1>2, <1>3

LEMMA NoFlight ==
    ASSUME NEW cs, Flight(cs) = {}
    PROVE  \A i \in DOMAIN cs : ~ Asks(cs[i])
<1> SUFFICES ASSUME NEW i \in DOMAIN cs, Asks(cs[i]) PROVE FALSE
  OBVIOUS
<1>1. cs[i].req \in Flight(cs)
  BY DEF Flight
<1> QED
  BY <1>1

LEMMA NoCourse ==
    Flight(<<>> \o <<>>) = {}
<1>1. DOMAIN (<<>> \o <<>>) = {}
  OBVIOUS
<1> QED
  BY <1>1 DEF Flight

\* The catch-up is cancelled and nothing is in flight.
LEMMA CancelledCatchesUp ==
    ASSUME Flight(Course') = {}, ~ CanCatchUp', ~ noticed',
           sync'.status = "none", sync'.req = NoReq, sync'.await = NoReq, sync'.pending = NoReq,
           ~ sync'.latest, ~ sync'.fallback,
           ~ sync'.loaded => ~ chat'.synced /\ cached' = NoRange /\ chat'.range = NoRange
                             /\ chat'.items = <<>>,
           chat'.synced => cached' = NoRange,
           \A i \in DOMAIN wire' : wire'[i].kind \in {"page", "fail"}
    PROVE  CatchesUp'
<1>1. \A i \in DOMAIN Course' : ~ Asks(Course'[i])
  BY NoFlight
<1>2. NoReq.dir = "none"
  BY DEF NoReq
<1>3. Grounds'
  BY <1>2 DEF Grounds, AllFounded, Founded
<1>4. Control'
  BY DEF Control, Controlled
<1>5. Streams'
  BY <1>1 DEF Streams, Flows, Ordered, Orderly
<1>6. Notices' /\ Heralded'
  BY DEF Notices, Heralded
<1> QED
  BY <1>3, <1>4, <1>5, <1>6 DEF CatchesUp

LEMMA EndsCatchUp ==
    ASSUME Shape, Links, CatchesUp, Lapses = {}
    PROVE  /\ CloseChat => CatchesUp'
           /\ Disconnect => CatchesUp'
           /\ Restart => CatchesUp'
<1>0. /\ ~ sync.loaded => ~ chat.synced /\ cached = NoRange /\ chat.range = NoRange /\ chat.items = <<>>
      /\ chat.synced => cached = NoRange
      /\ noticed => TailReq \in Flight(Course)
  BY DEF CatchesUp, Control, Controlled
<1>a. sync \in Syncs
  BY DEF Shape
<1>1. ASSUME CloseChat PROVE CatchesUp'
  <2>1. /\ Shape' /\ Observe(FALSE) /\ desired /\ up /\ Idle
        /\ desired' = FALSE /\ sync' = Cancelled(sync)
        /\ UNCHANGED <<epoch, rows, up, acked, forced, noticed, init, queue, chat, cached, stored>>
    BY <1>1, CloseChatShape
  <2> DEFINE open == FALSE
  <2>2. open \in BOOLEAN /\ Observe(open)
    BY <2>1
  <2> HIDE DEF open
  <2>3. /\ inbox' = Append(OfKind(inbox, {"fetch"}), [kind |-> "subscribe", open |-> open])
        /\ wire' = OfKind(wire, {"page", "fail"})
    BY <2>2, ObserveShape
  <2>4. Course' = wire' \o inbox'
    BY DEF Course
  <2>5. Drawn(Course', Course, noticed)
    BY <2>2, <2>3, <2>4, ObservedCourse
  <2>6. Flight(Course) = {}
    BY <2>1, NoCourse DEF Course, Idle
  <2>7. Flight(Course') = {}
    <3>1. Flight(Course') \subseteq Flight(Course)
      BY <2>5, DrawnFlight
    <3> QED
      BY <2>6, <3>1
  <2>8. \A i \in DOMAIN wire' : wire'[i].kind \in {"page", "fail"}
    <3>1. wire \in Seq(Outbound)
      BY DEF Shape
    <3> QED
      BY <2>3, <3>1, OfKindIs
  <2>9. ~ CanCatchUp' /\ ~ noticed'
    BY <1>0, <2>1, <2>6 DEF CanCatchUp
  <2>10. /\ sync'.status = "none" /\ sync'.req = NoReq /\ sync'.await = NoReq /\ sync'.pending = NoReq
         /\ ~ sync'.latest /\ ~ sync'.fallback /\ sync'.loaded = sync.loaded
    BY <1>a, <2>1, CancelledIs
  <2> QED
    BY <1>0, <2>1, <2>7, <2>8, <2>9, <2>10, CancelledCatchesUp
<1>2. ASSUME Disconnect PROVE CatchesUp'
  <2>1. /\ Unlinked
        /\ acked' = FALSE /\ noticed' = FALSE
        /\ sync' = Cancelled(sync)
        /\ UNCHANGED <<epoch, rows, desired, queue, chat, cached, stored>>
    BY <1>2, DisconnectShape
  <2>2. inbox' = <<>> /\ wire' = <<>>
    BY <2>1, NothingLeft
  <2>3. Flight(Course') = {}
    BY <2>2, NoCourse DEF Course
  <2>4. \A i \in DOMAIN wire' : wire'[i].kind \in {"page", "fail"}
    BY <2>2
  <2>5. ~ CanCatchUp' /\ ~ noticed'
    BY <2>1 DEF CanCatchUp
  <2>6. /\ sync'.status = "none" /\ sync'.req = NoReq /\ sync'.await = NoReq /\ sync'.pending = NoReq
        /\ ~ sync'.latest /\ ~ sync'.fallback /\ sync'.loaded = sync.loaded
    BY <1>a, <2>1, CancelledIs
  <2> QED
    BY <1>0, <2>1, <2>3, <2>4, <2>5, <2>6, CancelledCatchesUp
<1>3. ASSUME Restart PROVE CatchesUp'
  <2>1. /\ Unlinked
        /\ acked' = FALSE /\ noticed' = FALSE
        /\ sync' = NoSync /\ chat' = NoChat /\ cached' = NoRange
    BY <1>3, RestartShape
  <2>2. inbox' = <<>> /\ wire' = <<>>
    BY <2>1, NothingLeft
  <2>3. Flight(Course') = {}
    BY <2>2, NoCourse DEF Course
  <2>4. \A i \in DOMAIN wire' : wire'[i].kind \in {"page", "fail"}
    BY <2>2
  <2>5. ~ CanCatchUp' /\ ~ noticed'
    BY <2>1 DEF CanCatchUp
  <2>6. /\ sync'.status = "none" /\ sync'.req = NoReq /\ sync'.await = NoReq /\ sync'.pending = NoReq
        /\ ~ sync'.latest /\ ~ sync'.fallback
    BY <1>a, <2>1, CancelledIs
  <2>7. ~ chat'.synced /\ cached' = NoRange /\ chat'.range = NoRange /\ chat'.items = <<>>
    BY <2>1, NoChatIs
  <2> QED
    BY <2>3, <2>4, <2>5, <2>6, <2>7, CancelledCatchesUp
<1> QED
  BY <1>1, <1>2, <1>3

-----------------------------------------------------------------------------
(* Requests beside the catch-up: older history, and the latest tail that a *)
(* notice asks for.                                                        *)

LEMMA CourseTyped ==
    ASSUME Shape
    PROVE  /\ Course \in Seq(Msgs) /\ Flight(Course) \in SUBSET Reqs
           /\ wire \in Seq(Outbound) /\ inbox \in Seq(Inbound) /\ queue \in Seq(Rows)
           /\ sync \in Syncs /\ noticed \in BOOLEAN /\ Held \in Ranges /\ init \in Inits
<1>1. wire \in Seq(Outbound) /\ inbox \in Seq(Inbound)
  BY DEF Shape
<1>2. wire \in Seq(Msgs) /\ inbox \in Seq(Msgs)
  BY <1>1 DEF Msgs
<1>3. Course \in Seq(Msgs)
  BY <1>2 DEF Course
<1>4. Held \in Ranges
  BY ChatFields DEF Shape, Held, CurrentRange
<1> QED
  BY <1>1, <1>3, <1>4, FlightsIn DEF Shape

LEMMA PartTyped ==
    ASSUME NEW ws \in Seq(Outbound), NEW box \in Seq(Inbound)
    PROVE  ws \o box \in Seq(Msgs) /\ Flight(ws \o box) \in SUBSET Reqs
<1>1. ws \in Seq(Msgs) /\ box \in Seq(Msgs)
  BY DEF Msgs
<1>2. ws \o box \in Seq(Msgs)
  BY <1>1
<1> QED
  BY <1>2, FlightsIn

\* How the range, the notice and what is awaited may change.
Moves(cs, held, held2, ntc, ntc2, await, await2) ==
  /\ \A req \in Flight(cs) : req.dir = "after" /\ Spent(req, held) => Spent(req, held2)
  /\ ntc => ntc2 \/ TailReq \notin Flight(cs)
  /\ await2 = await \/ await2 \notin Flight(cs)

LEMMA CourseMoves ==
    ASSUME NEW cs, NEW held, NEW held2, NEW ntc \in BOOLEAN, NEW ntc2 \in BOOLEAN, NEW await, NEW await2,
           Moves(cs, held, held2, ntc, ntc2, await, await2)
    PROVE  /\ Ordered(cs, held, ntc, await) => Ordered(cs, held2, ntc2, await2)
           /\ Calm(cs, held, ntc) => Calm(cs, held2, ntc2)
<1>1. /\ \A req \in Flight(cs) : req.dir = "after" /\ Spent(req, held) => Spent(req, held2)
      /\ ntc => ntc2 \/ TailReq \notin Flight(cs)
      /\ await2 = await \/ await2 \notin Flight(cs)
  BY DEF Moves
<1> QED
  BY <1>1, OrderedMoves

\* Something is asked for beside the catch-up of a synced chat.
LEMMA AsideCatchesUp ==
    ASSUME Shape, Shape', CatchesUp,
           UNCHANGED <<epoch, queue, sync, chat, cached, forced, acked>>, CanCatchUp' <=> CanCatchUp,
           NEW ws \in Seq(Outbound), Thinned(ws, wire), Hears(ws, acked),
           Drawn(ws \o inbox, Course, noticed), Drawn(Course, ws \o inbox, FALSE),
           NEW req \in Reqs, Issue(req, FALSE, init, inbox, ws), Aside(req, noticed'),
           noticed => noticed', noticed' => noticed \/ req = TailReq, chat.synced,
           req.dir = "before" \/ sync.status # "none"
    PROVE  CatchesUp'
<1>0. /\ Course \in Seq(Msgs) /\ Flight(Course) \in SUBSET Reqs
      /\ wire \in Seq(Outbound) /\ inbox \in Seq(Inbound) /\ queue \in Seq(Rows)
      /\ sync \in Syncs /\ noticed \in BOOLEAN /\ Held \in Ranges /\ init \in Inits
  BY CourseTyped
<1>a. /\ noticed' \in BOOLEAN /\ wire' \in Seq(Outbound) /\ req \in Requests /\ Held' = Held
      /\ epoch \in Nat
  BY NowIs DEF Shape, Reqs, Held, CurrentRange
<1> DEFINE cs == ws \o inbox
           initialize == FALSE
<1>1. Flight(cs) = Flight(Course)
  <2>1. Flight(cs) \subseteq Flight(Course)
    BY DrawnFlight
  <2>2. Flight(Course) \subseteq Flight(cs)
    BY DrawnFlight
  <2> QED
    BY <2>1, <2>2
<1>2. cs \in Seq(Msgs)
  BY <1>0, PartTyped
<1>3. /\ Asking(wire' \o inbox', cs, req) /\ Asking(Course', cs, req)
      /\ AllAlike(wire', ws)
  <2>1. initialize \in BOOLEAN /\ (initialize => req.dir # "before")
        /\ Issue(req, initialize, init, inbox, ws)
    OBVIOUS
  <2> HIDE DEF initialize
  <2>2. Asking(wire' \o inbox', ws \o inbox, req)
    BY <1>0, <1>a, <2>1, IssueCourse
  <2>3. AllAlike(wire', ws)
    BY <1>0, <1>a, <2>1, IssueIs
  <2> QED
    BY <2>2, <2>3 DEF Course
<1> HIDE DEF cs, initialize
<1>4. Flight(Course') = Flight(Course) \cup {req}
  <2>1. Flight(Course') = IF req = NoReq THEN Flight(cs) ELSE Flight(cs) \cup {req}
    BY <1>2, <1>3, AskingFlight
  <2>2. req # NoReq
    BY ReqFields
  <2> QED
    BY <1>1, <2>1, <2>2
<1>5. /\ Ordered(Course, Held, noticed, sync.await)
      /\ sync.status \in {"complete", "error"} => Calm(Course, Held, noticed)
  BY DEF CatchesUp, Streams, Flows
<1>6. /\ Ordered(cs, Held, noticed, sync.await)
      /\ sync.status \in {"complete", "error"} => Calm(cs, Held, noticed)
  BY <1>5, OrderedDrawn DEF cs
<1>7. /\ Ordered(cs, Held, noticed', sync.await)
      /\ sync.status \in {"complete", "error"} => Calm(cs, Held, noticed')
  <2> DEFINE nt2 == noticed'
  <2>1. nt2 \in BOOLEAN /\ (noticed => nt2)
    BY <1>a
  <2> HIDE DEF nt2
  <2>2. Moves(cs, Held, Held, noticed, nt2, sync.await, sync.await)
    BY <2>1 DEF Moves
  <2>3. /\ Ordered(cs, Held, noticed, sync.await) => Ordered(cs, Held, nt2, sync.await)
        /\ Calm(cs, Held, noticed) => Calm(cs, Held, nt2)
    BY <1>0, <2>1, <2>2, CourseMoves
  <2> QED
    BY <1>6, <2>3 DEF nt2
<1>8. Streams'
  <2> DEFINE nt2 == noticed'
  <2>1. nt2 \in BOOLEAN /\ Aside(req, nt2)
    BY <1>a
  <2> HIDE DEF nt2
  <2>2. /\ Ordered(cs, Held, nt2, sync.await) => Ordered(Course', Held, nt2, sync.await)
        /\ Calm(cs, Held, nt2) => Calm(Course', Held, nt2)
    BY <1>2, <1>3, <2>1, OrderedAside
  <2>3. sync' = sync /\ Held' = Held
    BY <1>a
  <2> QED
    BY <1>7, <2>2, <2>3 DEF Streams, Flows, nt2
<1>9. Grounds'
  <2>1. AllFounded(sync, Flight(Course), Held, epoch, wire, queue)
    BY DEF CatchesUp, Grounds
  <2>2. Thinned(wire', wire)
    <3>1. Thinned(wire', ws)
      BY <1>3, <1>a, ThinnedAlike
    <3> QED
      BY <1>0, <1>a, <3>1, ThinnedThinned
  <2>3. \A e \in Nat : e <= epoch /\ Waits(e, 0, wire, queue) => Waits(e, 0, wire', queue)
    BY <1>0, <1>a, <2>2, WaitsThinned
  <2>4. Advances(Held, epoch, wire, queue, Held, epoch, wire', queue)
    BY <1>0, <1>a, <2>3, AdvancesStay
  <2>5. AllFounded(sync, Flight(Course), Held, epoch, wire', queue)
    BY <1>0, <1>a, <2>1, <2>4, GroundsMove
  <2>6. req.dir # "after"
    BY DEF Aside, TailReq
  <2>7. AllFounded(sync, Flight(Course'), Held, epoch, wire', queue)
    BY <1>4, <2>5, <2>6 DEF AllFounded, Founded
  <2> QED
    BY <1>a, <2>7 DEF Grounds
<1>10. Control'
  <2>1. Controlled(sync, chat, cached, Flight(Course), CanCatchUp, forced, noticed)
    BY DEF CatchesUp, Control
  <2>2. Controlled(sync', chat', cached', Flight(Course'), CanCatchUp', forced', noticed')
    BY <1>4, <2>1 DEF Controlled
  <2> QED
    BY <2>2 DEF Control
<1>11. Notices' /\ Heralded'
  <2>1. Notices'
    BY DEF Notices
  <2>2. Hears(wire', acked)
    BY <1>3, HearsAlike
  <2> QED
    BY <2>1, <2>2 DEF Heralded, Hears
<1> QED
  BY <1>8, <1>9, <1>10, <1>11 DEF CatchesUp

LEMMA LoadOlderCatchesUp ==
    ASSUME Shape, CatchesUp, LoadOlder
    PROVE  CatchesUp'
<1> DEFINE req == BeforeReq(chat.range.epoch, chat.range.start)
<1>1. /\ Shape' /\ up /\ chat.synced /\ chat.range # NoRange
      /\ req \in Reqs /\ req.dir = "before"
      /\ Issue(req, FALSE, init, inbox, wire)
      /\ UNCHANGED <<daemonVars, up, desired, acked, subRetry, sync, forced, noticed,
                     queue, chat, cached, stored>>
  BY LoadOlderShape
<1> HIDE DEF req
<1>2. wire \in Seq(Outbound) /\ inbox \in Seq(Inbound)
  BY DEF Shape
<1>3. Drawn(wire, wire, noticed) /\ Drawn(wire, wire, FALSE)
  BY <1>2, DrawnItself
<1>4. Drawn(inbox, inbox, noticed) /\ Drawn(inbox, inbox, FALSE)
  BY <1>2, DrawnItself
<1>5. Drawn(wire \o inbox, Course, noticed) /\ Drawn(Course, wire \o inbox, FALSE)
  BY <1>2, <1>3, <1>4, DrawnTogether DEF Course
<1>6. Thinned(wire, wire) /\ Hears(wire, acked)
  BY <1>2, ThinnedItself, HeraldedIs DEF CatchesUp
<1>7. Aside(req, noticed') /\ (CanCatchUp' <=> CanCatchUp)
  BY <1>1 DEF Aside, CanCatchUp
<1>8. UNCHANGED <<epoch, queue, sync, chat, cached, forced, acked>> /\ noticed' = noticed
  BY <1>1 DEF daemonVars
<1>9. (noticed => noticed') /\ (noticed' => noticed \/ req = TailReq)
  BY <1>8
<1>10. (req.dir = "before" \/ sync.status # "none") /\ wire \in Seq(Outbound)
  BY <1>1, <1>2
<1> QED
  BY <1>1, <1>5, <1>6, <1>7, <1>8, <1>9, <1>10, AsideCatchesUp

LEMMA ReceiveNoticeCatchesUp ==
    ASSUME Shape, Links, CatchesUp, ReceiveNotice
    PROVE  CatchesUp'
<1>1. /\ Shape' /\ wire # <<>> /\ Head(wire).kind = "notice"
      /\ noticed' = TRUE /\ Issue(TailReq, FALSE, init, inbox, Tail(wire))
      /\ UNCHANGED <<daemonVars, up, desired, acked, subRetry, sync, forced, queue, chat,
                     cached, stored, faults>>
  BY ReceiveNoticeShape
<1>2. wire \in Seq(Outbound) /\ inbox \in Seq(Inbound)
  BY DEF Shape
<1>3. Tail(wire) \in Seq(Outbound) /\ Thinned(Tail(wire), wire) /\ Head(wire) = wire[1] /\ 1 \in DOMAIN wire
  BY <1>1, <1>2, ThinnedTail
<1>4. ~ Asks(wire[1]) /\ wire[1].kind = "notice"
  BY <1>1, <1>3 DEF Asks
<1>5. Drawn(Tail(wire), wire, noticed) /\ Drawn(wire, Tail(wire), FALSE)
  BY <1>1, <1>2, <1>4, DrawnTail
<1>6. Drawn(inbox, inbox, noticed) /\ Drawn(inbox, inbox, FALSE)
  BY <1>2, DrawnItself
<1>7. Drawn(Tail(wire) \o inbox, Course, noticed) /\ Drawn(Course, Tail(wire) \o inbox, FALSE)
  BY <1>2, <1>3, <1>5, <1>6, DrawnTogether DEF Course
<1>8. Hears(Tail(wire), acked)
  BY <1>1, <1>2, <1>4, HearsTail, HeraldedIs DEF CatchesUp
<1>9. chat.synced
  BY <1>3, <1>4 DEF CatchesUp, Notices
<1>10. acked
  <2>1. acked \/ \E j \in DOMAIN wire : j < 1 /\ wire[j].kind = "subscribed"
    BY <1>3, <1>4 DEF CatchesUp, Heralded
  <2>2. \A j \in DOMAIN wire : ~ (j < 1)
    BY <1>2
  <2> QED
    BY <2>1, <2>2
<1>11. up /\ desired
  <2>1. subscribed
    BY <1>3, <1>4 DEF Links
  <2> QED
    BY <1>1, <2>1 DEF Links
<1>12. sync.status # "none"
  BY <1>9, <1>10, <1>11 DEF CatchesUp, Control, Controlled, CanCatchUp
<1>13. Aside(TailReq, noticed') /\ (CanCatchUp' <=> CanCatchUp) /\ TailReq \in Reqs
  BY <1>1 DEF Aside, CanCatchUp, Reqs, Requests, TailReq, NoReq
<1>14. UNCHANGED <<epoch, queue, sync, chat, cached, forced, acked>>
  BY <1>1 DEF daemonVars
<1> DEFINE req == TailReq  ws == Tail(wire)
<1>15. /\ ws \in Seq(Outbound) /\ Thinned(ws, wire) /\ Hears(ws, acked)
       /\ Drawn(ws \o inbox, Course, noticed) /\ Drawn(Course, ws \o inbox, FALSE)
       /\ req \in Reqs /\ Issue(req, FALSE, init, inbox, ws) /\ Aside(req, noticed')
       /\ (noticed => noticed') /\ (noticed' => noticed \/ req = TailReq)
       /\ (req.dir = "before" \/ sync.status # "none")
  BY <1>1, <1>3, <1>7, <1>8, <1>12, <1>13
<1> HIDE DEF req, ws
<1> QED
  BY <1>1, <1>9, <1>13, <1>14, <1>15, AsideCatchesUp

LEMMA FoundedNone ==
    ASSUME NEW held, NEW ep, NEW ws, NEW q
    PROVE  Founded(NoReq, held, ep, ws, q) /\ Founded(TailReq, held, ep, ws, q)
BY DEF Founded, NoReq, TailReq

LEMMA ReceiveFailureCatchesUp ==
    ASSUME Shape, CatchesUp, ReceiveFailure
    PROVE  CatchesUp'
<1> DEFINE owned == CanCatchUp /\ sync.status = "running" /\ sync.await = Msg.req
           req == Msg.req
<1>1. /\ Shape' /\ Thinned(wire', wire) /\ wire # <<>> /\ Msg.kind = "fail" /\ req \in Reqs
      /\ wire' = Tail(wire)
      /\ sync' = IF owned THEN Failed(sync) ELSE sync
      /\ forced' = (forced /\ req # TailReq) /\ noticed' = (noticed /\ req # TailReq)
      /\ UNCHANGED <<daemonVars, up, inbox, desired, acked, subRetry, queue, chat, cached,
                     stored, faults>>
  BY ReceiveFailureShape
<1>2. /\ Course \in Seq(Msgs) /\ Flight(Course) \in SUBSET Reqs
      /\ wire \in Seq(Outbound) /\ inbox \in Seq(Inbound) /\ queue \in Seq(Rows)
      /\ sync \in Syncs /\ noticed \in BOOLEAN /\ Held \in Ranges
  BY CourseTyped
<1>3. wire[1] = Msg /\ Msg.kind = "fail" /\ 1 \in DOMAIN wire
      /\ Tail(wire) \in Seq(Outbound) /\ Thinned(Tail(wire), wire)
  BY <1>1, <1>2, ThinnedTail DEF Msg
<1>4. wire[1].req = req /\ wire[1].kind # "subscribed" /\ Asks(wire[1])
  BY <1>3 DEF Asks
<1>5. Course = wire \o inbox /\ Course' = Tail(wire) \o inbox
  BY <1>1 DEF Course
<1>6. /\ Ordered(Course, Held, noticed, sync.await)
      /\ sync.status \in {"complete", "error"} => Calm(Course, Held, noticed)
  BY DEF CatchesUp, Streams, Flows
<1>7. /\ Flight(Course') = Flight(Course) \ {req}
      /\ Ordered(Course', Held, noticed, sync.await)
      /\ req = sync.await => Calm(Course', Held, noticed)
      /\ Calm(Course, Held, noticed) => Calm(Course', Held, noticed)
  <2>1. Ordered(wire \o inbox, Held, noticed, sync.await)
    BY <1>5, <1>6
  <2>2. /\ Flight(Tail(wire) \o inbox) = Flight(wire \o inbox) \ {wire[1].req}
        /\ Ordered(Tail(wire) \o inbox, Held, noticed, sync.await)
        /\ wire[1].req = sync.await => Calm(Tail(wire) \o inbox, Held, noticed)
        /\ Calm(wire \o inbox, Held, noticed) => Calm(Tail(wire) \o inbox, Held, noticed)
    BY <1>1, <1>2, <1>4, <2>1, HeadTaken
  <2> QED
    BY <1>4, <1>5, <2>2
<1>8. Controlled(sync, chat, cached, Flight(Course), CanCatchUp, forced, noticed)
  BY DEF CatchesUp, Control
<1>9. AllFounded(sync, Flight(Course), Held, epoch, wire, queue)
  BY DEF CatchesUp, Grounds
<1>10. /\ Failed(sync) \in Syncs /\ Failed(sync).status = "error" /\ Failed(sync).await = NoReq
       /\ ~ Failed(sync).latest /\ ~ Failed(sync).fallback /\ Failed(sync).pending = sync.pending
       /\ Failed(sync).loaded = sync.loaded /\ Failed(sync).req \in {sync.req, sync.await}
  BY <1>2, FailedIs
<1>11. /\ Held' = Held /\ noticed' \in BOOLEAN /\ (CanCatchUp' <=> CanCatchUp)
       /\ UNCHANGED <<epoch, queue, chat, cached, acked>> /\ epoch \in Nat
       /\ NoReq \notin Flight(Course')
  BY <1>1, <1>2, <1>7, NowIs DEF Held, CurrentRange, CanCatchUp, daemonVars, Shape, Reqs
<1>12. sync'.await = sync.await \/ sync'.await = NoReq
  BY <1>1, <1>10
<1> HIDE DEF owned
<1>13. Streams'
  <2>1. Moves(Course', Held, Held, noticed, noticed', sync.await, sync'.await)
    BY <1>1, <1>7, <1>11, <1>12 DEF Moves
  <2> DEFINE nt2 == noticed'  aw2 == sync'.await  cs == Course'
  <2>2. Moves(cs, Held, Held, noticed, nt2, sync.await, aw2) /\ nt2 \in BOOLEAN
    BY <1>11, <2>1
  <2>3. /\ Ordered(cs, Held, noticed, sync.await)
        /\ req = sync.await => Calm(cs, Held, noticed)
        /\ Calm(Course, Held, noticed) => Calm(cs, Held, noticed)
    BY <1>7
  <2> HIDE DEF nt2, aw2, cs
  <2>4. /\ Ordered(cs, Held, noticed, sync.await) => Ordered(cs, Held, nt2, aw2)
        /\ Calm(cs, Held, noticed) => Calm(cs, Held, nt2)
    BY <1>2, <2>2, CourseMoves
  <2>5. ASSUME sync'.status \in {"complete", "error"} PROVE Calm(cs, Held, nt2)
    <3>1. CASE owned
      BY <2>3, <2>4, <3>1 DEF owned
    <3>2. CASE ~ owned
      BY <1>1, <1>6, <2>3, <2>4, <2>5, <3>2
    <3> QED
      BY <3>1, <3>2
  <2>6. Ordered(cs, Held, nt2, aw2)
    BY <2>3, <2>4
  <2> QED
    BY <1>11, <2>5, <2>6 DEF Streams, Flows, nt2, aw2, cs
<1>14. Grounds'
  <2>1. \A e \in Nat : e <= epoch /\ Waits(e, 0, wire, queue) => Waits(e, 0, Tail(wire), queue)
    BY <1>2, <1>3, WaitsThinned
  <2>2. Advances(Held, epoch, wire, queue, Held, epoch, Tail(wire), queue)
    BY <1>2, <1>11, <2>1, AdvancesStay
  <2>3. AllFounded(sync, Flight(Course), Held, epoch, Tail(wire), queue)
    BY <1>2, <1>3, <1>9, <1>11, <2>2, GroundsMove
  <2>4. AllFounded(sync', Flight(Course'), Held, epoch, Tail(wire), queue)
    BY <1>1, <1>7, <1>10, <2>3, FoundedNone DEF AllFounded
  <2> QED
    BY <1>1, <1>11, <2>4 DEF Grounds
<1>15. Control'
  <2>1. CASE owned
    <3>0. ~ chat.synced =>
            Failed(sync).req = IF cached = NoRange THEN TailReq ELSE AfterReq(cached.epoch, cached.end)
      <4>1. Failed(sync).req = IF sync.latest THEN sync.req ELSE sync.await
        BY <1>2, FailedIs
      <4>2. sync.status = "running" /\ sync.await \in Flight(Course)
        BY <1>8, <2>1 DEF owned, Controlled
      <4> QED
        BY <1>8, <4>1, <4>2 DEF Controlled
    <3>1. Controlled(Failed(sync), chat, cached, Flight(Course) \ {req}, CanCatchUp, forced', noticed')
      BY <1>1, <1>8, <1>10, <2>1, <3>0 DEF Controlled, owned
    <3> QED
      BY <1>1, <1>7, <1>11, <2>1, <3>1 DEF Control, Controlled
  <2>2. CASE ~ owned
    <3>1. sync.status = "running" => sync.await # req
      BY <1>8, <2>2 DEF Controlled, owned
    <3>2. sync.latest => forced'
      BY <1>1, <1>8, <3>1 DEF Controlled
    <3>3. Controlled(sync, chat, cached, Flight(Course) \ {req}, CanCatchUp, forced', noticed')
      BY <1>1, <1>8, <3>1, <3>2 DEF Controlled
    <3> QED
      BY <1>1, <1>7, <1>11, <2>2, <3>3 DEF Control, Controlled
  <2> QED
    BY <2>1, <2>2
<1>16. Notices' /\ Heralded'
  <2>1. \A i \in DOMAIN wire : wire[i].kind = "notice" => chat.synced
    BY DEF CatchesUp, Notices
  <2>2. \A i \in DOMAIN Tail(wire) : Tail(wire)[i].kind = "notice" => chat.synced
    BY <1>2, <1>3, <2>1, NoticesThinned
  <2>3. Hears(Tail(wire), acked)
    BY <1>1, <1>2, <1>4, HearsTail, HeraldedIs DEF CatchesUp
  <2> QED
    BY <1>1, <1>11, <2>2, <2>3 DEF Notices, Heralded, Hears
<1> QED
  BY <1>13, <1>14, <1>15, <1>16 DEF CatchesUp

-----------------------------------------------------------------------------
(* Starts of the catch-up.                                                 *)

\* What holds of the catch-up whatever can run.
Regular(s, c, ca, fl, frc, ntc) ==
  /\ s.status = "running" => s.await # NoReq /\ s.req # NoReq /\ s.await \in fl
  /\ s.status = "none" => \A r \in fl : r.dir = "before"
  /\ s.status # "running" => s.await = NoReq /\ ~ s.latest /\ ~ s.fallback
  /\ s.status \in {"none", "complete"} => s.req = NoReq
  /\ s.latest => frc /\ s.await = TailReq
  /\ ntc => TailReq \in fl /\ c.synced
  /\ ~ s.loaded => ~ c.synced /\ ca = NoRange /\ c.range = NoRange /\ c.items = <<>>
  /\ c.synced => ca = NoRange
  /\ ~ c.synced => s.pending = NoReq
  /\ ~ c.synced /\ s.status = "running" => s.await = TailReq \/ s.fallback
  /\ ~ c.synced /\ ca = NoRange => fl \subseteq {TailReq}
  /\ ~ c.synced /\ ca # NoRange =>
       \A r \in fl : (r = TailReq /\ s.latest) \/ r = AfterReq(ca.epoch, ca.end)
  /\ ~ c.synced /\ s.status \in {"running", "error"} =>
       s.req = IF ca = NoRange THEN TailReq ELSE AfterReq(ca.epoch, ca.end)
  /\ s.status = "complete" => c.synced /\ ~ c.newer /\ s.pending = NoReq

LEMMA ControlledIs ==
    ASSUME NEW s, NEW c, NEW ca, NEW fl, NEW can, NEW frc, NEW ntc
    PROVE  Controlled(s, c, ca, fl, can, frc, ntc) <=>
             (s.status # "none" <=> can /\ s.loaded) /\ Regular(s, c, ca, fl, frc, ntc)
BY DEF Controlled, Regular

\* The request that a catch-up of what is held starts with.
Base(held) == IF held = NoRange THEN TailReq ELSE AfterReq(held.epoch, held.end)

\* The flight with what is asked for.
With(fl, fetch) == IF fetch = NoReq THEN fl ELSE fl \cup {fetch}

\* The start of a catch-up leaves things as they should be.
LEMMA RegularStart ==
    ASSUME NEW s \in Syncs, NEW c \in Chats, NEW ca \in Ranges, NEW fl \in SUBSET Reqs,
           NEW can \in BOOLEAN, NEW frc, NEW ntc \in BOOLEAN, Regular(s, c, ca, fl, frc, ntc),
           s.status # "none" => can /\ s.loaded,
           NEW resume \in CatchUps, NEW req \in CatchUps, NEW supersede \in BOOLEAN,
           NEW next, next = IF req = NoReq THEN resume ELSE req, next # NoReq,
           NEW d, Starting(s, can, resume, req, supersede, next, d),
           ~ c.synced => next = Base(ca) /\ (req = NoReq \/ (next = TailReq /\ s.status = "error"))
    PROVE  Controlled(d.sync, c, ca, With(fl, d.fetch), can, frc, ntc)
<1> DEFINE fl2 == With(fl, d.fetch)
<1>1. CASE ~ can \/ ~ s.loaded
  <2>1. s.status = "none"
    BY <1>1
  <2>2. /\ d.fetch = NoReq /\ AsBefore(d.sync, s)
        /\ d.sync.pending = IF req = NoReq THEN s.pending ELSE req
    BY <1>1 DEF Starting
  <2>3. ~ c.synced => req = NoReq
    BY <2>1
  <2> QED
    BY <1>1, <2>1, <2>2, <2>3 DEF Controlled, Regular, AsBefore, With
<1>2. CASE /\ can /\ s.loaded /\ supersede
           /\ s.status = "running" /\ s.req.dir = "tail" /\ s.req # next
           /\ d.fetch = NoReq /\ AsBefore(d.sync, s) /\ d.sync.pending = next
  <2>1. c.synced
    BY <1>2 DEF Regular, Base
  <2> QED
    BY <1>2, <2>1 DEF Controlled, Regular, AsBefore, With
<1>3. CASE can /\ s.loaded /\ d.fetch = NoReq /\ d.sync = s /\ s.status # "none"
  BY <1>3 DEF Controlled, Regular, With
<1>4. CASE /\ can /\ s.loaded
           /\ supersede => ~ (s.status = "running" /\ (s.req = next \/ s.req.dir = "tail"))
           /\ ~ supersede => s.status \in {"none", "error"}
           /\ d.fetch = next /\ Begun(d.sync, req, resume)
  <2>1. /\ d.sync.status = "running" /\ d.sync.req = next /\ d.sync.await = next
        /\ (d.sync.fallback <=> req = NoReq /\ next.dir = "after")
        /\ d.sync.latest = FALSE /\ d.sync.pending = NoReq /\ d.sync.loaded = TRUE
    BY <1>4 DEF Begun
  <2>2. With(fl, d.fetch) = fl \cup {next} /\ next \in fl \cup {next}
    BY <1>4 DEF With
  <2>3. ASSUME ~ c.synced
        PROVE  /\ ~ s.latest /\ next = Base(ca)
               /\ next = TailReq \/ d.sync.fallback
    <3>1. s.status # "running"
      BY <1>4, <2>3 DEF Regular, Base
    <3>2. ~ s.latest
      BY <3>1 DEF Regular
    <3>3. next = TailReq \/ d.sync.fallback
      BY <2>1, <2>3 DEF Base, AfterReq
    <3> QED
      BY <2>3, <3>2, <3>3
  <2>4. ASSUME ~ c.synced, ca = NoRange
        PROVE  fl \cup {next} \subseteq {TailReq}
    BY <2>3, <2>4 DEF Base, Regular
  <2>5. ASSUME ~ c.synced, ca # NoRange, NEW r \in fl \cup {next}
        PROVE  r = AfterReq(ca.epoch, ca.end)
    BY <2>3, <2>5 DEF Base, Regular
  <2>6. /\ ntc => TailReq \in fl \cup {next} /\ c.synced
        /\ c.synced => ca = NoRange
    BY DEF Regular
  <2>7. ~ c.synced => next = IF ca = NoRange THEN TailReq ELSE AfterReq(ca.epoch, ca.end)
    BY <2>3 DEF Base
  <2> QED
    BY <1>4, <2>1, <2>2, <2>3, <2>4, <2>5, <2>6, <2>7 DEF Controlled
<1> QED
  BY <1>1, <1>2, <1>3, <1>4 DEF Starting

\* What is held can always be asked to go on.
LEMMA BaseApt ==
    ASSUME NEW held \in Ranges, NEW cs, Flight(cs) \in SUBSET Reqs, NEW ntc, NEW s, NEW ep, NEW ws, NEW q,
           AllFounded(s, Flight(cs), held, ep, ws, q)
    PROVE  /\ Apt(Base(held), cs, held, ntc) /\ Founded(Base(held), held, ep, ws, q)
           /\ Base(held) \in CatchUps \ {NoReq}
<1>1. CASE held = NoRange
  <2>1. Base(held) = TailReq
    BY <1>1 DEF Base
  <2> QED
    BY <1>1, <2>1, FoundedNone, CatchUpFields DEF Apt, CatchUps
<1>2. CASE held # NoRange
  <2>1. Base(held) = AfterReq(held.epoch, held.end)
    BY <1>2 DEF Base
  <2>2. /\ Base(held) \in CatchUps \ {NoReq} /\ Base(held).dir = "after"
        /\ Base(held).epoch = held.epoch /\ Base(held).seq = held.end
    BY <1>2, <2>1, AfterReqIs
  <2>3. held.epoch \in Nat /\ held.end \in Nat
    BY RangeFields
  <2>4. ASSUME NEW r \in Flight(cs), r.dir = "after"
        PROVE  Upto(r.epoch, r.seq, held.epoch, held.end)
    BY <1>2, <2>4 DEF AllFounded, Founded
  <2>5. Behind(Base(held), cs, held)
    BY <1>2, <2>2, <2>3, <2>4 DEF Behind, Spent
  <2>6. Founded(Base(held), held, ep, ws, q)
    BY <1>2, <2>2, <2>3 DEF Founded, Upto
  <2> QED
    BY <2>2, <2>5, <2>6 DEF Apt
<1> QED
  BY <1>1, <1>2

\* A start that fits what is in flight.
LEMMA FlowsStart ==
    ASSUME NEW s \in Syncs, NEW cs \in Seq(Msgs), Flight(cs) \in SUBSET Reqs, NEW held,
           NEW ntc \in BOOLEAN, Flows(cs, held, ntc, s),
           NEW can, NEW resume, NEW req, NEW supersede, NEW next \in CatchUps, next # NoReq,
           NEW d, Starting(s, can, resume, req, supersede, next, d),
           next = IF req = NoReq THEN resume ELSE req,
           d.fetch # NoReq => Apt(next, cs, held, ntc),
           NEW cs2, Asking(cs2, cs, d.fetch)
    PROVE  Flows(cs2, held, ntc, d.sync)
<1>1. CASE d.fetch = NoReq
  <2>1. AsBefore(d.sync, s)
    BY <1>1 DEF Starting, AsBefore
  <2>2. AllAlike(cs2, cs)
    <3>1. ~ Adds(cs2, cs, d.fetch)
      BY <1>1 DEF Adds
    <3> QED
      BY <3>1 DEF Asking, Shares
  <2>3. Drawn(cs2, cs, ntc)
    <3>1. cs2 \in Seq(Msgs) \/ TRUE
      OBVIOUS
    <3>2. \A i \in DOMAIN cs2 : Asks(cs2[i]) => Like(cs2[i], cs[i], ntc) /\ i \in DOMAIN cs
      BY <2>2 DEF AllAlike, Alike, Asks, Like
    <3> DEFINE f == [i \in DOMAIN cs2 |-> i]
    <3>3. Drawing(f, cs2, cs, ntc)
      BY <3>2 DEF Drawing
    <3> HIDE DEF f
    <3> QED
      BY <3>3 DEF Drawn
  <2> QED
    BY <2>1, <2>3, OrderedDrawn DEF Flows, AsBefore
<1>2. CASE d.fetch # NoReq
  <2>1. d.fetch = next /\ Begun(d.sync, req, resume)
    BY <1>2 DEF Starting
  <2>2. d.sync.status = "running" /\ d.sync.await = next
    BY <2>1 DEF Begun
  <2>3. next \in Reqs
    BY CatchUpFields DEF Reqs
  <2>4. Ordered(cs2, held, ntc, next)
    BY <1>2, <2>1, <2>3, OrderedIssue DEF Flows
  <2> QED
    BY <2>2, <2>4 DEF Flows
<1> QED
  BY <1>1, <1>2

LEMMA GroundsStart ==
    ASSUME NEW s \in Syncs, NEW fl, NEW held, NEW ep, NEW ws, NEW q, AllFounded(s, fl, held, ep, ws, q),
           NEW can, NEW resume, NEW req, NEW supersede, NEW next, Founded(next, held, ep, ws, q),
           NEW d, Starting(s, can, resume, req, supersede, next, d),
           next = IF req = NoReq THEN resume ELSE req
    PROVE  AllFounded(d.sync, With(fl, d.fetch), held, ep, ws, q)
<1>1. /\ d.sync.req \in {s.req, next} /\ d.sync.await \in {s.await, next}
      /\ d.sync.pending \in {s.pending, next, NoReq} /\ d.fetch \in {NoReq, next}
  BY DEF Starting, AsBefore, Begun
<1> QED
  BY <1>1, FoundedNone DEF AllFounded, With

\* The catch-up stays as it is, or a start of it fits what is held and in flight.
Goes(s, can, d, c, ca, cs, held, ntc, ep, ws, q) ==
  \/ d.fetch = NoReq /\ d.sync = s /\ (s.status # "none" <=> can /\ s.loaded)
  \/ \E resume, req \in CatchUps, supersede \in BOOLEAN, next \in CatchUps :
       /\ next = (IF req = NoReq THEN resume ELSE req) /\ next # NoReq
       /\ Starting(s, can, resume, req, supersede, next, d)
       /\ ~ c.synced => next = Base(ca) /\ (req = NoReq \/ (next = TailReq /\ s.status = "error"))
       /\ Apt(next, cs, held, ntc)
       /\ Founded(next, held, ep, ws, q)

\* A start that fits leaves the catch-up in order.
LEMMA GoneOn ==
    ASSUME NEW s \in Syncs, NEW c \in Chats, NEW ca \in Ranges,
           NEW cs \in Seq(Msgs), Flight(cs) \in SUBSET Reqs, NEW can \in BOOLEAN, NEW frc,
           NEW ntc \in BOOLEAN, NEW held, NEW ep, NEW ws, NEW q,
           Regular(s, c, ca, Flight(cs), frc, ntc), s.status # "none" => can /\ s.loaded,
           Flows(cs, held, ntc, s), AllFounded(s, Flight(cs), held, ep, ws, q),
           NEW d, Goes(s, can, d, c, ca, cs, held, ntc, ep, ws, q),
           NEW cs2, Asking(cs2, cs, d.fetch)
    PROVE  /\ Controlled(d.sync, c, ca, Flight(cs2), can, frc, ntc)
           /\ Flows(cs2, held, ntc, d.sync)
           /\ AllFounded(d.sync, Flight(cs2), held, ep, ws, q)
<1> DEFINE fl == Flight(cs)
<1>1. Flight(cs2) = With(fl, d.fetch) /\ fl \in SUBSET Reqs
  BY AskingFlight DEF With
<1> HIDE DEF fl
<1>2. CASE d.fetch = NoReq /\ d.sync = s /\ (s.status # "none" <=> can /\ s.loaded)
  <2>1. Flight(cs2) = fl
    BY <1>1, <1>2 DEF With
  <2>2. Regular(s, c, ca, fl, frc, ntc) /\ AllFounded(s, fl, held, ep, ws, q)
    BY DEF fl
  <2>3. Controlled(s, c, ca, fl, can, frc, ntc)
    BY <1>2, <2>2, ControlledIs
  <2>4. Drawn(cs2, cs, ntc)
    <3>1. AllAlike(cs2, cs)
      BY <1>2 DEF Asking, Shares, Adds
    <3>2. Drawn(cs, cs2, ntc) /\ Drawn(cs2, cs, ntc)
      <4>1. \A i \in DOMAIN cs : Asks(cs2[i]) <=> Asks(cs[i])
        BY <3>1 DEF AllAlike, Alike, Asks
      <4> DEFINE f == [i \in DOMAIN cs |-> i]
      <4>2. \A i, j \in DOMAIN cs : i < j => f[i] < f[j]
        OBVIOUS
      <4>3. Drawing(f, cs2, cs, ntc) /\ Drawing(f, cs, cs2, ntc)
        BY <3>1, <4>1, <4>2 DEF Drawing, Like, AllAlike, Alike
      <4> QED
        BY <4>3 DEF Drawn
    <3> QED
      BY <3>2
  <2>5. Flows(cs2, held, ntc, s)
    BY <2>4, OrderedDrawn DEF Flows
  <2> QED
    BY <1>2, <2>1, <2>2, <2>3, <2>5
<1>3. ASSUME NEW resume \in CatchUps, NEW req \in CatchUps, NEW supersede \in BOOLEAN, NEW next \in CatchUps,
             next = (IF req = NoReq THEN resume ELSE req), next # NoReq,
             Starting(s, can, resume, req, supersede, next, d),
             ~ c.synced => next = Base(ca) /\ (req = NoReq \/ (next = TailReq /\ s.status = "error")),
             Apt(next, cs, held, ntc), Founded(next, held, ep, ws, q)
      PROVE  /\ Controlled(d.sync, c, ca, With(fl, d.fetch), can, frc, ntc)
             /\ Flows(cs2, held, ntc, d.sync)
             /\ AllFounded(d.sync, With(fl, d.fetch), held, ep, ws, q)
  <2>1. Regular(s, c, ca, fl, frc, ntc) /\ AllFounded(s, fl, held, ep, ws, q)
    BY DEF fl
  <2>2. Controlled(d.sync, c, ca, With(fl, d.fetch), can, frc, ntc)
    BY <1>1, <1>3, <2>1, RegularStart
  <2>3. Flows(cs2, held, ntc, d.sync)
    BY <1>3, FlowsStart
  <2>4. AllFounded(d.sync, With(fl, d.fetch), held, ep, ws, q)
    BY <1>3, <2>1, GroundsStart
  <2> QED
    BY <2>2, <2>3, <2>4
<1> QED
  BY <1>1, <1>2, <1>3 DEF Goes

\* An action that starts the catch-up, or leaves it, and thins what is on its way.
LEMMA GoneCatchesUp ==
    ASSUME Shape, Shape', CatchesUp, UNCHANGED <<epoch, forced, noticed>>,
           NEW ws \in Seq(Outbound), NEW box \in Seq(Inbound),
           Drawn(ws \o box, Course, noticed), Drawn(Course, ws \o box, FALSE),
           \/ Advances(Held, epoch, wire, queue, Held', epoch, ws, queue')
           \/ Flight(Course) = {} /\ sync.req = NoReq /\ sync.await = NoReq /\ sync.pending = NoReq,
           NEW s \in Syncs, s.status = sync.status, s.req = sync.req, s.await = sync.await,
           s.pending = sync.pending,
           Regular(s, chat', cached', Flight(Course), forced, noticed),
           s.status # "none" => CanCatchUp' /\ s.loaded,
           NEW d, d.fetch \in CatchUps, sync' = d.sync,
           AllFounded(s, Flight(ws \o box), Held', epoch, ws, queue') =>
             Goes(s, CanCatchUp', d, chat', cached', ws \o box, Held', noticed, epoch, ws, queue'),
           NEW initialize \in BOOLEAN, Issue(d.fetch, initialize, init, box, ws),
           Hears(ws, acked'), \A i \in DOMAIN ws : ws[i].kind = "notice" => chat'.synced
    PROVE  CatchesUp'
<1> DEFINE cs == ws \o box  cs2 == Course'  h2 == Held'  q2 == queue'  c2 == chat'  ca2 == cached'
           can2 == CanCatchUp'
<1>1. /\ Course \in Seq(Msgs) /\ Flight(Course) \in SUBSET Reqs
      /\ wire \in Seq(Outbound) /\ inbox \in Seq(Inbound) /\ queue \in Seq(Rows)
      /\ sync \in Syncs /\ noticed \in BOOLEAN /\ Held \in Ranges /\ init \in Inits /\ epoch \in Nat
  BY CourseTyped, NowIs
<1>2. /\ h2 \in Ranges /\ q2 \in Seq(Rows) /\ c2 \in Chats /\ ca2 \in Ranges /\ can2 \in BOOLEAN
  BY CourseTyped DEF Shape, Held, CurrentRange, ChatFields, Chats, CanCatchUp
<1>3. cs \in Seq(Msgs) /\ Flight(cs) \in SUBSET Reqs
  BY PartTyped
<1>4. Asking(cs2, cs, d.fetch)
  <2>1. d.fetch \in Requests /\ (initialize => d.fetch.dir # "before")
    BY CatchUpFields
  <2>2. Asking(wire' \o inbox', ws \o box, d.fetch)
    BY <1>1, <2>1, IssueCourse
  <2> QED
    BY <2>2 DEF Course
<1>5. Flight(cs) = Flight(Course)
  <2>1. Flight(cs) \subseteq Flight(Course)
    BY DrawnFlight
  <2>2. Flight(Course) \subseteq Flight(cs)
    BY DrawnFlight
  <2> QED
    BY <2>1, <2>2
<1>6. /\ Ordered(Course, Held, noticed, sync.await)
      /\ sync.status \in {"complete", "error"} => Calm(Course, Held, noticed)
      /\ AllFounded(sync, Flight(Course), Held, epoch, wire, queue)
  BY DEF CatchesUp, Streams, Flows, Grounds
<1>7. /\ Drawn(cs, Course, noticed)
      /\ \/ Advances(Held, epoch, wire, queue, h2, epoch, ws, q2)
         \/ Flight(Course) = {} /\ sync.req = NoReq /\ sync.await = NoReq /\ sync.pending = NoReq
  OBVIOUS
<1>8. /\ Regular(s, c2, ca2, Flight(cs), forced, noticed)
      /\ s.status # "none" => can2 /\ s.loaded
      /\ AllFounded(s, Flight(cs), h2, epoch, ws, q2) =>
           Goes(s, can2, d, c2, ca2, cs, h2, noticed, epoch, ws, q2)
  BY <1>5
<1>9. /\ wire' \in Seq(Outbound) /\ AllAlike(wire', ws)
  <2>1. d.fetch \in Requests /\ (initialize => d.fetch.dir # "before")
    BY CatchUpFields
  <2> QED
    BY <1>1, <2>1, IssueIs
<1> HIDE DEF cs, cs2, h2, q2, c2, ca2, can2
<1>10. /\ AllFounded(s, Flight(cs), h2, epoch, ws, q2)
       /\ \A r \in Flight(cs) : r.dir = "after" /\ Spent(r, Held) => Spent(r, h2)
  <2>1. AllFounded(s, Flight(Course), Held, epoch, wire, queue)
    BY <1>6 DEF AllFounded
  <2> QED
    <3>1. AllFounded(s, Flight(cs), Held, epoch, wire, queue)
      BY <1>5, <2>1
    <3>2. epoch \in Nat /\ Held \in Ranges /\ h2 \in Ranges /\ q2 \in Seq(Rows) /\ Flight(cs) \in SUBSET Reqs
      BY <1>1, <1>2, <1>3
    <3>3. CASE Advances(Held, epoch, wire, queue, h2, epoch, ws, q2)
      <4> DEFINE fl == Flight(cs)  h == Held
      <4>1. /\ h \in Ranges /\ epoch \in Nat /\ h2 \in Ranges /\ ws \in Seq(Outbound) /\ q2 \in Seq(Rows)
            /\ s \in Syncs /\ fl \in SUBSET Reqs /\ AllFounded(s, fl, h, epoch, wire, queue)
            /\ Advances(h, epoch, wire, queue, h2, epoch, ws, q2)
        BY <3>1, <3>2, <3>3
      <4> HIDE DEF fl, h
      <4>2. /\ AllFounded(s, fl, h2, epoch, ws, q2)
            /\ \A r \in fl : r.dir = "after" /\ Spent(r, h) => Spent(r, h2)
        BY <4>1, GroundsMove
      <4> QED
        BY <4>2 DEF fl, h
    <3>4. CASE Flight(Course) = {} /\ sync.req = NoReq /\ sync.await = NoReq /\ sync.pending = NoReq
      BY <1>5, <3>4, FoundedNone DEF AllFounded
    <3> QED
      BY <1>7, <3>3, <3>4
<1>11. Flows(cs, h2, noticed, s)
  <2>1. Moves(cs, Held, h2, noticed, noticed, s.await, s.await)
    BY <1>10 DEF Moves
  <2>2. /\ Ordered(cs, Held, noticed, s.await)
        /\ s.status \in {"complete", "error"} => Calm(cs, Held, noticed)
    BY <1>6, <1>7, OrderedDrawn
  <2>3. /\ Ordered(cs, Held, noticed, s.await) => Ordered(cs, h2, noticed, s.await)
        /\ Calm(cs, Held, noticed) => Calm(cs, h2, noticed)
    BY <1>1, <2>1, CourseMoves
  <2> QED
    BY <2>2, <2>3 DEF Flows
<1>12. /\ Controlled(d.sync, c2, ca2, Flight(cs2), can2, forced, noticed)
       /\ Flows(cs2, h2, noticed, d.sync)
       /\ AllFounded(d.sync, Flight(cs2), h2, epoch, ws, q2)
  <2> DEFINE frc == forced
  <2>1. /\ s \in Syncs /\ c2 \in Chats /\ ca2 \in Ranges /\ cs \in Seq(Msgs) /\ Flight(cs) \in SUBSET Reqs
        /\ can2 \in BOOLEAN /\ noticed \in BOOLEAN
    BY <1>1, <1>2, <1>3
  <2>2. /\ Regular(s, c2, ca2, Flight(cs), frc, noticed)
        /\ (s.status # "none" => can2 /\ s.loaded)
        /\ Flows(cs, h2, noticed, s) /\ AllFounded(s, Flight(cs), h2, epoch, ws, q2)
        /\ Goes(s, can2, d, c2, ca2, cs, h2, noticed, epoch, ws, q2)
        /\ Asking(cs2, cs, d.fetch)
    BY <1>4, <1>8, <1>10, <1>11
  <2> HIDE DEF frc
  <2>3. /\ Controlled(d.sync, c2, ca2, Flight(cs2), can2, frc, noticed)
        /\ Flows(cs2, h2, noticed, d.sync)
        /\ AllFounded(d.sync, Flight(cs2), h2, epoch, ws, q2)
    BY <2>1, <2>2, GoneOn
  <2> QED
    BY <2>3 DEF frc
<1>13. AllFounded(d.sync, Flight(cs2), h2, epoch, wire', q2)
  <2> DEFINE vs == wire'
  <2>1. Thinned(vs, ws)
    BY <1>9, ThinnedAlike
  <2>2. vs \in Seq(Outbound)
    BY <1>9
  <2> HIDE DEF vs
  <2>3. \A e \in Nat : e <= epoch /\ Waits(e, 0, ws, q2) => Waits(e, 0, vs, q2)
    BY <1>2, <2>1, <2>2, WaitsThinned
  <2>4. Advances(h2, epoch, ws, q2, h2, epoch, vs, q2)
    <3>1. epoch <= epoch
      BY <1>1
    <3> QED
      BY <1>1, <1>2, <2>3, <3>1, AdvancesStay
  <2>5. d.sync \in Syncs
    BY DEF Shape
  <2>6. Flight(cs2) \in SUBSET Reqs
    <3>1. wire' \in Seq(Outbound) /\ inbox' \in Seq(Inbound)
      BY DEF Shape
    <3> QED
      BY <3>1, PartTyped DEF cs2, Course
  <2>7. AllFounded(d.sync, Flight(cs2), h2, epoch, vs, q2)
    BY <1>1, <1>2, <1>12, <2>2, <2>4, <2>5, <2>6, GroundsMove
  <2> QED
    BY <2>7 DEF vs
<1>14. Control' /\ Streams' /\ Grounds'
  <2>1. Control'
    BY <1>12 DEF Control, cs2, c2, ca2, can2
  <2>2. Streams'
    BY <1>12 DEF Streams, cs2, h2
  <2>3. Grounds'
    BY <1>13 DEF Grounds, cs2, h2, q2
  <2> QED
    BY <2>1, <2>2, <2>3
<1>15. Notices'
  BY <1>9 DEF Notices, AllAlike, Alike
<1>16. Heralded'
  <2>1. Hears(wire', acked')
    BY <1>9, HearsAlike
  <2> QED
    BY <2>1 DEF Heralded, Hears
<1> QED
  BY <1>14, <1>15, <1>16 DEF CatchesUp

LEMMA ResumeBase ==
    ASSUME NEW c, NEW ca, c.synced => ca = NoRange
    PROVE  Resume(c, ca) = Base(IF c.synced THEN c.range ELSE ca)
BY DEF Resume, Base

\* Nothing that only goes before the range upsets what is asked for.
LEMMA BeforeCalm ==
    ASSUME NEW cs, \A r \in Flight(cs) : r.dir = "before", NEW held, NEW ntc
    PROVE  Calm(cs, held, ntc)
<1> SUFFICES ASSUME NEW i \in DOMAIN cs, Fresh(cs[i], held, ntc)
             PROVE  FALSE
  BY DEF Calm
<1>1. cs[i].req \in Flight(cs)
  BY DEF Fresh, Flight
<1> QED
  BY <1>1 DEF Fresh, TailReq

\* What is owed fits.
LEMMA OwingGoes ==
    ASSUME NEW s \in Syncs, NEW can \in BOOLEAN, NEW resume \in CatchUps, NEW held \in Ranges,
           resume = Base(held), NEW d, Owing(s, can, resume, d),
           s.status # "none" => can /\ s.loaded, NEW c, NEW ca, ~ c.synced => held = ca,
           NEW cs, Flight(cs) \in SUBSET Reqs, NEW frc, NEW ntc,
           Regular(s, c, ca, Flight(cs), frc, ntc),
           NEW ep, NEW ws, NEW q, AllFounded(s, Flight(cs), held, ep, ws, q)
    PROVE  Goes(s, can, d, c, ca, cs, held, ntc, ep, ws, q)
<1>0. s.status \in {"none", "running", "complete", "error"} /\ s.pending \in CatchUps
  BY SyncFields
<1>1. CASE /\ d.fetch = NoReq /\ d.sync = s
           /\ \/ ~ can \/ ~ s.loaded \/ s.status \in {"running", "error"}
              \/ s.status = "complete" /\ s.pending = NoReq
  BY <1>0, <1>1 DEF Goes
<1>2. CASE /\ can /\ s.loaded
           /\ s.status = "none" \/ (s.status = "complete" /\ s.pending # NoReq)
           /\ d.fetch = (IF s.pending = NoReq THEN resume ELSE s.pending) /\ d.fetch # NoReq
           /\ Begun(d.sync, s.pending, resume)
  <2> DEFINE next == IF s.pending = NoReq THEN resume ELSE s.pending
             supersede == s.pending # NoReq
  <2>1. s.status = "none"
    BY <1>2 DEF Regular
  <2>2. Starting(s, can, resume, s.pending, supersede, next, d)
    BY <1>2, <2>1 DEF Starting
  <2>3. next \in CatchUps /\ next # NoReq /\ supersede \in BOOLEAN
    BY <1>0, <1>2
  <2>4. \A r \in Flight(cs) : r.dir = "before"
    BY <2>1 DEF Regular
  <2>5. Apt(next, cs, held, ntc)
    BY <2>4, BeforeCalm DEF Apt
  <2>6. Founded(next, held, ep, ws, q)
    <3>1. Founded(Base(held), held, ep, ws, q)
      BY BaseApt
    <3>2. Founded(s.pending, held, ep, ws, q)
      BY DEF AllFounded
    <3> QED
      BY <3>1, <3>2
  <2>7. ~ c.synced => next = Base(ca) /\ s.pending = NoReq
    BY DEF Regular
  <2> HIDE DEF supersede
  <2>8. next = IF s.pending = NoReq THEN resume ELSE s.pending
    OBVIOUS
  <2> HIDE DEF next
  <2> QED
    BY <1>0, <2>2, <2>3, <2>5, <2>6, <2>7, <2>8 DEF Goes
<1> QED
  BY <1>1, <1>2 DEF Owing

LEMMA CourseItself ==
    ASSUME Shape, NEW ntc
    PROVE  Drawn(wire \o inbox, Course, ntc) /\ Drawn(Course, wire \o inbox, ntc)
<1>1. wire \o inbox \in Seq(Msgs) /\ Course = wire \o inbox
  BY CourseTyped DEF Course
<1> QED
  BY <1>1, DrawnItself

LEMMA HeldStays ==
    ASSUME Shape, NEW ws \in Seq(Outbound), Thinned(ws, wire)
    PROVE  Advances(Held, epoch, wire, queue, Held, epoch, ws, queue)
<1>1. /\ wire \in Seq(Outbound) /\ queue \in Seq(Rows) /\ Held \in Ranges /\ epoch \in Nat /\ epoch <= epoch
  BY CourseTyped, NowIs
<1>2. \A e \in Nat : e <= epoch /\ Waits(e, 0, wire, queue) => Waits(e, 0, ws, queue)
  BY <1>1, WaitsThinned
<1> QED
  BY <1>1, <1>2, AdvancesStay

LEMMA RegularNow ==
    ASSUME CatchesUp
    PROVE  /\ Regular(sync, chat, cached, Flight(Course), forced, noticed)
           /\ sync.status # "none" <=> CanCatchUp /\ sync.loaded
           /\ AllFounded(sync, Flight(Course), Held, epoch, wire, queue)
           /\ Resume(chat, cached) = Base(Held)
           /\ ~ chat.synced => Held = cached
           /\ chat.synced => Held = chat.range
           /\ Hears(wire, acked) /\ \A i \in DOMAIN wire : wire[i].kind = "notice" => chat.synced
<1>1. Controlled(sync, chat, cached, Flight(Course), CanCatchUp, forced, noticed)
  BY DEF CatchesUp, Control
<1>2. /\ Regular(sync, chat, cached, Flight(Course), forced, noticed)
      /\ sync.status # "none" <=> CanCatchUp /\ sync.loaded
  BY <1>1, ControlledIs
<1>3. chat.synced => cached = NoRange
  BY <1>2 DEF Regular
<1> QED
  BY <1>2, <1>3, ResumeBase, HeraldedIs DEF CatchesUp, Grounds, Held, CurrentRange, Notices

\* The catch-up is started by an action that changes nothing else.
LEMMA RestartedCatchesUp ==
    ASSUME Shape, Shape', CatchesUp,
           UNCHANGED <<daemonVars, up, desired, acked, subRetry, forced, noticed, queue, chat, cached>>,
           NEW d, d.fetch \in CatchUps, sync' = d.sync,
           Issue(d.fetch, ~ chat.synced, init, inbox, wire),
           AllFounded(sync, Flight(Course), Held, epoch, wire, queue) =>
             Goes(sync, CanCatchUp, d, chat, cached, Course, Held, noticed, epoch, wire, queue)
    PROVE  CatchesUp'
<1>1. /\ Drawn(wire \o inbox, Course, noticed) /\ Drawn(Course, wire \o inbox, FALSE)
      /\ wire \in Seq(Outbound) /\ inbox \in Seq(Inbound)
  <2>1. \A n : Drawn(wire \o inbox, Course, n) /\ Drawn(Course, wire \o inbox, n)
    BY CourseItself
  <2> QED
    BY <2>1, CourseTyped
<1>2. /\ sync \in Syncs /\ Held' = Held /\ (CanCatchUp' <=> CanCatchUp) /\ chat.synced \in BOOLEAN
      /\ CanCatchUp' \in BOOLEAN /\ CanCatchUp \in BOOLEAN
  BY TypesNow DEF Held, CurrentRange, CanCatchUp, Shape
<1>3. /\ Regular(sync, chat, cached, Flight(Course), forced, noticed)
      /\ sync.status # "none" <=> CanCatchUp /\ sync.loaded
      /\ Hears(wire, acked) /\ \A i \in DOMAIN wire : wire[i].kind = "notice" => chat.synced
  BY RegularNow
<1>4. Advances(Held, epoch, wire, queue, Held, epoch, wire, queue)
  <2>1. Thinned(wire, wire)
    BY <1>1, ThinnedItself
  <2> QED
    BY <1>1, <2>1, HeldStays
<1>5. UNCHANGED <<epoch, forced, noticed, queue, chat, cached, acked>>
  BY DEF daemonVars
<1> DEFINE h2 == Held'  q2 == queue'  c2 == chat'  ca2 == cached'  ack2 == acked'
           can2 == CanCatchUp'  initialize == ~ chat.synced
<1>6. /\ Advances(Held, epoch, wire, queue, h2, epoch, wire, q2)
      /\ Regular(sync, c2, ca2, Flight(Course), forced, noticed)
      /\ sync.status # "none" => can2 /\ sync.loaded
      /\ initialize \in BOOLEAN /\ Issue(d.fetch, initialize, init, inbox, wire)
      /\ Hears(wire, ack2)
      /\ \A i \in DOMAIN wire : wire[i].kind = "notice" => c2.synced
  BY <1>2, <1>3, <1>4, <1>5
<1>7. AllFounded(sync, Flight(wire \o inbox), h2, epoch, wire, q2) =>
        Goes(sync, can2, d, c2, ca2, wire \o inbox, h2, noticed, epoch, wire, q2)
  <2>1. can2 = CanCatchUp
    BY <1>2
  <2>2. h2 = Held /\ q2 = queue /\ c2 = chat /\ ca2 = cached /\ wire \o inbox = Course
    BY <1>2, <1>5 DEF Course
  <2> HIDE DEF h2, q2, c2, ca2, can2
  <2> QED
    BY <2>1, <2>2
<1> HIDE DEF initialize
<1> QED
  BY <1>1, <1>2, <1>5, <1>6, <1>7, GoneCatchesUp

LEMMA RetryCatchesUp ==
    ASSUME Shape, CatchesUp, Lapses = {}, NEW manual \in BOOLEAN, Retry(manual)
    PROVE  CatchesUp'
<1>1. /\ Shape' /\ sync.status = "error" /\ CanCatchUp
      /\ manual => chat.synced \/ sync.req = TailReq \/ "retry" \in Lapses
      /\ \E d : \E req \in CatchUps, next \in CatchUps, resume \in CatchUps :
           /\ req = (IF manual THEN sync.req ELSE NoReq)
           /\ resume = Resume(chat, cached) /\ resume # NoReq
           /\ next = (IF req = NoReq THEN resume ELSE req) /\ next # NoReq
           /\ d.sync \in Syncs /\ d.fetch \in CatchUps
           /\ Starting(sync, CanCatchUp, resume, req, manual, next, d)
           /\ sync' = d.sync /\ Issue(d.fetch, ~ chat.synced, init, inbox, wire)
      /\ UNCHANGED <<daemonVars, up, desired, acked, subRetry, forced, noticed, queue,
                     chat, cached, stored, faults>>
  BY RetryShape
<1>a. PICK d : \E req \in CatchUps, next \in CatchUps, resume \in CatchUps :
        /\ req = (IF manual THEN sync.req ELSE NoReq)
        /\ resume = Resume(chat, cached) /\ resume # NoReq
        /\ next = (IF req = NoReq THEN resume ELSE req) /\ next # NoReq
        /\ d.sync \in Syncs /\ d.fetch \in CatchUps
        /\ Starting(sync, CanCatchUp, resume, req, manual, next, d)
        /\ sync' = d.sync /\ Issue(d.fetch, ~ chat.synced, init, inbox, wire)
  BY <1>1
<1>2. PICK req \in CatchUps, next \in CatchUps, resume \in CatchUps :
        /\ req = (IF manual THEN sync.req ELSE NoReq)
        /\ resume = Resume(chat, cached) /\ resume # NoReq
        /\ next = (IF req = NoReq THEN resume ELSE req) /\ next # NoReq
        /\ d.sync \in Syncs /\ d.fetch \in CatchUps
        /\ Starting(sync, CanCatchUp, resume, req, manual, next, d)
        /\ sync' = d.sync /\ Issue(d.fetch, ~ chat.synced, init, inbox, wire)
  BY <1>a
<1>3. Resume(chat, cached) = Base(Held) /\ (~ chat.synced => Held = cached)
      /\ Regular(sync, chat, cached, Flight(Course), forced, noticed)
  BY RegularNow
<1>4. ASSUME AllFounded(sync, Flight(Course), Held, epoch, wire, queue)
      PROVE  Goes(sync, CanCatchUp, d, chat, cached, Course, Held, noticed, epoch, wire, queue)
  <2>1. /\ Apt(next, Course, Held, noticed)
    BY <1>1 DEF CatchesUp, Streams, Flows, Apt
  <2>2. Founded(next, Held, epoch, wire, queue)
    <3>1. Founded(sync.req, Held, epoch, wire, queue)
      BY <1>4 DEF AllFounded
    <3>2. Founded(Base(Held), Held, epoch, wire, queue)
      BY <1>4, CourseTyped, BaseApt
    <3> QED
      BY <1>2, <1>3, <3>1, <3>2
  <2>3. ~ chat.synced => next = Base(cached) /\ (req = NoReq \/ (next = TailReq /\ sync.status = "error"))
    <3>1. ASSUME ~ chat.synced, ~ manual PROVE next = Base(cached) /\ req = NoReq
      BY <1>2, <1>3, <3>1
    <3>2. ASSUME ~ chat.synced, manual PROVE next = Base(cached) /\ next = TailReq
      <4>1. sync.req = TailReq
        BY <1>1, <3>2
      <4>2. sync.req = IF cached = NoRange THEN TailReq ELSE AfterReq(cached.epoch, cached.end)
        BY <1>1, <1>3, <3>2 DEF Regular
      <4>3. next = TailReq
        BY <1>2, <3>2, <4>1, CatchUpFields
      <4> QED
        BY <4>1, <4>2, <4>3 DEF Base, AfterReq, TailReq
    <3> QED
      BY <1>1, <3>1, <3>2
  <2>4. next = (IF req = NoReq THEN resume ELSE req) /\ next # NoReq
        /\ Starting(sync, CanCatchUp, resume, req, manual, next, d)
    BY <1>2
  <2> QED
    BY <2>1, <2>2, <2>3, <2>4 DEF Goes
<1>5. /\ UNCHANGED <<daemonVars, up, desired, acked, subRetry, forced, noticed, queue, chat, cached>>
      /\ d.fetch \in CatchUps /\ sync' = d.sync
      /\ Issue(d.fetch, ~ chat.synced, init, inbox, wire)
  BY <1>1, <1>2
<1> QED
  BY <1>1, <1>4, <1>5, RestartedCatchesUp

LEMMA ForegroundCatchesUp ==
    ASSUME Shape, CatchesUp, Foreground
    PROVE  CatchesUp'
<1>1. /\ Shape'
      /\ \E d : \E next \in CatchUps :
           /\ next = Resume(chat, cached) /\ next # NoReq
           /\ d.sync \in Syncs /\ d.fetch \in CatchUps
           /\ Starting(sync, CanCatchUp, next, NoReq, TRUE, next, d)
           /\ sync' = d.sync /\ Issue(d.fetch, ~ chat.synced, init, inbox, wire)
      /\ UNCHANGED <<daemonVars, up, desired, acked, subRetry, forced, noticed, queue,
                     chat, cached, stored>>
  BY ForegroundShape
<1>a. PICK d : \E next \in CatchUps :
        /\ next = Resume(chat, cached) /\ next # NoReq
        /\ d.sync \in Syncs /\ d.fetch \in CatchUps
        /\ Starting(sync, CanCatchUp, next, NoReq, TRUE, next, d)
        /\ sync' = d.sync /\ Issue(d.fetch, ~ chat.synced, init, inbox, wire)
  BY <1>1
<1>2. PICK next \in CatchUps :
        /\ next = Resume(chat, cached) /\ next # NoReq
        /\ d.sync \in Syncs /\ d.fetch \in CatchUps
        /\ Starting(sync, CanCatchUp, next, NoReq, TRUE, next, d)
        /\ sync' = d.sync /\ Issue(d.fetch, ~ chat.synced, init, inbox, wire)
  BY <1>a
<1>3. Resume(chat, cached) = Base(Held) /\ (~ chat.synced => Held = cached)
  BY RegularNow
<1>4. ASSUME AllFounded(sync, Flight(Course), Held, epoch, wire, queue)
      PROVE  Goes(sync, CanCatchUp, d, chat, cached, Course, Held, noticed, epoch, wire, queue)
  <2>1. /\ Apt(next, Course, Held, noticed) /\ Founded(next, Held, epoch, wire, queue)
    BY <1>2, <1>3, <1>4, CourseTyped, BaseApt
  <2> DEFINE req == NoReq  supersede == TRUE
  <2>2. /\ req \in CatchUps /\ supersede \in BOOLEAN /\ req = NoReq
        /\ next = (IF req = NoReq THEN next ELSE req) /\ next # NoReq
        /\ Starting(sync, CanCatchUp, next, req, supersede, next, d)
        /\ ~ chat.synced => next = Base(cached)
    BY <1>2, <1>3 DEF CatchUps
  <2> HIDE DEF req, supersede
  <2> QED
    BY <2>1, <2>2 DEF Goes
<1>5. /\ UNCHANGED <<daemonVars, up, desired, acked, subRetry, forced, noticed, queue, chat, cached>>
      /\ d.fetch \in CatchUps /\ sync' = d.sync
      /\ Issue(d.fetch, ~ chat.synced, init, inbox, wire)
  BY <1>1, <1>2
<1> QED
  BY <1>1, <1>4, <1>5, RestartedCatchesUp

LEMMA PrepareChatCatchesUp ==
    ASSUME Shape, CatchesUp, PrepareChat
    PROVE  CatchesUp'
<1> DEFINE c2 == PreparedChat  ca2 == PreparedCache  d == PrepareStart
<1>1. /\ Shape' /\ ~ sync.loaded /\ desired
      /\ chat' = c2 /\ cached' = ca2 /\ sync' = d.sync
      /\ d.sync \in Syncs /\ d.fetch \in CatchUps
      /\ \E resume \in CatchUps, next \in CatchUps, supersede \in BOOLEAN :
           /\ resume = Resume(c2, ca2) /\ resume # NoReq
           /\ next = (IF Ready.pending = NoReq THEN resume ELSE Ready.pending) /\ next # NoReq
           /\ (supersede <=> Ready.pending # NoReq)
           /\ Starting(Ready, CanCatchUp, resume, Ready.pending, supersede, next, d)
      /\ Issue(d.fetch, ~ c2.synced, init, inbox, wire)
      /\ UNCHANGED <<daemonVars, up, desired, acked, subRetry, forced, noticed, queue,
                     stored, faults>>
  BY PrepareChatShape
<1>2. /\ Ready \in Syncs /\ Ready.loaded = TRUE /\ Ready.status = sync.status
      /\ Ready.req = sync.req /\ Ready.await = sync.await /\ Ready.fallback = sync.fallback
      /\ Ready.latest = sync.latest /\ Ready.pending = sync.pending
  BY ReadyIs
<1>3. c2 \in Chats /\ ca2 \in Ranges /\ c2.synced = chat.synced
  BY PreparedIs
<1>4. /\ Regular(sync, chat, cached, Flight(Course), forced, noticed)
      /\ sync.status # "none" <=> CanCatchUp /\ sync.loaded
      /\ Hears(wire, acked) /\ \A i \in DOMAIN wire : wire[i].kind = "notice" => chat.synced
  BY RegularNow
<1>5. ~ chat.synced /\ cached = NoRange /\ sync.status = "none" /\ sync.pending = NoReq
  BY <1>1, <1>4 DEF Regular
<1>6. Flight(Course) = {}
  <2>1. Flight(Course) \subseteq {TailReq} /\ \A r \in Flight(Course) : r.dir = "before"
    BY <1>4, <1>5 DEF Regular
  <2> QED
    BY <2>1 DEF TailReq
<1>7. /\ sync.req = NoReq /\ sync.await = NoReq /\ ~ noticed /\ ~ sync.latest /\ ~ sync.fallback
  BY <1>4, <1>5, <1>6 DEF Regular
<1> HIDE DEF c2, ca2, d
<1>8. Regular(Ready, c2, ca2, Flight(Course), forced, noticed)
  <2>1. Ready.status = "none" /\ Ready.loaded /\ ~ c2.synced /\ Ready.pending = NoReq
        /\ Ready.req = NoReq /\ Ready.await = NoReq /\ ~ Ready.latest /\ ~ Ready.fallback
    BY <1>2, <1>3, <1>5, <1>7
  <2> QED
    BY <1>6, <1>7, <2>1 DEF Regular
<1>9. Held' = ca2 /\ (CanCatchUp' <=> CanCatchUp) /\ CanCatchUp \in BOOLEAN /\ CanCatchUp' \in BOOLEAN
  BY <1>1, <1>3, <1>5, TypesNow DEF Held, CurrentRange, CanCatchUp, Shape
<1>10. UNCHANGED <<epoch, forced, noticed, queue, acked>>
  BY <1>1 DEF daemonVars
<1>11. /\ Drawn(wire \o inbox, Course, noticed) /\ Drawn(Course, wire \o inbox, FALSE)
       /\ wire \in Seq(Outbound) /\ inbox \in Seq(Inbound) /\ wire \o inbox = Course
  <2>1. \A n : Drawn(wire \o inbox, Course, n) /\ Drawn(Course, wire \o inbox, n)
    BY CourseItself
  <2> QED
    BY <2>1, CourseTyped DEF Course
<1>12. ASSUME AllFounded(Ready, Flight(Course), ca2, epoch, wire, queue)
       PROVE  Goes(Ready, CanCatchUp, d, c2, ca2, Course, ca2, noticed, epoch, wire, queue)
  <2>1. PICK resume \in CatchUps, next \in CatchUps, supersede \in BOOLEAN :
           /\ resume = Resume(c2, ca2) /\ resume # NoReq
           /\ next = (IF Ready.pending = NoReq THEN resume ELSE Ready.pending) /\ next # NoReq
           /\ (supersede <=> Ready.pending # NoReq)
           /\ Starting(Ready, CanCatchUp, resume, Ready.pending, supersede, next, d)
    BY <1>1
  <2> DEFINE req == Ready.pending
  <2>2. req = NoReq /\ req \in CatchUps
    BY <1>2, <1>5 DEF CatchUps
  <2>3. Starting(Ready, CanCatchUp, resume, req, supersede, next, d)
        /\ next = (IF req = NoReq THEN resume ELSE req) /\ next # NoReq
    BY <2>1
  <2> HIDE DEF req
  <2>4. next = Base(ca2)
    <3>1. Resume(c2, ca2) = Base(IF c2.synced THEN c2.range ELSE ca2)
      BY <1>3, <1>5, ResumeBase
    <3> QED
      BY <1>3, <1>5, <2>1, <2>2, <2>3, <3>1
  <2>5. Apt(next, Course, ca2, noticed) /\ Founded(next, ca2, epoch, wire, queue)
    BY <1>3, <1>12, <2>4, CourseTyped, BaseApt
  <2> QED
    BY <2>2, <2>3, <2>4, <2>5 DEF Goes
<1> DEFINE h2 == Held'  q2 == queue'  cc == chat'  cca == cached'  ack2 == acked'
           can2 == CanCatchUp'  initialize == ~ c2.synced  s == Ready
<1>13. /\ Regular(s, cc, cca, Flight(Course), forced, noticed)
       /\ s.status # "none" => can2 /\ s.loaded
       /\ initialize \in BOOLEAN /\ Issue(d.fetch, initialize, init, inbox, wire)
       /\ Hears(wire, ack2)
       /\ \A i \in DOMAIN wire : wire[i].kind = "notice" => cc.synced
       /\ s \in Syncs /\ s.status = sync.status /\ s.req = sync.req /\ s.await = sync.await
       /\ s.pending = sync.pending
  <2>1. Regular(s, cc, cca, Flight(Course), forced, noticed)
    BY <1>1, <1>8
  <2>2. initialize \in BOOLEAN /\ Issue(d.fetch, initialize, init, inbox, wire)
    BY <1>1
  <2>3. Hears(wire, ack2)
    BY <1>4, <1>10
  <2>4. \A i \in DOMAIN wire : wire[i].kind = "notice" => cc.synced
    BY <1>1, <1>3, <1>4
  <2>5. s.status # "none" => can2 /\ s.loaded
    BY <1>2, <1>5
  <2> QED
    BY <1>2, <2>1, <2>2, <2>3, <2>4, <2>5
<1>14. AllFounded(s, Flight(wire \o inbox), h2, epoch, wire, q2) =>
         Goes(s, can2, d, cc, cca, wire \o inbox, h2, noticed, epoch, wire, q2)
  <2>1. can2 = CanCatchUp
    BY <1>9
  <2>2. h2 = ca2 /\ q2 = queue /\ cc = c2 /\ cca = ca2 /\ wire \o inbox = Course
    BY <1>1, <1>9, <1>10, <1>11
  <2> HIDE DEF h2, q2, cc, cca, can2
  <2> QED
    BY <1>12, <2>1, <2>2
<1>15. sync' = d.sync /\ d.fetch \in CatchUps /\ UNCHANGED <<epoch, forced, noticed>>
  BY <1>1, <1>10
<1> HIDE DEF initialize, s
<1> QED
  BY <1>1, <1>5, <1>6, <1>7, <1>11, <1>13, <1>14, <1>15, GoneCatchesUp

LEMMA ReceiveSubscribedCatchesUp ==
    ASSUME Shape, Links, CatchesUp, ReceiveSubscribed
    PROVE  CatchesUp'
<1> DEFINE d == SubscribedStart  ws == Tail(wire)  can2 == CanCatchUp'
<1>1. /\ Shape' /\ wire # <<>> /\ Msg.kind = "subscribed" /\ Msg.open \in BOOLEAN
      /\ acked' = Msg.open /\ sync' = d.sync /\ d.sync \in Syncs /\ d.fetch \in CatchUps
      /\ Msg.open => Owing(sync, up /\ desired, Resume(chat, cached), d)
      /\ ~ Msg.open => d.sync = sync /\ d.fetch = NoReq
      /\ Issue(d.fetch, ~ chat.synced, init, inbox, ws)
      /\ UNCHANGED <<daemonVars, up, desired, subRetry, forced, noticed, queue, chat,
                     cached, stored, faults>>
  BY ReceiveSubscribedShape
<1>2. /\ Course \in Seq(Msgs) /\ Flight(Course) \in SUBSET Reqs
      /\ wire \in Seq(Outbound) /\ inbox \in Seq(Inbound) /\ queue \in Seq(Rows)
      /\ sync \in Syncs /\ noticed \in BOOLEAN /\ Held \in Ranges
  BY CourseTyped
<1>3. wire[1] = Msg /\ 1 \in DOMAIN wire /\ ws \in Seq(Outbound) /\ Thinned(ws, wire)
  BY <1>1, <1>2, ThinnedTail DEF Msg
<1>4. ~ Asks(wire[1])
  BY <1>1, <1>3 DEF Asks
<1>5. Drawn(ws \o inbox, Course, noticed) /\ Drawn(Course, ws \o inbox, FALSE)
  <2>1. Drawn(ws, wire, noticed) /\ Drawn(wire, ws, FALSE)
    BY <1>1, <1>2, <1>4, DrawnTail
  <2>2. Drawn(inbox, inbox, noticed) /\ Drawn(inbox, inbox, FALSE)
    BY <1>2, DrawnItself
  <2> QED
    BY <1>2, <1>3, <2>1, <2>2, DrawnTogether DEF Course
<1>6. /\ Regular(sync, chat, cached, Flight(Course), forced, noticed)
      /\ sync.status # "none" <=> CanCatchUp /\ sync.loaded
      /\ Resume(chat, cached) = Base(Held)
      /\ ~ chat.synced => Held = cached
      /\ \A i \in DOMAIN wire : wire[i].kind = "notice" => chat.synced
  BY RegularNow
<1>7. (Msg.open <=> desired) /\ (subscribed => desired)
      /\ (~ subscribed => \A i \in DOMAIN wire : wire[i].kind \notin {"row", "notice"})
  BY <1>1, <1>3 DEF Links
<1>8. /\ up \in BOOLEAN /\ desired \in BOOLEAN /\ acked \in BOOLEAN
      /\ (CanCatchUp <=> up /\ desired /\ acked) /\ (can2 <=> up /\ desired /\ Msg.open)
      /\ CanCatchUp \in BOOLEAN /\ can2 \in BOOLEAN
  BY <1>1, TypesNow DEF CanCatchUp
<1>9. can2 <=> up /\ desired
  BY <1>7, <1>8
<1>10. sync.status # "none" => can2 /\ sync.loaded
  BY <1>6, <1>8, <1>9
<1>11. Hears(ws, acked')
  <2>1. CASE Msg.open
    BY <1>1, <2>1 DEF Hears
  <2>2. CASE ~ Msg.open
    <3>1. \A i \in DOMAIN wire : wire[i].kind \notin {"row", "notice"}
      BY <1>7, <2>2
    <3>2. \A i \in DOMAIN ws : \E j \in DOMAIN wire : Alike(ws[i], wire[j])
      BY <1>2, <1>3, ThinnedIs
    <3>3. \A i \in DOMAIN ws : ws[i].kind \notin {"row", "notice"}
      BY <3>1, <3>2 DEF Alike
    <3> QED
      BY <3>3 DEF Hears
  <2> QED
    BY <1>1, <2>1, <2>2
<1>12. \A i \in DOMAIN ws : ws[i].kind = "notice" => chat.synced
  BY <1>2, <1>3, <1>6, NoticesThinned
<1>13. Advances(Held, epoch, wire, queue, Held, epoch, ws, queue)
  BY <1>3, HeldStays
<1>14. Held' = Held /\ UNCHANGED <<epoch, forced, noticed, queue, chat, cached>>
  BY <1>1 DEF Held, CurrentRange, daemonVars
<1>15. Flight(ws \o inbox) = Flight(Course)
  <2>1. Flight(ws \o inbox) \subseteq Flight(Course)
    BY <1>5, DrawnFlight
  <2>2. Flight(Course) \subseteq Flight(ws \o inbox)
    BY <1>5, DrawnFlight
  <2> QED
    BY <2>1, <2>2
<1> HIDE DEF d, can2, ws
<1>16. ASSUME AllFounded(sync, Flight(ws \o inbox), Held, epoch, ws, queue)
       PROVE  Goes(sync, can2, d, chat, cached, ws \o inbox, Held, noticed, epoch, ws, queue)
  <2>1. CASE Msg.open
    <3> DEFINE resume == Resume(chat, cached)
    <3>1. resume \in CatchUps /\ resume = Base(Held) /\ Owing(sync, can2, resume, d)
      <4>1. can2 = (up /\ desired)
        BY <1>8, <1>9
      <4>2. Base(Held) \in CatchUps
        BY <1>2, <1>15, <1>16, BaseApt
      <4> QED
        BY <1>1, <1>6, <2>1, <4>1, <4>2
    <3>2. Regular(sync, chat, cached, Flight(ws \o inbox), forced, noticed) /\ Flight(ws \o inbox) \in SUBSET Reqs
      BY <1>2, <1>6, <1>15
    <3> DEFINE frc == forced  cs == ws \o inbox
    <3>3. /\ Regular(sync, chat, cached, Flight(cs), frc, noticed) /\ Flight(cs) \in SUBSET Reqs
          /\ AllFounded(sync, Flight(cs), Held, epoch, ws, queue)
      BY <1>16, <3>2
    <3> HIDE DEF resume, frc, cs
    <3>4. Goes(sync, can2, d, chat, cached, cs, Held, noticed, epoch, ws, queue)
      BY <1>2, <1>6, <1>8, <1>10, <3>1, <3>3, OwingGoes
    <3> QED
      BY <3>4 DEF cs
  <2>2. CASE ~ Msg.open
    BY <1>1, <1>6, <1>7, <1>8, <1>9, <2>2 DEF Goes
  <2> QED
    BY <1>1, <2>1, <2>2
<1> DEFINE h2 == Held'  q2 == queue'  cc == chat'  cca == cached'  ack2 == acked'
           initialize == ~ chat.synced
<1>17. /\ Regular(sync, cc, cca, Flight(Course), forced, noticed)
       /\ initialize \in BOOLEAN /\ Issue(d.fetch, initialize, init, inbox, ws)
       /\ Hears(ws, ack2)
       /\ \A i \in DOMAIN ws : ws[i].kind = "notice" => cc.synced
       /\ Advances(Held, epoch, wire, queue, h2, epoch, ws, q2)
  BY <1>1, <1>6, <1>11, <1>12, <1>13, <1>14 DEF ws, d
<1>18. AllFounded(sync, Flight(ws \o inbox), h2, epoch, ws, q2) =>
         Goes(sync, can2, d, cc, cca, ws \o inbox, h2, noticed, epoch, ws, q2)
  <2>1. h2 = Held /\ q2 = queue /\ cc = chat /\ cca = cached
    BY <1>14
  <2> HIDE DEF h2, q2, cc, cca
  <2> QED
    BY <1>16, <2>1
<1>19. sync' = d.sync /\ d.fetch \in CatchUps /\ UNCHANGED <<epoch, forced, noticed>> /\ ws \in Seq(Outbound)
  BY <1>1, <1>3, <1>14 DEF ws, d
<1> HIDE DEF initialize
<1> QED
  BY <1>1, <1>2, <1>5, <1>10, <1>17, <1>18, <1>19, GoneCatchesUp DEF can2

LEMMA OpenChatCatchesUp ==
    ASSUME Shape, CatchesUp, Lapses = {}, OpenChat
    PROVE  CatchesUp'
<1> DEFINE d == OpenStart  ws == OfKind(wire, {"page", "fail"})  can2 == CanCatchUp'
           box == Append(OfKind(inbox, {"fetch"}), [kind |-> "subscribe", open |-> TRUE])
<1>1. /\ Shape' /\ ~ desired /\ up /\ Idle
      /\ desired' = TRUE /\ sync' = d.sync /\ d.sync \in Syncs /\ d.fetch \in CatchUps
      /\ Owing(sync, up /\ acked, Resume(chat, cached), d)
      /\ Issue(d.fetch, ~ chat.synced, init, box, ws)
      /\ UNCHANGED <<epoch, rows, up, acked, forced, noticed, queue, chat, cached,
                     stored, faults>>
  BY OpenChatShape
<1>2. /\ Course \in Seq(Msgs) /\ Flight(Course) \in SUBSET Reqs
      /\ wire \in Seq(Outbound) /\ inbox \in Seq(Inbound) /\ queue \in Seq(Rows)
      /\ sync \in Syncs /\ noticed \in BOOLEAN /\ Held \in Ranges
  BY CourseTyped
<1>3. box \in Seq(Inbound) /\ ws \in Seq(Outbound) /\ Thinned(ws, wire)
  BY ObservedIs
<1>5. Drawn(ws \o box, Course, noticed) /\ Drawn(Course, ws \o box, FALSE)
  BY ObservedCourse
<1>6. /\ Regular(sync, chat, cached, Flight(Course), forced, noticed)
      /\ sync.status # "none" <=> CanCatchUp /\ sync.loaded
      /\ Resume(chat, cached) = Base(Held)
      /\ ~ chat.synced => Held = cached
  BY RegularNow
<1>8. /\ up \in BOOLEAN /\ desired \in BOOLEAN /\ acked \in BOOLEAN
      /\ (CanCatchUp <=> up /\ desired /\ acked) /\ (can2 <=> up /\ acked)
      /\ CanCatchUp \in BOOLEAN /\ can2 \in BOOLEAN
  BY <1>1, TypesNow DEF CanCatchUp
<1>10. sync.status = "none"
  BY <1>1, <1>6, <1>8
<1>11. Hears(ws, acked') /\ \A i \in DOMAIN ws : ws[i].kind = "notice" => chat.synced
  <2>1. \A i \in DOMAIN ws : ws[i].kind \in {"page", "fail"}
    BY <1>2, OfKindIs
  <2> QED
    BY <2>1 DEF Hears
<1>13. Advances(Held, epoch, wire, queue, Held, epoch, ws, queue)
  BY <1>3, HeldStays
<1>14. Held' = Held /\ UNCHANGED <<epoch, forced, noticed, queue, chat, cached>>
  BY <1>1 DEF Held, CurrentRange
<1>15. Flight(ws \o box) = Flight(Course)
  <2>1. Flight(ws \o box) \subseteq Flight(Course)
    BY <1>5, DrawnFlight
  <2>2. Flight(Course) \subseteq Flight(ws \o box)
    BY <1>5, DrawnFlight
  <2> QED
    BY <2>1, <2>2
<1> HIDE DEF d, can2, ws, box
<1>16. ASSUME AllFounded(sync, Flight(ws \o box), Held, epoch, ws, queue)
       PROVE  Goes(sync, can2, d, chat, cached, ws \o box, Held, noticed, epoch, ws, queue)
  <3> DEFINE resume == Resume(chat, cached)
  <3>1. resume \in CatchUps /\ resume = Base(Held) /\ Owing(sync, can2, resume, d)
    <4>1. can2 = (up /\ acked)
      BY <1>8
    <4>2. Base(Held) \in CatchUps
      BY <1>2, <1>15, <1>16, BaseApt
    <4> QED
      BY <1>1, <1>6, <4>1, <4>2 DEF d
  <3> DEFINE frc == forced  cs == ws \o box
  <3>3. /\ Regular(sync, chat, cached, Flight(cs), frc, noticed) /\ Flight(cs) \in SUBSET Reqs
        /\ AllFounded(sync, Flight(cs), Held, epoch, ws, queue)
    BY <1>2, <1>6, <1>15, <1>16
  <3> HIDE DEF resume, frc, cs
  <3>4. Goes(sync, can2, d, chat, cached, cs, Held, noticed, epoch, ws, queue)
    BY <1>2, <1>6, <1>8, <1>10, <3>1, <3>3, OwingGoes
  <3> QED
    BY <3>4 DEF cs
<1> DEFINE h2 == Held'  q2 == queue'  cc == chat'  cca == cached'  ack2 == acked'
           initialize == ~ chat.synced
<1>17. /\ Regular(sync, cc, cca, Flight(Course), forced, noticed)
       /\ initialize \in BOOLEAN /\ Issue(d.fetch, initialize, init, box, ws)
       /\ Hears(ws, ack2)
       /\ \A i \in DOMAIN ws : ws[i].kind = "notice" => cc.synced
       /\ Advances(Held, epoch, wire, queue, h2, epoch, ws, q2)
  BY <1>1, <1>6, <1>11, <1>13, <1>14 DEF ws, box, d
<1>18. AllFounded(sync, Flight(ws \o box), h2, epoch, ws, q2) =>
         Goes(sync, can2, d, cc, cca, ws \o box, h2, noticed, epoch, ws, q2)
  <2>1. h2 = Held /\ q2 = queue /\ cc = chat /\ cca = cached
    BY <1>14
  <2> HIDE DEF h2, q2, cc, cca
  <2> QED
    BY <1>16, <2>1
<1>19. sync' = d.sync /\ d.fetch \in CatchUps /\ UNCHANGED <<epoch, forced, noticed>>
       /\ ws \in Seq(Outbound) /\ box \in Seq(Inbound)
  BY <1>1, <1>3, <1>14 DEF ws, box, d
<1> HIDE DEF initialize
<1> QED
  BY <1>1, <1>2, <1>5, <1>10, <1>17, <1>18, <1>19, GoneCatchesUp DEF can2

-----------------------------------------------------------------------------
(* Rows that waited are applied.                                           *)

\* The rows that waited are applied: what is held moves on.
LEMMA FlushAdvances ==
    ASSUME Shape, Positions
    PROVE  Advances(Held, epoch, wire, queue, Cur, epoch, wire, <<>>)
<1>1. /\ Cur \in Ranges /\ Held \in Ranges /\ wire \in Seq(Outbound) /\ queue \in Seq(Rows)
      /\ Cur = IF chat.synced THEN FlushedChat.range ELSE cached
      /\ Held = IF chat.synced THEN chat.range ELSE cached
      /\ epoch \in Nat /\ <<>> \in Seq(Rows)
  BY FlushedIs, CourseTyped, NowIs DEF Held, CurrentRange
<1>2. \A e \in Nat : e <= epoch /\ Waits(e, 0, wire, queue) => Waits(e, 0, wire, <<>>)
  BY DEF Waits
<1>3. CASE ~ chat.synced \/ FlushedChat.range = chat.range
  <2>1. Cur = Held /\ epoch <= epoch
    BY <1>1, <1>3
  <2> DEFINE q2 == <<>>
  <2>2. \A e \in Nat : e <= epoch /\ Waits(e, 0, wire, queue) => Waits(e, 0, wire, q2)
    BY <1>2
  <2> HIDE DEF q2
  <2>3. Advances(Held, epoch, wire, queue, Held, epoch, wire, q2)
    BY <1>1, <2>1, <2>2, AdvancesStay
  <2> QED
    BY <2>1, <2>3 DEF q2
<1>4. CASE chat.synced /\ FlushedChat.range # chat.range
  <2>1. PICK i \in DOMAIN queue : FlushedChat.range.epoch = queue[i].epoch /\ FlushedChat.range.end = queue[i].seq
    BY <1>4, FlushedIs
  <2>2. FlushedChat.range # NoRange
    BY <1>4, FlushedIs
  <2>3. queue[i] \in Rows /\ queue[i].epoch \in Nat /\ queue[i].seq \in Nat
    <3>1. queue[i] \in Rows
      BY <1>1, <2>1
    <3> QED
      BY <3>1, RowFields
  <2>4. ASSUME NEW e \in Nat, NEW s \in Nat, Waits(e, s, wire, queue) PROVE Below(e, s, queue[i].epoch, queue[i].seq)
    BY <2>4 DEF Waits
  <2>5. Held.epoch \in Nat /\ Held.end \in Nat
    BY <1>1, RangeFields
  <2>6. Held # NoRange => Waits(Held.epoch, Held.end, wire, queue)
    BY <1>1, <1>4 DEF Positions, Reached
  <2>7. Held # NoRange => Upto(Held.epoch, Held.end, Cur.epoch, Cur.end)
    BY <1>1, <1>4, <2>1, <2>3, <2>4, <2>5, <2>6 DEF Below, Upto
  <2>8. \A e \in Nat : e <= epoch /\ Waits(e, 0, wire, queue) => e <= Cur.epoch
    BY <1>1, <1>4, <2>1, <2>3, <2>4 DEF Below
  <2>9. Cur # NoRange
    BY <1>1, <1>4, <2>2
  <2> QED
    BY <2>7, <2>8, <2>9 DEF Advances
<1> QED
  BY <1>3, <1>4

LEMMA FlushQueueCatchesUp ==
    ASSUME Shape, Positions, CatchesUp, FlushQueue
    PROVE  CatchesUp'
<1> DEFINE d == FlushStart  c2 == FlushedChat  can2 == CanCatchUp'
<1>1. /\ Shape' /\ queue' = <<>> /\ chat' = c2 /\ sync' = d.sync
      /\ Issue(d.fetch, ~ c2.synced, init, inbox, wire)
      /\ UNCHANGED <<daemonVars, up, desired, acked, subRetry, forced, noticed, cached,
                     stored, faults>>
  BY FlushQueueShape
<1>2. /\ Course \in Seq(Msgs) /\ Flight(Course) \in SUBSET Reqs
      /\ wire \in Seq(Outbound) /\ inbox \in Seq(Inbound) /\ queue \in Seq(Rows)
      /\ sync \in Syncs /\ noticed \in BOOLEAN /\ Held \in Ranges
  BY CourseTyped
<1>3. /\ d.sync \in Syncs /\ d.fetch \in CatchUps /\ c2 \in Chats
      /\ Recovering(sync, Resume(c2, cached), c2.range, d)
      /\ ~ RowsLeaveGap(chat, queue) => d.sync = sync /\ d.fetch = NoReq
      /\ RowsLeaveGap(chat, queue) => c2.synced /\ ~ c2.newer /\ c2.range # NoRange
  BY FlushStartIs
<1>4. /\ c2.synced = chat.synced /\ c2.newer = chat.newer /\ c2.synced \in BOOLEAN
      /\ ~ chat.synced => c2.range = chat.range /\ c2.items = chat.items
      /\ Cur = IF chat.synced THEN c2.range ELSE cached
      /\ Cur \in Ranges
  BY FlushedIs, ChatFields
<1>5. /\ Drawn(wire \o inbox, Course, noticed) /\ Drawn(Course, wire \o inbox, FALSE)
      /\ wire \o inbox = Course
  <2>1. \A n : Drawn(wire \o inbox, Course, n) /\ Drawn(Course, wire \o inbox, n)
    BY CourseItself
  <2> QED
    BY <2>1 DEF Course
<1>6. /\ Regular(sync, chat, cached, Flight(Course), forced, noticed)
      /\ sync.status # "none" <=> CanCatchUp /\ sync.loaded
      /\ Hears(wire, acked)
      /\ \A i \in DOMAIN wire : wire[i].kind = "notice" => chat.synced
  BY RegularNow
<1>8. /\ (can2 <=> CanCatchUp) /\ CanCatchUp \in BOOLEAN /\ can2 \in BOOLEAN
  BY <1>1, TypesNow DEF CanCatchUp, Shape
<1>14. Held' = Cur /\ UNCHANGED <<epoch, forced, noticed, cached, acked>>
  BY <1>1, <1>4 DEF Held, CurrentRange, daemonVars
<1> HIDE DEF d, can2, c2
<1>9. Regular(sync, c2, cached, Flight(Course), forced, noticed)
  BY <1>4, <1>6 DEF Regular
<1>16. ASSUME AllFounded(sync, Flight(Course), Cur, epoch, wire, <<>>)
       PROVE  Goes(sync, CanCatchUp, d, c2, cached, Course, Cur, noticed, epoch, wire, <<>>)
  <2>1. CASE d.sync = sync /\ d.fetch = NoReq
    BY <1>6, <2>1 DEF Goes
  <2>2. CASE ~ (d.sync = sync /\ d.fetch = NoReq)
    <3> DEFINE next == AfterReq(c2.range.epoch, c2.range.end)
               resume == Resume(c2, cached)  supersede == TRUE
    <3>1. /\ c2.synced /\ c2.range # NoRange
      BY <1>3, <2>2
    <3>2. Starting(sync, CanCatchUp, resume, next, supersede, next, d)
      BY <1>3, <2>2 DEF Recovering, Superseding
    <3>3. next = Base(Cur)
      BY <1>4, <3>1 DEF Base
    <3>4. /\ Apt(next, Course, Cur, noticed) /\ Founded(next, Cur, epoch, wire, <<>>)
          /\ next \in CatchUps /\ next # NoReq
      <4> DEFINE q2 == <<>>
      <4>1. AllFounded(sync, Flight(Course), Cur, epoch, wire, q2)
        BY <1>16
      <4> HIDE DEF q2
      <4>2. /\ Apt(Base(Cur), Course, Cur, noticed) /\ Founded(Base(Cur), Cur, epoch, wire, q2)
            /\ Base(Cur) \in CatchUps \ {NoReq}
        BY <1>2, <1>4, <4>1, BaseApt
      <4> QED
        BY <3>3, <4>2 DEF q2
    <3>5. resume \in CatchUps /\ resume # NoReq /\ supersede \in BOOLEAN
      <4>1. cached \in Ranges
        BY DEF Shape
      <4> QED
        BY <1>3, <4>1, ResumeIs
    <3> HIDE DEF next, resume, supersede
    <3>6. next = (IF next = NoReq THEN resume ELSE next)
      BY <3>4
    <3> QED
      BY <3>1, <3>2, <3>4, <3>5, <3>6 DEF Goes
  <2> QED
    BY <2>1, <2>2
<1> DEFINE h2 == Held'  q2 == queue'  cc == chat'  cca == cached'  ack2 == acked'
           initialize == ~ c2.synced
<1>17. /\ Regular(sync, cc, cca, Flight(Course), forced, noticed)
       /\ initialize \in BOOLEAN /\ Issue(d.fetch, initialize, init, inbox, wire)
       /\ Hears(wire, ack2)
       /\ \A i \in DOMAIN wire : wire[i].kind = "notice" => cc.synced
       /\ Advances(Held, epoch, wire, queue, h2, epoch, wire, q2)
       /\ sync.status # "none" => can2 /\ sync.loaded
  <2>1. Regular(sync, cc, cca, Flight(Course), forced, noticed)
    BY <1>1, <1>9, <1>14 DEF c2
  <2>2. Advances(Held, epoch, wire, queue, h2, epoch, wire, q2)
    BY <1>1, <1>14, FlushAdvances
  <2>3. initialize \in BOOLEAN /\ Issue(d.fetch, initialize, init, inbox, wire)
    BY <1>1 DEF c2, d
  <2>4. \A i \in DOMAIN wire : wire[i].kind = "notice" => cc.synced
    BY <1>1, <1>4, <1>6 DEF c2
  <2>5. Hears(wire, ack2) /\ (sync.status # "none" => can2 /\ sync.loaded)
    BY <1>6, <1>8, <1>14
  <2> QED
    BY <2>1, <2>2, <2>3, <2>4, <2>5
<1>18. AllFounded(sync, Flight(wire \o inbox), h2, epoch, wire, q2) =>
         Goes(sync, can2, d, cc, cca, wire \o inbox, h2, noticed, epoch, wire, q2)
  <2>1. h2 = Cur /\ q2 = <<>> /\ cc = c2 /\ cca = cached /\ can2 = CanCatchUp
    BY <1>1, <1>8, <1>14 DEF c2
  <2> HIDE DEF h2, q2, cc, cca
  <2> QED
    BY <1>5, <1>16, <2>1
<1>19. sync' = d.sync /\ d.fetch \in CatchUps /\ UNCHANGED <<epoch, forced, noticed>>
  BY <1>1, <1>3, <1>14 DEF d
<1> HIDE DEF initialize
<1> QED
  BY <1>1, <1>2, <1>5, <1>17, <1>18, <1>19, GoneCatchesUp DEF can2

-----------------------------------------------------------------------------
(* A page arrives: what it does to what is held, to the catch-up and to    *)
(* the course.                                                             *)

\* What is held after the page.
LandedHeld == IF Landed.synced THEN Landed.range ELSE cached

\* It ends where it did, with the page that replaced it, or with the page that
\* came next.
LEMMA LandedForms ==
    ASSUME Shape, wire # <<>>, Msg.kind = "page"
    PROVE  /\ LandedHeld \in Ranges
           /\ \/ LandedHeld.epoch = Cur.epoch /\ LandedHeld.end = Cur.end
              \/ LandedHeld = PageRange(Pg) /\ Pg.end = Pg.max
              \/ /\ Pg.start # 0 /\ LandedHeld.epoch = Pg.epoch /\ LandedHeld.end = Pg.end
                 /\ Cur # NoRange => Cur.epoch = Pg.epoch /\ Pg.end > Cur.end
<1>1. /\ Pg \in Pages /\ Whole(Pg)
      /\ Pg.reset \/ Pg.dir = "tail" => Pg.end = Pg.max
  BY PageArrives
<1>2. /\ Landed \in Chats /\ LandedCache \in Ranges
      /\ Reset \in BOOLEAN /\ Boot \in BOOLEAN
      /\ Landed.range = RangeWithPage(FlushedChat.range, Pg, Cur, Reset, Boot)
      /\ Pg.dir = "before" => Landed.synced = chat.synced
      /\ TailPolicy(Pg, Cur, Reset, Boot) = "discard" => Landed.synced = chat.synced
  <2>1. TailPolicy(Pg, Cur, Reset, Boot) = "discard" => Pg.dir # "before"
    BY TailPolicyIs, LandedIs
  <2> QED
    BY <2>1, LandedIs
<1>3. Cur \in Ranges /\ Cur = IF chat.synced THEN FlushedChat.range ELSE cached
  BY FlushedIs
<1>4. cached \in Ranges /\ Landed.range \in Ranges /\ Landed.synced \in BOOLEAN
  BY <1>2, ChatFields DEF Shape
<1>5. LandedHeld \in Ranges
  BY <1>4 DEF LandedHeld
<1> DEFINE policy == TailPolicy(Pg, Cur, Reset, Boot)
<1>6. /\ policy \in {"replace", "incremental", "discard", "append"}
      /\ policy = "replace" => Reset \/ Boot \/ Pg.dir = "tail"
  <2>1. ~ (Reset \/ Boot) /\ Pg.dir # "tail" => policy = "incremental"
    BY <1>2, TailPolicyIs
  <2> QED
    BY <1>2, <2>1, TailPolicyIs
<1>7. CASE ~ Landed.synced
  <2>1. ~ chat.synced
    <3>1. Pg.dir # "before" /\ chat.synced => Landed.synced
      BY LandedIs
    <3> QED
      BY <1>2, <1>7, <3>1
  <2> QED
    BY <1>3, <1>5, <1>7, <2>1 DEF LandedHeld
<1>8. CASE Landed.synced
  <2>1. LandedHeld = RangeWithPage(FlushedChat.range, Pg, Cur, Reset, Boot)
    BY <1>2, <1>8 DEF LandedHeld
  <2>2. CASE policy = "discard"
    <3>1. chat.synced
      BY <1>2, <1>8, <2>2
    <3> QED
      BY <1>3, <1>5, <2>1, <2>2, <3>1 DEF RangeWithPage
  <2>3. CASE policy = "replace"
    <3>1. LandedHeld = PageRange(Pg)
      BY <2>1, <2>3 DEF RangeWithPage
    <3>2. Pg.reset \/ Pg.dir = "tail"
      BY <1>6, <2>3 DEF Reset, Boot
    <3> QED
      BY <1>1, <1>5, <3>1, <3>2
  <2>4. CASE policy \in {"incremental", "append"} /\ Pg.dir = "before"
    <3>1. LandedHeld = IF AcceptsOlder(Pg, Cur) THEN [Cur EXCEPT !.start = Pg.start] ELSE Cur
      BY <2>1, <2>4 DEF RangeWithPage
    <3>2. AcceptsOlder(Pg, Cur) => Cur # NoRange
      BY DEF AcceptsOlder
    <3>3. Cur # NoRange => Cur = [epoch |-> Cur.epoch, start |-> Cur.start, end |-> Cur.end]
      BY <1>3, RangeFields
    <3> QED
      BY <1>5, <3>1, <3>2, <3>3
  <2>5. CASE policy \in {"incremental", "append"} /\ Pg.dir # "before"
    <3>1. LandedHeld = IF PageTaken(Pg, Cur, Reset, Boot) THEN ForwardRange(Pg, Cur) ELSE Cur
      BY <2>1, <2>5 DEF RangeWithPage
    <3>2. CASE ~ PageTaken(Pg, Cur, Reset, Boot)
      BY <1>5, <3>1, <3>2
    <3>3. CASE PageTaken(Pg, Cur, Reset, Boot)
      <4>1. AcceptsForward(Pg, Cur)
        BY <3>3 DEF PageTaken
      <4>2. /\ Pg.start # 0
            /\ Cur # NoRange => Cur.epoch = Pg.epoch /\ Pg.end > Cur.end
        BY <4>1 DEF AcceptsForward
      <4>3. /\ ForwardRange(Pg, Cur).end = Pg.end
            /\ Cur = NoRange => ForwardRange(Pg, Cur).epoch = Pg.epoch
            /\ Cur # NoRange => ForwardRange(Pg, Cur).epoch = Cur.epoch
        BY <1>1, <1>3, <4>2, ForwardRangeIs
      <4> QED
        BY <1>5, <3>1, <3>3, <4>2, <4>3
    <3> QED
      BY <3>2, <3>3
  <2> QED
    BY <1>6, <2>2, <2>3, <2>4, <2>5
<1> QED
  BY <1>4, <1>7, <1>8

\* Whatever is known to be beyond a row, the page is.
LEMMA PageBeyond ==
    ASSUME Shape, wire # <<>>, Msg.kind = "page", NEW e \in Nat, NEW s \in Nat, NEW q, Waits(e, s, wire, q)
    PROVE  Upto(e, s, Pg.epoch, Pg.max)
<1>1. Msg = wire[1] /\ 1 \in DOMAIN wire
  BY PageArrives
<1>2. Ahead(e, s, wire[1])
  BY <1>1 DEF Waits
<1> QED
  BY <1>1, <1>2 DEF Ahead, Pg

\* What the page leaves is beyond what was held.
LEMMA LandedAdvances ==
    ASSUME Shape, Positions, wire # <<>>, Msg.kind = "page"
    PROVE  Advances(Cur, epoch, wire, <<>>, LandedHeld, epoch, Tail(wire), <<>>)
<1> DEFINE h == Cur  h2 == LandedHeld  p == Pg  ws == Tail(wire)
<1>0. /\ h2 \in Ranges
      /\ \/ h2.epoch = h.epoch /\ h2.end = h.end
         \/ h2 = PageRange(p) /\ p.end = p.max
         \/ /\ p.start # 0 /\ h2.epoch = p.epoch /\ h2.end = p.end
            /\ h # NoRange => h.epoch = p.epoch /\ p.end > h.end
  BY LandedForms
<1>1. /\ p \in Pages /\ Whole(p) /\ p.epoch \in Nat /\ p.max \in Nat /\ p.end \in Nat /\ p.epoch <= epoch
      /\ Msg = wire[1] /\ 1 \in DOMAIN wire /\ ws \in Seq(Outbound) /\ Thinned(ws, wire)
      /\ p.reset \/ p.dir = "tail" => p.start = 0 <=> p.max = 0
  BY PageArrives, PageFields
<1>2. h \in Ranges /\ wire \in Seq(Outbound) /\ epoch \in Nat
  BY FlushedIs, CourseTyped, NowIs
<1>3. h # NoRange => Waits(h.epoch, h.end, wire, <<>>)
  <2>1. Reached(FlushedChat.range, wire, <<>>, epoch, rows)
    BY FlushedReached
  <2>2. Reached(cached, wire, queue, epoch, rows)
    BY DEF Positions
  <2>3. cached # NoRange => Waits(cached.epoch, cached.end, wire, <<>>)
    BY <2>2 DEF Reached, Waits
  <2>4. Cur = IF chat.synced THEN FlushedChat.range ELSE cached
    BY FlushedIs
  <2> QED
    BY <2>1, <2>3, <2>4 DEF Reached
<1>4. \A e \in Nat, s \in Nat : Waits(e, s, wire, <<>>) => Upto(e, s, p.epoch, p.max)
  BY PageBeyond
<1>5. \A j \in DOMAIN ws : Ahead(p.epoch, p.max, ws[j])
  <2>1. \A j \in DOMAIN wire : 1 < j => Follows(wire[1], wire[j])
    BY <1>1 DEF Positions, Lined
  <2>2. \A j \in DOMAIN ws : ws[j] = wire[j + 1] /\ j + 1 \in DOMAIN wire /\ 1 < j + 1
    BY <1>2, ThinnedTail
  <2> QED
    BY <1>1, <2>1, <2>2 DEF Follows, Pg
<1>6. /\ h.epoch \in Nat /\ h.end \in Nat /\ h2.epoch \in Nat /\ h2.end \in Nat
      /\ (h # NoRange <=> h.end # 0) /\ (h2 # NoRange <=> h2.end # 0)
      /\ (h # NoRange <=> h.epoch # 0) /\ (h2 # NoRange <=> h2.epoch # 0)
  BY <1>0, <1>2, RangeFields
<1>7. /\ p.start = 0 => PageRange(p) = NoRange /\ p.end = 0
      /\ p.start # 0 => PageRange(p) # NoRange /\ PageRange(p).epoch = p.epoch /\ PageRange(p).end = p.end
  BY <1>1, PageRangeIs DEF PageRange, Whole
<1> HIDE DEF h, h2, p, ws
<1>8. ASSUME h # NoRange, h2 # NoRange PROVE Upto(h.epoch, h.end, h2.epoch, h2.end)
  <2>1. Upto(h.epoch, h.end, p.epoch, p.max)
    BY <1>3, <1>4, <1>6, <1>8
  <2>2. CASE h2.epoch = h.epoch /\ h2.end = h.end
    BY <1>6, <2>2 DEF Upto
  <2>3. CASE h2 = PageRange(p) /\ p.end = p.max
    BY <1>7, <1>8, <2>1, <2>3
  <2>4. CASE /\ p.start # 0 /\ h2.epoch = p.epoch /\ h2.end = p.end
             /\ h # NoRange => h.epoch = p.epoch /\ p.end > h.end
    BY <1>1, <1>6, <1>8, <2>4 DEF Upto
  <2> QED
    BY <1>0, <2>2, <2>3, <2>4
<1>9. ASSUME h # NoRange, h2 = NoRange PROVE h.epoch < epoch /\ Waits(h.epoch + 1, 0, ws, <<>>)
  <2>1. Upto(h.epoch, h.end, p.epoch, p.max)
    BY <1>3, <1>4, <1>6, <1>9
  <2>2. h2 = PageRange(p) /\ p.end = p.max
    BY <1>0, <1>1, <1>6, <1>9
  <2>3. p.max = 0
    BY <1>7, <1>9, <2>2
  <2>4. h.epoch < p.epoch
    BY <1>1, <1>6, <1>9, <2>1, <2>3 DEF Upto
  <2>5. Upto(h.epoch + 1, 0, p.epoch, p.max)
    BY <1>1, <1>6, <2>3, <2>4 DEF Upto
  <2>6. ASSUME NEW j \in DOMAIN ws PROVE Ahead(h.epoch + 1, 0, ws[j])
    <3>1. ws[j] \in Outbound /\ Ahead(p.epoch, p.max, ws[j])
      BY <1>1, <1>5, <2>6
    <3>2. h.epoch + 1 \in Nat /\ 0 \in Nat
      BY <1>6
    <3> DEFINE e == h.epoch + 1
    <3>3. e \in Nat /\ Upto(e, 0, p.epoch, p.max)
      BY <2>5, <3>2
    <3> HIDE DEF e
    <3>4. Ahead(e, 0, ws[j])
      BY <1>1, <3>1, <3>3, AheadTransitive
    <3> QED
      BY <3>4 DEF e
  <2> QED
    BY <1>1, <1>2, <1>6, <2>4, <2>6 DEF Waits
<1>10. ASSUME h = NoRange, h2 # NoRange, NEW e \in Nat, e <= epoch, Waits(e, 0, wire, <<>>)
       PROVE  e <= h2.epoch
  <2>1. Upto(e, 0, p.epoch, p.max)
    BY <1>4, <1>10
  <2>2. h2.epoch = p.epoch
    BY <1>0, <1>6, <1>7, <1>10
  <2> QED
    BY <1>1, <2>1, <2>2 DEF Upto
<1>11. ASSUME NEW e \in Nat, Waits(e, 0, wire, <<>>) PROVE Waits(e, 0, ws, <<>>)
  <2> DEFINE q == <<>>
  <2>1. q \in Seq(Rows) /\ Waits(e, 0, wire, q)
    BY <1>11
  <2> HIDE DEF q
  <2>2. Waits(e, 0, ws, q)
    BY <1>1, <1>2, <2>1, WaitsThinned
  <2> QED
    BY <2>2 DEF q
<1>12. epoch <= epoch
  BY <1>2
<1>13. Advances(h, epoch, wire, <<>>, h2, epoch, ws, <<>>)
  BY <1>8, <1>9, <1>10, <1>11, <1>12 DEF Advances
<1> QED
  BY <1>13 DEF h, h2, ws

\* What is on its way behind the page, and whether a notice still waits for it.
Behinds == Tail(wire) \o inbox
StillNoticed == noticed /\ Pg.dir # "tail"

LEMMA PageTyped ==
    ASSUME Shape, wire # <<>>, Msg.kind = "page"
    PROVE  /\ Behinds \in Seq(Msgs) /\ Flight(Behinds) \in SUBSET Reqs /\ StillNoticed \in BOOLEAN
           /\ Cur \in Ranges /\ LandedHeld \in Ranges /\ epoch \in Nat
           /\ Tail(wire) \in Seq(Outbound) /\ Thinned(Tail(wire), wire) /\ <<>> \in Seq(Rows)
           /\ Msg = wire[1] /\ Asks(wire[1]) /\ Msg.req \in Reqs /\ Pg.dir = Msg.req.dir
           /\ (Pg.dir = "tail" <=> Msg.req = TailReq)
<1>1. /\ Msg = wire[1] /\ Msg.req \in Reqs /\ Pg.dir = Msg.req.dir
      /\ Tail(wire) \in Seq(Outbound) /\ Thinned(Tail(wire), wire)
  BY PageArrives
<1>2. Behinds \in Seq(Msgs) /\ Flight(Behinds) \in SUBSET Reqs
  BY <1>1, CourseTyped, PartTyped DEF Behinds
<1>3. Asks(wire[1])
  BY <1>1 DEF Asks
<1>4. Pg.dir = "tail" <=> Msg.req = TailReq
  BY <1>1, ReqFields
<1>5. Cur \in Ranges /\ LandedHeld \in Ranges /\ epoch \in Nat /\ noticed \in BOOLEAN
  BY FlushedIs, LandedForms, NowIs, CourseTyped
<1> QED
  BY <1>1, <1>2, <1>3, <1>4, <1>5 DEF StillNoticed

\* The page is taken from the wire, and the rows that waited are applied.
LEMMA PageParts ==
    ASSUME Shape, Positions, CatchesUp, wire # <<>>, Msg.kind = "page"
    PROVE  /\ Flight(Behinds) = Flight(Course) \ {Msg.req} /\ Msg.req \in Flight(Course)
           /\ Ordered(Behinds, Cur, noticed, sync.await)
           /\ Msg.req = sync.await => Calm(Behinds, Cur, noticed)
           /\ sync.status \in {"complete", "error"} => Calm(Behinds, Cur, noticed)
           /\ sync.status \in {"complete", "error"} => ~ Fresh(Msg, Held, noticed)
           /\ AllFounded(sync, Flight(Course), Cur, epoch, wire, <<>>)
           /\ AllFounded(sync, Flight(Behinds), Cur, epoch, wire, <<>>)
<1>1. /\ Behinds \in Seq(Msgs) /\ Flight(Behinds) \in SUBSET Reqs
      /\ Cur \in Ranges /\ epoch \in Nat /\ <<>> \in Seq(Rows)
      /\ Msg = wire[1] /\ Asks(wire[1])
  BY PageTyped
<1>2. /\ Course \in Seq(Msgs) /\ Flight(Course) \in SUBSET Reqs
      /\ wire \in Seq(Outbound) /\ inbox \in Seq(Inbound) /\ queue \in Seq(Rows)
      /\ sync \in Syncs /\ noticed \in BOOLEAN /\ Held \in Ranges
  BY CourseTyped
<1>3. /\ Ordered(Course, Held, noticed, sync.await)
      /\ sync.status \in {"complete", "error"} => Calm(Course, Held, noticed)
      /\ AllFounded(sync, Flight(Course), Held, epoch, wire, queue)
  BY DEF CatchesUp, Streams, Flows, Grounds
<1>4. /\ Flight(Behinds) = Flight(Course) \ {Msg.req} /\ Msg.req \in Flight(Course)
      /\ Ordered(Behinds, Held, noticed, sync.await)
      /\ Msg.req = sync.await => Calm(Behinds, Held, noticed)
      /\ Calm(Course, Held, noticed) => Calm(Behinds, Held, noticed)
  <2>1. Ordered(wire \o inbox, Held, noticed, sync.await)
    BY <1>3 DEF Course
  <2>2. /\ Flight(Tail(wire) \o inbox) = Flight(wire \o inbox) \ {wire[1].req}
        /\ wire[1].req \in Flight(wire \o inbox)
        /\ Ordered(Tail(wire) \o inbox, Held, noticed, sync.await)
        /\ wire[1].req = sync.await => Calm(Tail(wire) \o inbox, Held, noticed)
        /\ Calm(wire \o inbox, Held, noticed) => Calm(Tail(wire) \o inbox, Held, noticed)
    BY <1>1, <1>2, <2>1, HeadTaken
  <2> QED
    BY <1>1, <2>2 DEF Course, Behinds
<1>5. /\ AllFounded(sync, Flight(Course), Cur, epoch, wire, <<>>)
      /\ \A r \in Flight(Course) : r.dir = "after" /\ Spent(r, Held) => Spent(r, Cur)
  <2> DEFINE fl == Flight(Course)  h == Held  h2 == Cur  q2 == <<>>
  <2>1. /\ h \in Ranges /\ epoch \in Nat /\ h2 \in Ranges /\ wire \in Seq(Outbound) /\ q2 \in Seq(Rows)
        /\ sync \in Syncs /\ fl \in SUBSET Reqs /\ AllFounded(sync, fl, h, epoch, wire, queue)
        /\ Advances(h, epoch, wire, queue, h2, epoch, wire, q2)
    BY <1>1, <1>2, <1>3, FlushAdvances
  <2> HIDE DEF fl, h, h2, q2
  <2>2. /\ AllFounded(sync, fl, h2, epoch, wire, q2)
        /\ \A r \in fl : r.dir = "after" /\ Spent(r, h) => Spent(r, h2)
    BY <2>1, GroundsMove
  <2> QED
    BY <2>2 DEF fl, h, h2, q2
<1>6. Moves(Behinds, Held, Cur, noticed, noticed, sync.await, sync.await)
  BY <1>4, <1>5 DEF Moves
<1>7. /\ Ordered(Behinds, Held, noticed, sync.await) => Ordered(Behinds, Cur, noticed, sync.await)
      /\ Calm(Behinds, Held, noticed) => Calm(Behinds, Cur, noticed)
  BY <1>2, <1>6, CourseMoves
<1>8. AllFounded(sync, Flight(Behinds), Cur, epoch, wire, <<>>)
  BY <1>4, <1>5 DEF AllFounded
<1>9. Calm(Course, Held, noticed) => ~ Fresh(Msg, Held, noticed)
  <2>1. 1 \in DOMAIN Course /\ Course[1] = wire[1]
    BY <1>2, CourseIs DEF Course
  <2> QED
    BY <1>1, <2>1 DEF Calm
<1> QED
  BY <1>3, <1>4, <1>5, <1>7, <1>8, <1>9

\* The page moves what is held: what is in flight stays in order.
LEMMA LandedMoves ==
    ASSUME Shape, Positions, wire # <<>>, Msg.kind = "page",
           NEW cs, Flight(cs) \in SUBSET Reqs, TailReq \in Flight(cs) => Pg.dir # "tail",
           NEW t \in Syncs, AllFounded(t, Flight(cs), Cur, epoch, wire, <<>>)
    PROVE  /\ AllFounded(t, Flight(cs), LandedHeld, epoch, Tail(wire), <<>>)
           /\ \A await : Ordered(cs, Cur, noticed, await) => Ordered(cs, LandedHeld, StillNoticed, await)
           /\ Calm(cs, Cur, noticed) => Calm(cs, LandedHeld, StillNoticed)
<1>1. /\ Cur \in Ranges /\ LandedHeld \in Ranges /\ epoch \in Nat /\ StillNoticed \in BOOLEAN
      /\ Tail(wire) \in Seq(Outbound) /\ <<>> \in Seq(Rows) /\ noticed \in BOOLEAN
      /\ wire \in Seq(Outbound)
  BY PageTyped, CourseTyped
<1> DEFINE h == Cur  h2 == LandedHeld  ntc2 == StillNoticed  fl == Flight(cs)  q2 == <<>>  ws == Tail(wire)
<1>2. /\ Advances(h, epoch, wire, q2, h2, epoch, ws, q2)
      /\ q2 \in Seq(Rows) /\ h \in Ranges /\ h2 \in Ranges /\ ws \in Seq(Outbound) /\ ntc2 \in BOOLEAN
      /\ AllFounded(t, fl, h, epoch, wire, q2) /\ fl \in SUBSET Reqs
      /\ noticed => ntc2 \/ TailReq \notin fl
  BY <1>1, LandedAdvances DEF StillNoticed
<1> HIDE DEF h, h2, ntc2, fl, q2, ws
<1>3. /\ AllFounded(t, fl, h2, epoch, ws, q2)
      /\ \A r \in fl : r.dir = "after" /\ Spent(r, h) => Spent(r, h2)
  BY <1>1, <1>2, GroundsMove
<1>4. ASSUME NEW await
      PROVE  /\ Ordered(cs, h, noticed, await) => Ordered(cs, h2, ntc2, await)
             /\ Calm(cs, h, noticed) => Calm(cs, h2, ntc2)
  <2>1. Moves(cs, h, h2, noticed, ntc2, await, await)
    BY <1>2, <1>3 DEF Moves, fl
  <2> QED
    BY <1>1, <1>2, <2>1, CourseMoves
<1>5. \A await : Ordered(cs, h, noticed, await) => Ordered(cs, h2, ntc2, await)
  BY <1>4
<1>6. Calm(cs, h, noticed) => Calm(cs, h2, ntc2)
  BY <1>4
<1> QED
  BY <1>3, <1>5, <1>6 DEF h, h2, ntc2, fl, q2, ws

\* A page that comes after what was held has no gap before it: its request did
\* not ask beyond what is held.
LEMMA GapNever ==
    ASSUME Shape, Positions, CatchesUp, wire # <<>>, Msg.kind = "page"
    PROVE  /\ ~ GapAfter
           /\ Pg.dir = "after" /\ ~ Pg.reset /\ Cur # NoRange =>
                Upto(Msg.req.epoch, Msg.req.seq, Cur.epoch, Cur.end) /\ Msg.req.epoch = Pg.epoch
                /\ (Pg.start # 0 => Pg.start = Msg.req.seq + 1)
<1>1. /\ Pg \in Pages /\ Pg.dir = Msg.req.dir /\ Msg.req \in Reqs
      /\ ~ Pg.reset /\ Pg.dir = "after" =>
           /\ Pg.epoch = Msg.req.epoch
           /\ Pg.start # 0 => Pg.start = Msg.req.seq + 1
  BY PageArrives
<1>2. Founded(Msg.req, Cur, epoch, wire, <<>>)
  BY PageParts DEF AllFounded
<1>3. Pg.dir = "after" /\ ~ Pg.reset /\ Cur # NoRange =>
        Upto(Msg.req.epoch, Msg.req.seq, Cur.epoch, Cur.end)
  BY <1>1, <1>2 DEF Founded
<1>4. ~ GapAfter
  <2> SUFFICES ASSUME GapAfter PROVE FALSE
    OBVIOUS
  <2>1. /\ TailPolicy(Pg, Cur, Reset, Boot) = "incremental" /\ Pg.dir = "after"
        /\ Pg.start # 0 /\ Cur # NoRange /\ Cur.epoch = Pg.epoch /\ Pg.start > Cur.end + 1
    BY DEF GapAfter, LeavesGap
  <2>2. ~ Pg.reset
    BY <2>1 DEF TailPolicy, Reset
  <2>3. Upto(Msg.req.epoch, Msg.req.seq, Cur.epoch, Cur.end) /\ Pg.epoch = Msg.req.epoch
        /\ Pg.start = Msg.req.seq + 1
    BY <1>1, <1>3, <2>1, <2>2
  <2>4. Cur.epoch \in Nat /\ Cur.end \in Nat /\ Msg.req.seq \in Nat /\ Pg.start \in Nat /\ Msg.req.epoch \in Nat
    BY <1>1, <2>1, FlushedIs, RangeFields, PageFields, ReqFields
  <2> QED
    BY <2>1, <2>3, <2>4 DEF Upto
<1> QED
  BY <1>1, <1>3, <1>4

\* A page that leaves the chat unsynced is a first page after the painted range,
\* and not the last one.
LEMMA PageUnsynced ==
    ASSUME Shape, CatchesUp, wire # <<>>, Msg.kind = "page"
    PROVE  /\ sync.loaded /\ Msg.req \in Flight(Course)
           /\ Landed \in Chats /\ LandedCache \in Ranges
           /\ Landed.synced \in BOOLEAN /\ Landed.newer \in BOOLEAN
           /\ chat.synced => Landed.synced
           /\ Landed.synced => LandedCache = NoRange /\ LandedHeld = Landed.range
           /\ ~ Landed.synced =>
                /\ ~ chat.synced /\ Pg.dir = "after" /\ Pg.newer /\ cached # NoRange
                /\ LandedCache = cached /\ LandedHeld = cached
                /\ sync.status \in {"running", "error"}
<1>1. /\ Msg = wire[1] /\ Pg.dir = Msg.req.dir /\ Msg.req \in Reqs /\ Pg \in Pages
      /\ Pg.reset \/ Pg.dir = "tail" => Pg.newer = FALSE
  BY PageArrives
<1>2. Msg.req \in Flight(Course)
  <2>1. Asks(wire[1]) /\ wire \in Seq(Outbound) /\ inbox \in Seq(Inbound)
    BY PageTyped, CourseTyped
  <2>2. 1 \in DOMAIN Course /\ Course[1] = wire[1]
    BY <2>1, CourseIs DEF Course
  <2> QED
    BY <1>1, <2>1, <2>2 DEF Flight
<1>3. /\ Landed \in Chats /\ LandedCache \in Ranges /\ Reset \in BOOLEAN /\ Boot \in BOOLEAN
      /\ Landed.synced \in BOOLEAN /\ Landed.newer \in BOOLEAN
      /\ Pg.dir = "before" => Landed.synced = chat.synced
      /\ Pg.dir # "before" =>
           /\ chat.synced => Landed.synced
           /\ TailPolicy(Pg, Cur, Reset, Boot) # "discard" /\ (Pg.dir = "tail" \/ ~ Pg.newer) => Landed.synced
  BY LandedIs, ChatFields
<1>4. /\ Regular(sync, chat, cached, Flight(Course), forced, noticed)
      /\ sync.status # "none" <=> CanCatchUp /\ sync.loaded
  BY RegularNow
<1>5. sync.loaded
  <2> SUFFICES ASSUME ~ sync.loaded PROVE FALSE
    OBVIOUS
  <2>1. ~ chat.synced /\ cached = NoRange /\ sync.status = "none"
    BY <1>4 DEF Regular
  <2>2. Msg.req = TailReq /\ Msg.req.dir = "before"
    BY <1>2, <1>4, <2>1 DEF Regular
  <2> QED
    BY <2>2 DEF TailReq
<1>6. ASSUME ~ Landed.synced
      PROVE  /\ ~ chat.synced /\ Pg.dir = "after" /\ Pg.newer /\ cached # NoRange
             /\ LandedCache = cached /\ LandedHeld = cached
             /\ sync.status \in {"running", "error"}
  <2>1. ~ chat.synced
    BY <1>1, <1>3, <1>6
  <2>2. \/ Msg.req = TailReq /\ (cached = NoRange \/ (cached # NoRange /\ sync.latest))
        \/ Msg.req = AfterReq(cached.epoch, cached.end) /\ cached # NoRange
    BY <1>2, <1>4, <2>1 DEF Regular
  <2>3. Cur = cached
    BY <2>1, FlushedIs
  <2>4. Msg.req # TailReq
    <3> SUFFICES ASSUME Msg.req = TailReq PROVE FALSE
      OBVIOUS
    <3>1. Pg.dir = "tail"
      BY <1>1 DEF TailReq
    <3>2. TailPolicy(Pg, Cur, Reset, Boot) = "discard"
      BY <1>3, <1>6, <3>1
    <3>3. ~ Reset /\ cached # NoRange
      BY <2>3, <3>2 DEF TailPolicy
    <3>4. sync.latest
      BY <2>2, <3>3 DEF AfterReq, TailReq
    <3>5. forced
      BY <1>4, <3>4 DEF Regular
    <3> QED
      BY <3>1, <3>3, <3>5 DEF Reset
  <2>5. Pg.dir = "after" /\ cached # NoRange
    BY <1>1, <2>2, <2>4 DEF AfterReq
  <2>6. TailPolicy(Pg, Cur, Reset, Boot) # "discard"
    <3>1. TailPolicy(Pg, Cur, Reset, Boot) \in {"discard", "append"} => Pg.dir = "tail" /\ Cur # NoRange
      BY <1>3, TailPolicyIs
    <3> QED
      BY <2>5, <3>1
  <2>7. Pg.newer
    BY <1>3, <1>6, <2>5, <2>6
  <2>8. sync.status \in {"running", "error"}
    <3>1. sync \in Syncs
      BY CourseTyped
    <3>2. sync.status # "none"
      BY <1>1, <1>2, <1>4, <2>5 DEF Regular
    <3>3. sync.status # "complete"
      BY <1>4, <2>1 DEF Regular
    <3> QED
      BY <3>1, <3>2, <3>3, SyncFields
  <2> QED
    BY <1>6, <2>1, <2>5, <2>7, <2>8 DEF LandedCache, LandedHeld
<1>7. chat.synced => Landed.synced
  BY <1>1, <1>3, <1>6
<1>8. Landed.synced => LandedCache = NoRange /\ LandedHeld = Landed.range
  BY DEF LandedCache, LandedHeld
<1> QED
  BY <1>2, <1>3, <1>5, <1>6, <1>7, <1>8

\* A page after a row of the present epoch is not one of a spent request.
LEMMA PageUnspent ==
    ASSUME Shape, Positions, CatchesUp, wire # <<>>, Msg.kind = "page",
           Pg.dir = "after", ~ Pg.reset, chat.synced
    PROVE  Fresh(Msg, Held, noticed)
<1>1. /\ Msg = wire[1] /\ Msg.req \in Reqs /\ Msg.req.dir = "after" /\ Pg \in Pages
      /\ Pg.epoch = Msg.req.epoch
  BY PageArrives
<1>2. Msg.req.epoch \in Nat /\ Pg.epoch \in Nat /\ Pg.max \in Nat
  BY <1>1, ReqFields, PageFields
<1>3. Msg.req \in Flight(Course)
  BY PageUnsynced
<1>4. Founded(Msg.req, Held, epoch, wire, queue)
  BY <1>3 DEF CatchesUp, Grounds, AllFounded
<1>5. Held = chat.range /\ Held \in Ranges /\ Held.epoch \in Nat /\ Held.end \in Nat
  BY CourseTyped, RangeFields DEF Held, CurrentRange
<1>6. ~ Spent(Msg.req, Held)
  <2> SUFFICES ASSUME Spent(Msg.req, Held) PROVE FALSE
    OBVIOUS
  <2>1. CASE Held = NoRange
    <3> DEFINE e == Msg.req.epoch + 1
    <3>1. e \in Nat /\ Waits(e, 0, wire, queue) /\ 0 \in Nat
      BY <1>1, <1>2, <1>4, <2>1 DEF Founded
    <3> HIDE DEF e
    <3>2. Upto(e, 0, Pg.epoch, Pg.max)
      BY <3>1, PageBeyond
    <3> QED
      BY <1>1, <1>2, <3>2 DEF Upto, e
  <2>2. CASE Held # NoRange
    <3>1. Msg.req.epoch < Held.epoch
      BY <2>2 DEF Spent
    <3>2. Waits(Held.epoch, Held.end, wire, queue)
      BY <1>5, <2>2 DEF Positions, Reached
    <3>3. Upto(Held.epoch, Held.end, Pg.epoch, Pg.max)
      BY <1>5, <3>2, PageBeyond
    <3> QED
      BY <1>1, <1>2, <1>5, <3>1, <3>3 DEF Upto
  <2> QED
    BY <2>1, <2>2
<1>7. Asks(Msg)
  BY DEF Asks
<1> QED
  BY <1>1, <1>6, <1>7 DEF Fresh

\* The page after it does not ask beyond what a page has left.
LEMMA NextFounded ==
    ASSUME Shape, Positions, CatchesUp, wire # <<>>, Msg.kind = "page",
           Pg.dir = "after", Pg.newer, Landed.synced
    PROVE  Founded(AfterReq(Pg.epoch, Pg.end), LandedHeld, epoch, Tail(wire), <<>>)
<1> DEFINE p == Pg
<1>1. /\ p \in Pages /\ Whole(p) /\ p.end # 0 /\ ~ p.reset /\ Msg.req.seq \in Nat /\ Msg.req.epoch \in Nat
      /\ p.start \in Nat /\ p.end \in Nat /\ p.epoch \in Nat /\ p.start # 0 /\ p.entries # <<>>
      /\ p.entries \in Seq(Entries) /\ p.start <= p.end
  <2>1. /\ p \in Pages /\ Whole(p) /\ p.end # 0 /\ ~ p.reset /\ Msg.req \in Reqs /\ Pg.dir = Msg.req.dir
        /\ p.start <= p.end
    BY PageArrives
  <2>2. p.start # 0 /\ p.entries # <<>>
    BY <2>1 DEF Whole
  <2> QED
    BY <2>1, <2>2, PageFields, ReqFields
<1>2. ~ Reset /\ ~ Boot /\ Reset \in BOOLEAN /\ Boot \in BOOLEAN
  BY <1>1 DEF Reset, Boot
<1>3. TailPolicy(p, Cur, Reset, Boot) = "incremental"
  BY <1>2 DEF TailPolicy
<1>4. Landed.range = IF PageTaken(p, Cur, Reset, Boot) THEN ForwardRange(p, Cur) ELSE Cur
  <2>1. Landed.range = RangeWithPage(FlushedChat.range, p, Cur, Reset, Boot)
    BY LandedIs
  <2> QED
    BY <1>3, <2>1 DEF RangeWithPage
<1>5. LandedHeld = Landed.range /\ Cur \in Ranges /\ Cur.epoch \in Nat /\ Cur.end \in Nat
  BY PageUnsynced, FlushedIs, RangeFields
<1>6. Units(p, Cur, FALSE) # <<>>
  <2> DEFINE all == ItemsOf(p)  at == {i \in DOMAIN all : FALSE => all[i].end > Cur.end}
  <2>1. all \in Seq(ShownItems) /\ Len(all) = Len(p.entries)
    BY <1>1, ItemsOfType
  <2>2. at = DOMAIN all /\ at \in SUBSET DOMAIN all
    OBVIOUS
  <2>3. 1 \in DOMAIN all
    BY <1>1, <2>1
  <2>4. Units(p, Cur, FALSE) = Only(all, at)
    BY DEF Units
  <2> HIDE DEF all, at
  <2>5. \A i \in at : \E k \in DOMAIN Only(all, at) : Only(all, at)[k] = all[i]
    BY <2>1, <2>2, OnlyType
  <2>6. DOMAIN Only(all, at) # {}
    BY <2>2, <2>3, <2>5
  <2>7. Only(all, at) # <<>>
    BY <2>6
  <2> QED
    BY <2>4, <2>7
<1>7. PageTaken(p, Cur, Reset, Boot) <=> AcceptsForward(p, Cur)
  <2>1. PageTaken(p, Cur, Reset, Boot) <=> Units(p, Cur, FALSE) # <<>> /\ AcceptsForward(p, Cur)
    BY <1>3 DEF PageTaken
  <2> QED
    BY <1>6, <2>1
<1>8. Cur # NoRange => /\ Upto(Msg.req.epoch, Msg.req.seq, Cur.epoch, Cur.end)
                       /\ Msg.req.epoch = p.epoch /\ p.start = Msg.req.seq + 1
  BY <1>1, GapNever
<1>9. LandedHeld # NoRange /\ Upto(p.epoch, p.end, LandedHeld.epoch, LandedHeld.end)
  <2>1. CASE AcceptsForward(p, Cur)
    <3>1. LandedHeld = ForwardRange(p, Cur)
      BY <1>4, <1>5, <1>7, <2>1
    <3>2. /\ LandedHeld # NoRange /\ LandedHeld.end = p.end
          /\ Cur = NoRange => LandedHeld.epoch = p.epoch
          /\ Cur # NoRange => LandedHeld.epoch = Cur.epoch
      BY <1>1, <1>5, <3>1, ForwardRangeIs
    <3>3. Cur # NoRange => Cur.epoch = p.epoch
      BY <2>1 DEF AcceptsForward
    <3> QED
      BY <1>1, <3>2, <3>3 DEF Upto
  <2>2. CASE ~ AcceptsForward(p, Cur)
    <3>1. LandedHeld = Cur
      BY <1>4, <1>5, <1>7, <2>2
    <3>2. Cur # NoRange
      BY <1>1, <2>2 DEF AcceptsForward
    <3>3. ~ (Cur.epoch = p.epoch /\ p.end > Cur.end /\ p.start <= Cur.end + 1)
      BY <1>1, <2>2 DEF AcceptsForward
    <3> QED
      BY <1>1, <1>5, <1>8, <3>1, <3>2, <3>3 DEF Upto
  <2> QED
    BY <2>1, <2>2
<1>10. AfterReq(p.epoch, p.end).epoch = p.epoch /\ AfterReq(p.epoch, p.end).seq = p.end
  BY DEF AfterReq
<1> QED
  BY <1>9, <1>10 DEF Founded

\* A catch-up that fetches next, and owes nothing.
Bound(t, next) ==
  /\ t.status = "running" /\ t.req = next /\ t.await = next /\ ~ t.fallback /\ ~ t.latest
  /\ t.pending = NoReq /\ t.loaded

\* What a recovery from one of the requests nexts comes to: nothing, or the
\* request is owed, or fetched.
Steers(s, can, nexts, t, f) ==
  \/ f = NoReq /\ AsBefore(t, s) /\ t.pending = s.pending
  \/ /\ f = NoReq /\ AsBefore(t, s) /\ t.pending \in nexts
     /\ s.status = "none" \/ (s.status = "running" /\ s.req.dir = "tail")
  \/ can /\ s.loaded /\ f \in nexts /\ Bound(t, f)

Rerouted(s, can, nexts, t, f) ==
  \/ /\ f = NoReq /\ AsBefore(t, s)
     /\ t.pending = s.pending \/ (t.pending \in nexts /\ s.status \in {"none", "running"})
  \/ can /\ s.loaded /\ f \in nexts /\ Bound(t, f)

LEMMA SupersedingSteers ==
    ASSUME NEW s, NEW can \in BOOLEAN, NEW resume, NEW next, next # NoReq, NEW d,
           Superseding(s, can, resume, next, d), s.loaded \in BOOLEAN,
           s.status # "none" => can /\ s.loaded, NEW nexts, next \in nexts
    PROVE  Steers(s, can, nexts, d.sync, d.fetch)
<1>1. Starting(s, can, resume, next, TRUE, next, d)
  BY DEF Superseding
<1>2. CASE ~ can \/ ~ s.loaded
  <2>1. /\ d.fetch = NoReq /\ AsBefore(d.sync, s) /\ d.sync.pending = next
    BY <1>1, <1>2 DEF Starting
  <2> QED
    BY <1>2, <2>1 DEF Steers
<1>3. CASE /\ can /\ s.loaded
           /\ s.status = "running" /\ s.req.dir = "tail" /\ s.req # next
           /\ d.fetch = NoReq /\ AsBefore(d.sync, s) /\ d.sync.pending = next
  BY <1>3 DEF Steers
<1>4. CASE d.fetch = NoReq /\ d.sync = s
  BY <1>4 DEF Steers, AsBefore
<1>5. CASE can /\ s.loaded /\ d.fetch = next /\ Begun(d.sync, next, resume)
  BY <1>5 DEF Steers, Begun, Bound
<1> QED
  BY <1>1, <1>2, <1>3, <1>4, <1>5 DEF Starting

LEMMA SteersTwice ==
    ASSUME NEW s, NEW can, NEW nexts, \A n \in nexts : n # NoReq /\ n.dir = "after",
           NEW a, NEW f, NEW b, NEW g, Steers(s, can, nexts, a, f), Steers(a, can, nexts, b, g),
           NEW h, h = IF g # NoReq THEN g ELSE f
    PROVE  Rerouted(s, can, nexts, b, h)
<1>1. CASE f = NoReq /\ AsBefore(a, s) /\ a.pending = s.pending
  BY <1>1 DEF Steers, Rerouted, AsBefore
<1>2. CASE /\ f = NoReq /\ AsBefore(a, s) /\ a.pending \in nexts
           /\ s.status = "none" \/ (s.status = "running" /\ s.req.dir = "tail")
  BY <1>2 DEF Steers, Rerouted, AsBefore
<1>3. CASE can /\ s.loaded /\ f \in nexts /\ Bound(a, f)
  <2>1. CASE g = NoReq /\ AsBefore(b, a) /\ b.pending = a.pending
    <3>1. Bound(b, f) /\ h = f
      BY <1>3, <2>1 DEF Bound, AsBefore
    <3> QED
      BY <1>3, <3>1 DEF Rerouted
  <2>2. CASE /\ g = NoReq /\ AsBefore(b, a) /\ b.pending \in nexts
             /\ a.status = "none" \/ (a.status = "running" /\ a.req.dir = "tail")
    BY <1>3, <2>2 DEF Bound
  <2>3. CASE can /\ a.loaded /\ g \in nexts /\ Bound(b, g)
    BY <1>3, <2>3 DEF Rerouted
  <2> QED
    BY <2>1, <2>2, <2>3 DEF Steers
<1> QED
  BY <1>1, <1>2, <1>3 DEF Steers

\* The requests that what a page has left of the chat may be continued with.
Recoveries == {n \in {Base(Cur), Base(LandedHeld)} : n.dir = "after" /\ Landed.synced}
Detour == IF SecondStart.fetch # NoReq THEN SecondStart.fetch ELSE FirstStart.fetch

LEMMA PageReroutes ==
    ASSUME Shape, Positions, CatchesUp, wire # <<>>, Msg.kind = "page"
    PROVE  /\ Rerouted(sync, CanCatchUp, Recoveries, SecondStart.sync, Detour)
           /\ SecondStart.sync \in Syncs /\ Detour \in CatchUps
           /\ FirstStart.fetch = NoReq /\ SecondStart.fetch = NoReq <=> Detour = NoReq
<1> DEFINE a == FirstStart.sync  f == FirstStart.fetch  b == SecondStart.sync  g == SecondStart.fetch
           s == sync  can == CanCatchUp  nexts == Recoveries  resume == ResumeNow
<1>1. /\ a \in Syncs /\ f \in CatchUps /\ b \in Syncs /\ g \in CatchUps
      /\ Recovering(s, resume, FlushedChat.range, FirstStart)
      /\ ~ RowsLeaveGap(chat, queue) => a = s /\ f = NoReq
      /\ Recovering(a, resume, SecondRange, SecondStart)
      /\ ~ (Boot /\ Pg.end # 0) /\ ~ GapAfter => b = a /\ g = NoReq
  BY PageStartsAre
<1>2. can \in BOOLEAN /\ s \in Syncs /\ s.loaded \in BOOLEAN /\ (s.status # "none" => can /\ s.loaded)
  BY TypesNow, RegularNow, SyncFields
<1>3. \A n \in nexts : n # NoReq /\ n.dir = "after"
  BY DEF Recoveries, NoReq
<1>4. Steers(s, can, nexts, a, f)
  <2>1. CASE a = s /\ f = NoReq
    BY <2>1 DEF Steers, AsBefore
  <2>2. CASE ~ (a = s /\ f = NoReq)
    <3> DEFINE next == AfterReq(FlushedChat.range.epoch, FlushedChat.range.end)
    <3>1. RowsLeaveGap(chat, queue) /\ FlushedChat.range # NoRange /\ Superseding(s, can, resume, next, FirstStart)
      BY <1>1, <2>2 DEF Recovering
    <3>2. chat.synced /\ Cur = FlushedChat.range
      BY <3>1, FlushedIs
    <3>3. Landed.synced
      BY <3>2, PageUnsynced
    <3>4. next = Base(Cur) /\ next.dir = "after"
      BY <3>1, <3>2 DEF Base, AfterReq
    <3>5. next \in nexts /\ next # NoReq
      BY <3>3, <3>4 DEF Recoveries, NoReq
    <3> HIDE DEF next, nexts, s, can, resume
    <3> QED
      BY <1>2, <3>1, <3>5, SupersedingSteers
  <2> QED
    BY <2>1, <2>2
<1>5. /\ a.loaded \in BOOLEAN
      /\ a.status # "none" => can /\ a.loaded
  <2>1. a.loaded \in BOOLEAN
    BY <1>1, SyncFields
  <2> HIDE DEF a, s, can, f, nexts
  <2> QED
    BY <1>2, <1>4, <2>1 DEF Steers, AsBefore, Bound
<1>6. Steers(a, can, nexts, b, g)
  <2>1. CASE b = a /\ g = NoReq
    BY <2>1 DEF Steers, AsBefore
  <2>2. CASE ~ (b = a /\ g = NoReq)
    <3> DEFINE next == AfterReq(SecondRange.epoch, SecondRange.end)
    <3>1. SecondRange # NoRange /\ Superseding(a, can, resume, next, SecondStart)
      BY <1>1, <2>2 DEF Recovering
    <3>2. Boot /\ Pg.end # 0
      BY <1>1, <2>2, GapNever
    <3>3. Landed.synced
      <4>1. Pg.dir = "tail"
        BY <3>2 DEF Boot
      <4> QED
        BY <4>1, PageUnsynced
    <3>4. SecondRange = LandedHeld
      BY <3>2, <3>3 DEF SecondRange, LandedHeld
    <3>5. next = Base(LandedHeld) /\ next.dir = "after"
      BY <3>1, <3>4 DEF Base, AfterReq
    <3>6. next \in nexts /\ next # NoReq
      BY <3>3, <3>5 DEF Recoveries, NoReq
    <3>7. /\ can \in BOOLEAN /\ next # NoReq /\ Superseding(a, can, resume, next, SecondStart)
          /\ a.loaded \in BOOLEAN /\ (a.status # "none" => can /\ a.loaded) /\ next \in nexts
      BY <1>2, <1>5, <3>1, <3>6
    <3> HIDE DEF next, nexts, a, can, resume
    <3>8. Steers(a, can, nexts, SecondStart.sync, SecondStart.fetch)
      BY <3>7, SupersedingSteers
    <3> QED
      BY <3>8
  <2> QED
    BY <2>1, <2>2
<1>7. Detour = (IF g # NoReq THEN g ELSE f)
  BY DEF Detour
<1>8. Rerouted(s, can, nexts, b, Detour)
  <2> DEFINE h == Detour
  <2>1. h = IF g # NoReq THEN g ELSE f
    BY <1>7
  <2> HIDE DEF h, a, b, f, g, s, can, nexts
  <2>2. Rerouted(s, can, nexts, b, h)
    BY <1>3, <1>4, <1>6, <2>1, SteersTwice
  <2> QED
    BY <2>2 DEF h
<1> QED
  BY <1>1, <1>7, <1>8

\* A recovery is founded, before the page and after it.
LEMMA RecoveriesFounded ==
    ASSUME Shape, Positions, CatchesUp, wire # <<>>, Msg.kind = "page", NEW n \in Recoveries
    PROVE  /\ Founded(n, LandedHeld, epoch, Tail(wire), <<>>)
           /\ n \in CatchUps \ {NoReq} /\ n \in Reqs /\ n.dir = "after" /\ Landed.synced
           /\ AllFounded(sync, Flight(Behinds), LandedHeld, epoch, Tail(wire), <<>>)
           /\ \/ Apt(n, Behinds, LandedHeld, StillNoticed)
              \/ Apt(n, Behinds, Cur, noticed) /\ Founded(n, Cur, epoch, wire, <<>>)
<1> DEFINE h == Cur  h2 == LandedHeld  fl == Flight(Behinds)  q2 == <<>>  ws == Tail(wire)  ntc2 == StillNoticed
<1>1. /\ h \in Ranges /\ h2 \in Ranges /\ fl \in SUBSET Reqs /\ q2 \in Seq(Rows) /\ ws \in Seq(Outbound)
      /\ epoch \in Nat /\ Msg.req \in Reqs /\ ntc2 \in BOOLEAN
      /\ (Pg.dir = "tail" <=> Msg.req = TailReq)
  BY PageTyped
<1>2. AllFounded(sync, fl, h, epoch, wire, q2) /\ fl = Flight(Course) \ {Msg.req} /\ sync \in Syncs
  BY PageParts, CourseTyped
<1>3. TailReq \in fl => Pg.dir # "tail"
  BY <1>1, <1>2
<1>4. AllFounded(sync, fl, h2, epoch, ws, q2)
  BY <1>1, <1>2, <1>3, LandedMoves
<1>5. Advances(h, epoch, wire, q2, h2, epoch, ws, q2)
  BY LandedAdvances
<1>6. n.dir = "after" /\ Landed.synced /\ n \in {Base(h), Base(h2)}
  BY DEF Recoveries
<1> HIDE DEF h, h2, q2, ws, ntc2
<1>7. /\ Apt(Base(h), Behinds, h, noticed) /\ Founded(Base(h), h, epoch, wire, q2)
      /\ Base(h) \in CatchUps \ {NoReq}
  BY <1>1, <1>2, BaseApt
<1>8. /\ Apt(Base(h2), Behinds, h2, ntc2) /\ Founded(Base(h2), h2, epoch, ws, q2)
      /\ Base(h2) \in CatchUps \ {NoReq}
  BY <1>1, <1>4, BaseApt
<1>9. Founded(Base(h), h2, epoch, ws, q2)
  <2>1. Base(h) \in Requests
    BY <1>7, CatchUpFields
  <2> DEFINE e == epoch  r == Base(h)
  <2>2. r \in Requests /\ Founded(r, h, e, wire, q2) /\ e \in Nat
        /\ Advances(h, e, wire, q2, h2, e, ws, q2)
    BY <1>1, <1>5, <1>7, <2>1
  <2> HIDE DEF e, r
  <2>3. Founded(r, h2, e, ws, q2)
    BY <1>1, <2>2, FoundedMoves
  <2> QED
    BY <2>3 DEF e, r
<1>10. n \in CatchUps \ {NoReq} /\ n \in Reqs
  BY <1>6, <1>7, <1>8, CatchUpFields DEF Reqs
<1>11. /\ Founded(n, h2, epoch, ws, q2)
       /\ Apt(n, Behinds, h2, ntc2) \/ (Apt(n, Behinds, h, noticed) /\ Founded(n, h, epoch, wire, q2))
  BY <1>6, <1>7, <1>8, <1>9
<1> QED
  BY <1>4, <1>6, <1>10, <1>11 DEF h, h2, q2, ws, ntc2

\* The page leaves the catch-up t in order, with cs2 on its way.
PageSettles(t, frc, cs2) ==
  /\ Controlled(t, Landed, LandedCache, Flight(cs2), CanCatchUp, frc, StillNoticed)
  /\ Flows(cs2, LandedHeld, StillNoticed, t)
  /\ AllFounded(t, Flight(cs2), LandedHeld, epoch, Tail(wire), <<>>)

\* The catch-up after the rows and the page, when nothing was asked for.
LEMMA PageOwes ==
    ASSUME Shape, Positions, CatchesUp, wire # <<>>, Msg.kind = "page", Detour = NoReq
    PROVE  /\ AsBefore(SecondStart.sync, sync) /\ SecondStart.sync \in Syncs
           /\ \/ SecondStart.sync.pending = sync.pending
              \/ Landed.synced /\ sync.status \in {"none", "running"}
           /\ ~ Landed.synced => SecondStart.sync.pending = NoReq
           /\ AllFounded(SecondStart.sync, Flight(Behinds), LandedHeld, epoch, Tail(wire), <<>>)
<1> DEFINE t == SecondStart.sync
<1>1. Rerouted(sync, CanCatchUp, Recoveries, t, Detour) /\ t \in Syncs
  BY PageReroutes
<1>2. \A n \in Recoveries : n # NoReq /\ Landed.synced /\ Founded(n, LandedHeld, epoch, Tail(wire), <<>>)
  BY RecoveriesFounded
<1>3. /\ AsBefore(t, sync)
      /\ t.pending = sync.pending \/ (t.pending \in Recoveries /\ sync.status \in {"none", "running"})
  BY <1>1, <1>2 DEF Rerouted
<1>4. AllFounded(sync, Flight(Behinds), LandedHeld, epoch, Tail(wire), <<>>)
  <2> DEFINE q2 == <<>>
  <2>1. AllFounded(sync, Flight(Behinds), Cur, epoch, wire, q2) /\ sync \in Syncs
        /\ Flight(Behinds) = Flight(Course) \ {Msg.req}
    BY PageParts, CourseTyped
  <2>2. Flight(Behinds) \in SUBSET Reqs /\ (TailReq \in Flight(Behinds) => Pg.dir # "tail")
    BY <2>1, PageTyped
  <2> HIDE DEF q2
  <2> QED
    BY <2>1, <2>2, LandedMoves DEF q2
<1>5. ~ chat.synced => sync.pending = NoReq
  BY RegularNow DEF Regular
<1>6. chat.synced => Landed.synced
  BY PageUnsynced
<1>7. ~ Landed.synced => t.pending = NoReq
  BY <1>2, <1>3, <1>5, <1>6
<1> HIDE DEF t
<1>8. AllFounded(t, Flight(Behinds), LandedHeld, epoch, Tail(wire), <<>>)
  BY <1>2, <1>3, <1>4 DEF AllFounded, AsBefore
<1> QED
  BY <1>1, <1>2, <1>3, <1>7, <1>8 DEF t

\* What is on its way is in order for the chat that the page leaves.
LEMMA PageFlows ==
    ASSUME Shape, Positions, CatchesUp, wire # <<>>, Msg.kind = "page"
    PROVE  /\ Ordered(Behinds, LandedHeld, StillNoticed, sync.await)
           /\ Msg.req = sync.await => Calm(Behinds, LandedHeld, StillNoticed)
           /\ sync.status \in {"complete", "error"} => Calm(Behinds, LandedHeld, StillNoticed)
           /\ Flight(Behinds) = Flight(Course) \ {Msg.req}
           /\ TailReq \in Flight(Behinds) => Pg.dir # "tail"
<1> DEFINE q2 == <<>>  fl == Flight(Behinds)
<1>1. /\ fl = Flight(Course) \ {Msg.req}
      /\ Ordered(Behinds, Cur, noticed, sync.await)
      /\ Msg.req = sync.await => Calm(Behinds, Cur, noticed)
      /\ sync.status \in {"complete", "error"} => Calm(Behinds, Cur, noticed)
      /\ AllFounded(sync, fl, Cur, epoch, wire, q2)
  BY PageParts
<1>2. fl \in SUBSET Reqs /\ sync \in Syncs /\ (TailReq \in fl => Pg.dir # "tail")
  BY <1>1, PageTyped, CourseTyped
<1>3. /\ \A await : Ordered(Behinds, Cur, noticed, await) => Ordered(Behinds, LandedHeld, StillNoticed, await)
      /\ Calm(Behinds, Cur, noticed) => Calm(Behinds, LandedHeld, StillNoticed)
  BY <1>1, <1>2, LandedMoves
<1> QED
  BY <1>1, <1>2, <1>3

\* Nobody awaited the page.
LEMMA PagePasses ==
    ASSUME Shape, Positions, CatchesUp, wire # <<>>, Msg.kind = "page", Detour = NoReq, ~ Own,
           NEW cs2, Asking(cs2, Behinds, NoReq)
    PROVE  PageSettles(SecondStart.sync, forced /\ Pg.dir # "tail", cs2)
<1> DEFINE t == SecondStart.sync  c == Landed  ca == LandedCache  fl == Flight(Behinds)
           h == LandedHeld  ntc2 == StillNoticed  can == CanCatchUp
           frc2 == forced /\ Pg.dir # "tail"
<1>1. /\ AsBefore(t, sync) /\ t \in Syncs
      /\ t.pending = sync.pending \/ (c.synced /\ sync.status \in {"none", "running"})
      /\ ~ c.synced => t.pending = NoReq
      /\ AllFounded(t, fl, h, epoch, Tail(wire), <<>>)
  BY PageOwes
<1>2. /\ sync.loaded
      /\ c \in Chats /\ ca \in Ranges /\ c.synced \in BOOLEAN /\ c.newer \in BOOLEAN
      /\ chat.synced => c.synced
      /\ c.synced => ca = NoRange
      /\ ~ c.synced =>
           /\ ~ chat.synced /\ Pg.dir = "after" /\ Pg.newer /\ cached # NoRange
           /\ ca = cached /\ h = cached
           /\ sync.status \in {"running", "error"}
  BY PageUnsynced
<1>3. /\ Regular(sync, chat, cached, Flight(Course), forced, noticed)
      /\ sync.status # "none" <=> can /\ sync.loaded
  BY RegularNow
<1>4. /\ Ordered(Behinds, h, ntc2, sync.await)
      /\ sync.status \in {"complete", "error"} => Calm(Behinds, h, ntc2)
      /\ fl = Flight(Course) \ {Msg.req}
  BY PageFlows
<1>5. /\ Behinds \in Seq(Msgs) /\ fl \in SUBSET Reqs /\ ntc2 \in BOOLEAN
      /\ Msg.req \in Reqs /\ Pg.dir = Msg.req.dir /\ (Pg.dir = "tail" <=> Msg.req = TailReq)
  BY PageTyped
<1>6. sync.status = "running" => sync.await # Msg.req
  BY <1>3, PageReroutes DEF Own
<1>7. sync.status = "complete" => c.synced /\ ~ c.newer /\ t.pending = NoReq
  <2> SUFFICES ASSUME sync.status = "complete" PROVE c.synced /\ ~ c.newer /\ t.pending = NoReq
    OBVIOUS
  <2>1. chat.synced /\ ~ chat.newer /\ sync.pending = NoReq
    BY <1>3 DEF Regular
  <2>2. ~ c.newer
    <3>1. /\ Pg.dir = "before" => c.newer = chat.newer
          /\ Pg.dir # "before" => c.newer = Pg.newer
      BY LandedIs
    <3>2. ~ Fresh(Msg, Held, noticed)
      BY PageParts
    <3>3. ~ (Pg.dir = "after" /\ ~ Pg.reset)
      BY <2>1, <3>2, PageUnspent
    <3>4. Pg.newer /\ Pg.dir # "before" => Pg.dir = "after" /\ ~ Pg.reset
      BY PageArrives
    <3>5. Pg.newer \in BOOLEAN
      BY PageArrives, PageFields
    <3> QED
      BY <2>1, <3>1, <3>3, <3>4, <3>5
  <2> QED
    BY <1>1, <1>2, <2>1, <2>2
<1>8. ntc2 => TailReq \in fl /\ c.synced
  <2> SUFFICES ASSUME ntc2 PROVE TailReq \in fl /\ c.synced
    OBVIOUS
  <2>1. noticed /\ Pg.dir # "tail"
    BY DEF StillNoticed
  <2> QED
    BY <1>2, <1>3, <1>4, <1>5, <2>1 DEF Regular
<1>9. sync.latest => frc2 /\ sync.await = TailReq
  <2> SUFFICES ASSUME sync.latest PROVE frc2 /\ sync.await = TailReq
    OBVIOUS
  <2>1. forced /\ sync.await = TailReq /\ sync.status = "running"
    <3>1. sync.status = "running"
      BY <1>3 DEF Regular
    <3> QED
      BY <1>3, <3>1 DEF Regular
  <2> QED
    BY <1>5, <1>6, <2>1
<1>10. t.status = sync.status /\ t.req = sync.req /\ t.await = sync.await /\ t.fallback = sync.fallback
       /\ t.latest = sync.latest /\ t.loaded = sync.loaded
  BY <1>1 DEF AsBefore
<1>11. sync.status = "running" => sync.await \in fl
  BY <1>3, <1>4, <1>6 DEF Regular
<1> HIDE DEF t, c, ca, fl, h, ntc2, can, frc2
<1>12. Regular(t, c, ca, fl, frc2, ntc2)
  <2>1. /\ ~ c.synced /\ ca = NoRange => fl \subseteq {TailReq}
        /\ ~ c.synced /\ ca # NoRange =>
             \A r \in fl : (r = TailReq /\ sync.latest) \/ r = AfterReq(ca.epoch, ca.end)
        /\ ~ c.synced /\ sync.status \in {"running", "error"} =>
             sync.req = IF ca = NoRange THEN TailReq ELSE AfterReq(ca.epoch, ca.end)
        /\ ~ c.synced /\ sync.status = "running" => sync.await = TailReq \/ sync.fallback
    BY <1>2, <1>3, <1>4 DEF Regular
  <2>2. /\ sync.status = "running" => sync.await # NoReq /\ sync.req # NoReq
        /\ sync.status = "none" => \A r \in fl : r.dir = "before"
        /\ sync.status # "running" => sync.await = NoReq /\ ~ sync.latest /\ ~ sync.fallback
        /\ sync.status \in {"none", "complete"} => sync.req = NoReq
    BY <1>3, <1>4 DEF Regular
  <2> QED
    BY <1>1, <1>2, <1>7, <1>8, <1>9, <1>10, <1>11, <2>1, <2>2 DEF Regular
<1>13. Flows(Behinds, h, ntc2, t)
  BY <1>4, <1>10 DEF Flows
<1> DEFINE d == [sync |-> t, fetch |-> NoReq]  ws == Tail(wire)  q2 == <<>>  e == epoch
<1>14. d.sync = t /\ d.fetch = NoReq
  OBVIOUS
<1>15. t.status # "none" <=> can /\ t.loaded
  BY <1>3, <1>10 DEF can
<1>16. can \in BOOLEAN
  BY TypesNow DEF can
<1>17. AllFounded(t, Flight(Behinds), h, e, ws, q2) /\ Flight(Behinds) = fl
  BY <1>1 DEF fl
<1> HIDE DEF d, ws, q2, e
<1>18. Goes(t, can, d, c, ca, Behinds, h, ntc2, e, ws, q2)
  BY <1>14, <1>15 DEF Goes
<1>19. /\ t \in Syncs /\ c \in Chats /\ ca \in Ranges /\ Flight(Behinds) \in SUBSET Reqs
       /\ Regular(t, c, ca, Flight(Behinds), frc2, ntc2) /\ Asking(cs2, Behinds, d.fetch)
  BY <1>1, <1>2, <1>5, <1>12, <1>14, <1>17
<1>20. /\ Controlled(d.sync, c, ca, Flight(cs2), can, frc2, ntc2)
       /\ Flows(cs2, h, ntc2, d.sync)
       /\ AllFounded(d.sync, Flight(cs2), h, e, ws, q2)
  BY <1>5, <1>13, <1>15, <1>16, <1>17, <1>18, <1>19, GoneOn
<1> QED
  BY <1>14, <1>20 DEF PageSettles, c, ca, can, frc2, ntc2, h, e, ws, q2, t

LEMMA BehindsFlight ==
    ASSUME Shape, wire # <<>>, Msg.kind = "page", NEW req, NEW cs2, Asking(cs2, Behinds, req)
    PROVE  /\ Flight(cs2) = IF req = NoReq THEN Flight(Behinds) ELSE Flight(Behinds) \cup {req}
           /\ Behinds \in Seq(Msgs)
<1>1. Behinds \in Seq(Msgs)
  BY PageTyped
<1> QED
  BY <1>1, AskingFlight

\* Rows were missing, and are asked for: whoever awaited the page, that is what
\* the catch-up awaits now.
LEMMA PageRecovers ==
    ASSUME Shape, Positions, CatchesUp, wire # <<>>, Msg.kind = "page", Detour # NoReq,
           NEW cs2, Asking(cs2, Behinds, Detour)
    PROVE  PageSettles(SecondStart.sync, forced /\ Pg.dir # "tail", cs2)
<1> DEFINE t == SecondStart.sync  c == Landed  ca == LandedCache  fl == Flight(Behinds)  f == Detour
           h == LandedHeld  ntc2 == StillNoticed  can == CanCatchUp  fl2 == Flight(cs2)
           frc2 == forced /\ Pg.dir # "tail"  ws == Tail(wire)  q2 == <<>>  e == epoch
<1>1. can /\ sync.loaded /\ f \in Recoveries /\ Bound(t, f) /\ t \in Syncs
  BY PageReroutes DEF Rerouted
<1>2. /\ Founded(f, h, e, ws, q2) /\ f # NoReq /\ f \in Reqs /\ f.dir = "after" /\ c.synced
      /\ AllFounded(sync, fl, h, e, ws, q2)
      /\ Apt(f, Behinds, h, ntc2) \/ (Apt(f, Behinds, Cur, noticed) /\ Founded(f, Cur, e, wire, q2))
  BY <1>1, RecoveriesFounded
<1>3. fl2 = fl \cup {f} /\ Behinds \in Seq(Msgs)
  BY <1>2, BehindsFlight
<1>4. ca = NoRange
  BY <1>2, PageUnsynced
<1>5. ntc2 => TailReq \in fl
  <2> SUFFICES ASSUME ntc2 PROVE TailReq \in fl
    OBVIOUS
  <2>1. noticed /\ Pg.dir # "tail"
    BY DEF StillNoticed
  <2>2. TailReq \in Flight(Course)
    BY <2>1, RegularNow DEF Regular
  <2> QED
    BY <2>1, <2>2, PageTyped, PageFlows
<1>6. /\ t.status = "running" /\ t.req = f /\ t.await = f /\ ~ t.fallback /\ ~ t.latest
      /\ t.pending = NoReq /\ t.loaded
  BY <1>1 DEF Bound
<1>7. Controlled(t, c, ca, fl2, can, frc2, ntc2)
  BY <1>1, <1>2, <1>3, <1>4, <1>5, <1>6 DEF Controlled
<1>8. Founded(NoReq, h, e, ws, q2) /\ Founded(NoReq, Cur, e, wire, q2)
  BY FoundedNone
<1>9. AllFounded(t, fl2, h, e, ws, q2)
  BY <1>2, <1>3, <1>6, <1>8 DEF AllFounded
<1>10. /\ ntc2 \in BOOLEAN /\ noticed \in BOOLEAN /\ fl \in SUBSET Reqs
       /\ Ordered(Behinds, h, ntc2, sync.await) /\ Ordered(Behinds, Cur, noticed, sync.await)
       /\ TailReq \in fl => Pg.dir # "tail"
  BY PageTyped, PageFlows, PageParts, CourseTyped
<1>11. Ordered(cs2, h, ntc2, f)
  <2>1. CASE Apt(f, Behinds, h, ntc2)
    <3> HIDE DEF h, ntc2, f, fl
    <3>1. Flight(Behinds) \in SUBSET Reqs
      BY <1>10 DEF fl
    <3>2. Asking(cs2, Behinds, f)
      BY DEF f
    <3> QED
      BY <1>2, <1>3, <1>10, <2>1, <3>1, <3>2, OrderedIssue
  <2>2. CASE Apt(f, Behinds, Cur, noticed) /\ Founded(f, Cur, e, wire, q2)
    <3>1. Ordered(cs2, Cur, noticed, f)
      <4> DEFINE g == Cur
      <4> HIDE DEF f, fl, g
      <4>1. Flight(Behinds) \in SUBSET Reqs
        BY <1>10 DEF fl
      <4>2. Asking(cs2, Behinds, f) /\ Ordered(Behinds, g, noticed, sync.await) /\ Apt(f, Behinds, g, noticed)
        BY <1>10, <2>2 DEF f, g
      <4>3. Ordered(cs2, g, noticed, f)
        BY <1>2, <1>3, <1>10, <4>1, <4>2, OrderedIssue
      <4> QED
        BY <4>3 DEF g
    <3>2. AllFounded(t, fl2, Cur, e, wire, q2)
      <4>1. AllFounded(sync, fl, Cur, e, wire, q2)
        BY PageParts
      <4> QED
        BY <1>3, <1>6, <1>8, <2>2, <4>1 DEF AllFounded
    <3>3. fl2 \in SUBSET Reqs
      BY <1>2, <1>3, <1>10
    <3>4. TailReq \in fl2 => Pg.dir # "tail"
      BY <1>2, <1>3, <1>10 DEF TailReq
    <3> HIDE DEF t, f
    <3>5. \A await : Ordered(cs2, Cur, noticed, await) => Ordered(cs2, h, ntc2, await)
      BY <1>1, <3>2, <3>3, <3>4, LandedMoves
    <3> QED
      BY <3>1, <3>5
  <2> QED
    BY <1>2, <2>1, <2>2
<1>12. Flows(cs2, h, ntc2, t)
  BY <1>6, <1>11 DEF Flows
<1> QED
  BY <1>7, <1>9, <1>12 DEF PageSettles

\* The page was awaited: nothing on its way can upset what is asked for next.
LEMMA OwnedFlows ==
    ASSUME Shape, Positions, CatchesUp, wire # <<>>, Msg.kind = "page", Own,
           NEW fetch \in CatchUps, NEW cs2, Asking(cs2, Behinds, fetch)
    PROVE  /\ fetch # NoReq => Ordered(cs2, LandedHeld, StillNoticed, fetch)
           /\ fetch = NoReq => /\ Ordered(cs2, LandedHeld, StillNoticed, NoReq)
                               /\ Calm(cs2, LandedHeld, StillNoticed)
<1> DEFINE h == LandedHeld  ntc2 == StillNoticed
<1>1. /\ Calm(Behinds, h, ntc2) /\ Ordered(Behinds, h, ntc2, sync.await)
  BY PageFlows DEF Own
<1>2. /\ ntc2 \in BOOLEAN /\ Flight(Behinds) \in SUBSET Reqs /\ Behinds \in Seq(Msgs)
  BY PageTyped
<1> HIDE DEF h, ntc2
<1>3. ASSUME fetch # NoReq PROVE Ordered(cs2, h, ntc2, fetch)
  <2>1. fetch \in Reqs
    BY <1>3, CatchUpFields DEF Reqs
  <2>2. Apt(fetch, Behinds, h, ntc2)
    BY <1>1 DEF Apt
  <2> QED
    BY <1>1, <1>2, <2>1, <2>2, OrderedIssue
<1>4. ASSUME fetch = NoReq PROVE Ordered(cs2, h, ntc2, NoReq) /\ Calm(cs2, h, ntc2)
  <2> DEFINE none == NoReq
  <2>1. none \notin Flight(Behinds)
    BY <1>2 DEF Reqs
  <2>2. Moves(Behinds, h, h, ntc2, ntc2, sync.await, none)
    BY <2>1 DEF Moves
  <2> HIDE DEF none
  <2>3. Ordered(Behinds, h, ntc2, none)
    BY <1>1, <1>2, <2>2, CourseMoves
  <2>4. Drawn(cs2, Behinds, ntc2)
    <3>1. AllAlike(cs2, Behinds)
      BY <1>4 DEF Asking, Shares, Adds
    <3>2. cs2 = cs2 /\ Len(cs2) = Len(Behinds) /\ DOMAIN cs2 = DOMAIN Behinds
      BY <3>1 DEF AllAlike
    <3>3. Accounted(cs2, Behinds, fetch, ntc2)
      BY <1>2, AskingAlike
    <3>4. Drawing([i \in DOMAIN cs2 |-> i], cs2, Behinds, ntc2)
      <4>1. ~ Adds(cs2, Behinds, fetch)
        BY <1>4 DEF Adds
      <4>2. \A i \in DOMAIN cs2 : i \in DOMAIN Behinds /\ (Asks(cs2[i]) => Like(cs2[i], Behinds[i], ntc2))
        BY <3>3, <4>1 DEF Accounted
      <4> QED
        BY <4>2 DEF Drawing
    <3> QED
      BY <3>4 DEF Drawn
  <2> QED
    BY <1>1, <2>3, <2>4, OrderedDrawn DEF none
<1> QED
  BY <1>3, <1>4 DEF h, ntc2

\* What the catch-up is that has awaited the page.
LEMMA OwnedIs ==
    ASSUME Shape, Positions, CatchesUp, wire # <<>>, Msg.kind = "page", Own
    PROVE  /\ Detour = NoReq /\ CanCatchUp /\ SecondStart.sync \in Syncs
           /\ SecondStart.sync.status = "running" /\ SecondStart.sync.loaded
           /\ SecondStart.sync.req = sync.req /\ sync.req # NoReq
           /\ SecondStart.sync.latest = sync.latest /\ SecondStart.sync.fallback = sync.fallback
           /\ SecondStart.sync.latest \in BOOLEAN /\ SecondStart.sync.fallback \in BOOLEAN
           /\ SecondStart.sync.pending # NoReq => Landed.synced
           /\ AllFounded(SecondStart.sync, Flight(Behinds), LandedHeld, epoch, Tail(wire), <<>>)
           /\ Pg.dir # "before"
           /\ Continuing(SecondStart.sync, CanCatchUp, ResumeNow, Pg, ThirdStart)
           /\ ThirdStart.fetch \in CatchUps
<1>1. /\ CanCatchUp /\ sync.status = "running" /\ sync.await = Msg.req
      /\ FirstStart.fetch = NoReq /\ SecondStart.fetch = NoReq
  BY DEF Own
<1>2. Detour = NoReq
  BY <1>1 DEF Detour
<1>3. /\ AsBefore(SecondStart.sync, sync) /\ SecondStart.sync \in Syncs
      /\ ~ Landed.synced => SecondStart.sync.pending = NoReq
      /\ AllFounded(SecondStart.sync, Flight(Behinds), LandedHeld, epoch, Tail(wire), <<>>)
  BY <1>2, PageOwes
<1>4. sync.loaded /\ sync.req # NoReq /\ sync.loaded \in BOOLEAN /\ sync.latest \in BOOLEAN
      /\ sync.fallback \in BOOLEAN /\ sync.await \in CatchUps
  BY <1>1, RegularNow, CourseTyped, SyncFields DEF Regular
<1>5. Pg.dir # "before"
  BY <1>1, <1>4, PageTyped, CatchUpFields
<1>6. Continuing(SecondStart.sync, CanCatchUp, ResumeNow, Pg, ThirdStart) /\ ThirdStart.fetch \in CatchUps
  BY PageStartsAre
<1> QED
  BY <1>1, <1>2, <1>3, <1>4, <1>5, <1>6 DEF AsBefore

\* A catch-up that is done has reached the end of the history.
LEMMA OwnedDone ==
    ASSUME Shape, Positions, CatchesUp, wire # <<>>, Msg.kind = "page", Own,
           sync.latest \/ ~ Pg.newer
    PROVE  Landed.synced /\ ~ Landed.newer
<1>1. Pg.dir # "before"
  BY OwnedIs
<1>2. Landed.newer = Pg.newer /\ Pg.newer \in BOOLEAN
  BY <1>1, LandedIs, PageArrives, PageFields
<1>3. ~ Landed.synced => Pg.newer /\ Pg.dir = "after"
  BY PageUnsynced
<1>4. sync.latest => Pg.dir = "tail"
  <2>1. sync.latest => sync.await = TailReq
    BY RegularNow DEF Regular
  <2>2. sync.await = Msg.req
    BY DEF Own
  <2> QED
    BY <2>1, <2>2, PageTyped
<1>5. Pg.dir = "tail" => ~ Pg.newer
  BY PageArrives
<1> QED
  BY <1>2, <1>3, <1>4, <1>5

\* The catch-up that awaited the page goes on, or is done.
LEMMA PageContinues ==
    ASSUME Shape, Positions, CatchesUp, wire # <<>>, Msg.kind = "page", Own,
           NEW cs2, Asking(cs2, Behinds, ThirdStart.fetch)
    PROVE  PageSettles(ThirdStart.sync, AwaitsLatest \/ (forced /\ Pg.dir # "tail"), cs2)
<1> DEFINE s == SecondStart.sync  t == ThirdStart.sync  f == ThirdStart.fetch
           c == Landed  ca == LandedCache  fl == Flight(Behinds)
           h == LandedHeld  ntc2 == StillNoticed  can == CanCatchUp  fl2 == Flight(cs2)
           frc2 == AwaitsLatest \/ (forced /\ Pg.dir # "tail")  ws == Tail(wire)  q2 == <<>>  e == epoch
<1>1. /\ can /\ s \in Syncs /\ s.status = "running" /\ s.loaded /\ s.req # NoReq
      /\ s.latest = sync.latest /\ s.fallback = sync.fallback
      /\ s.req = sync.req
      /\ s.latest \in BOOLEAN /\ s.fallback \in BOOLEAN
      /\ s.pending # NoReq => c.synced
      /\ AllFounded(s, fl, h, e, ws, q2)
      /\ Pg.dir # "before"
      /\ Continuing(s, can, ResumeNow, Pg, ThirdStart)
      /\ f \in CatchUps
  BY OwnedIs
<1>2. /\ f # NoReq => Ordered(cs2, h, ntc2, f)
      /\ f = NoReq => Ordered(cs2, h, ntc2, NoReq) /\ Calm(cs2, h, ntc2)
  BY <1>1, OwnedFlows
<1>3. fl2 = IF f = NoReq THEN fl ELSE fl \cup {f}
  BY BehindsFlight
<1>4. /\ c.synced \in BOOLEAN /\ c.newer \in BOOLEAN
      /\ chat.synced => c.synced
      /\ c.synced => ca = NoRange
      /\ ~ c.synced =>
           /\ ~ chat.synced /\ Pg.dir = "after" /\ Pg.newer /\ cached # NoRange
           /\ ca = cached /\ h = cached
  BY PageUnsynced
<1>5. Regular(sync, chat, cached, Flight(Course), forced, noticed) /\ sync.status = "running"
      /\ sync.await = Msg.req
  BY RegularNow DEF Own
<1>6. ntc2 => TailReq \in fl /\ c.synced
  <2> SUFFICES ASSUME ntc2 PROVE TailReq \in fl /\ c.synced
    OBVIOUS
  <2>1. noticed /\ Pg.dir # "tail"
    BY DEF StillNoticed
  <2>2. TailReq \in Flight(Course) /\ chat.synced
    BY <1>5, <2>1 DEF Regular
  <2> QED
    BY <1>4, <2>1, <2>2, PageTyped, PageFlows
<1>7. fl \subseteq Flight(Course) /\ fl \subseteq fl2 /\ (f # NoReq => f \in fl2)
      /\ fl2 \subseteq fl \cup {f}
  BY <1>3, PageFlows
<1>8. /\ ~ c.synced => sync.fallback /\ ~ sync.latest /\ s.pending = NoReq
      /\ ~ c.synced => sync.req = AfterReq(ca.epoch, ca.end)
      /\ ~ c.synced => \A r \in fl : r = AfterReq(ca.epoch, ca.end)
  <2> SUFFICES ASSUME ~ c.synced
               PROVE  /\ sync.fallback /\ ~ sync.latest /\ s.pending = NoReq
                      /\ sync.req = AfterReq(ca.epoch, ca.end)
                      /\ \A r \in fl : r = AfterReq(ca.epoch, ca.end)
    OBVIOUS
  <2>1. sync.await # TailReq
    BY <1>4, <1>5, PageTyped
  <2>2. ~ sync.latest /\ sync.fallback
    BY <1>4, <1>5, <2>1 DEF Regular
  <2>3. sync.req = AfterReq(ca.epoch, ca.end) /\ \A r \in Flight(Course) : r = AfterReq(ca.epoch, ca.end)
    BY <1>4, <1>5, <2>2 DEF Regular
  <2> QED
    BY <1>1, <1>7, <2>2, <2>3
<1>9. Founded(NoReq, h, e, ws, q2) /\ Founded(TailReq, h, e, ws, q2)
  BY FoundedNone
<1>10. ~ s.latest /\ Pg.newer /\ ~ s.fallback => c.synced /\ Founded(AfterReq(Pg.epoch, Pg.end), h, e, ws, q2)
  <2> SUFFICES ASSUME ~ s.latest, Pg.newer, ~ s.fallback
               PROVE  c.synced /\ Founded(AfterReq(Pg.epoch, Pg.end), h, e, ws, q2)
    OBVIOUS
  <2>1. c.synced
    BY <1>1, <1>8
  <2>2. Pg.dir = "after"
    BY <1>1, PageArrives
  <2> QED
    BY <2>1, <2>2, NextFounded
<1>11. s.latest \/ ~ Pg.newer => c.synced /\ ~ c.newer
  BY <1>1, OwnedDone
<1>12. AwaitsLatest <=> t.latest
  BY DEF AwaitsLatest
<1>13. NoReq # TailReq /\ AfterReq(Pg.epoch, Pg.end) # NoReq
  BY DEF NoReq, TailReq, AfterReq
<1> HIDE DEF s, f, c, ca, fl, h, ntc2, can, fl2, ws, q2, e
<1>14. CASE ~ s.latest /\ Pg.newer /\ s.fallback
  <2>1. /\ f = TailReq /\ t.status = "running" /\ t.req = s.req /\ t.await = TailReq
        /\ t.latest /\ t.pending = s.pending /\ t.loaded = s.loaded
    BY <1>1, <1>14 DEF Continuing, f
  <2>2. frc2
    BY <1>12, <2>1
  <2> HIDE DEF t, frc2
  <2>3. fl2 = fl \cup {TailReq}
    BY <1>3, <1>13, <2>1
  <2>4. Controlled(t, c, ca, fl2, can, frc2, ntc2)
    <3>1. ~ c.synced => t.req = AfterReq(ca.epoch, ca.end) /\ ca # NoRange /\ t.pending = NoReq
                        /\ \A r \in fl2 : r = TailReq \/ r = AfterReq(ca.epoch, ca.end)
      BY <1>1, <1>4, <1>8, <2>1, <2>3
    <3> QED
      BY <1>1, <1>4, <1>6, <1>13, <2>1, <2>2, <2>3, <3>1 DEF Controlled
  <2>5. AllFounded(t, fl2, h, e, ws, q2)
    BY <1>1, <1>9, <2>1, <2>3 DEF AllFounded
  <2>6. Flows(cs2, h, ntc2, t)
    BY <1>2, <1>13, <2>1 DEF Flows
  <2> QED
    BY <2>4, <2>5, <2>6 DEF PageSettles, c, ca, can, frc2, ntc2, h, e, ws, q2, t, fl2
<1>15. CASE ~ s.latest /\ Pg.newer /\ ~ s.fallback
  <2> DEFINE next == AfterReq(Pg.epoch, Pg.end)
  <2>1. /\ f = next /\ t.status = "running" /\ t.req = s.req /\ t.await = next
        /\ t.latest = FALSE /\ t.pending = s.pending /\ t.loaded = s.loaded
        /\ c.synced /\ Founded(next, h, e, ws, q2) /\ next # NoReq
    BY <1>1, <1>10, <1>13, <1>15 DEF Continuing, f
  <2> HIDE DEF t, frc2, next
  <2>3. fl2 = fl \cup {next}
    BY <1>3, <1>13, <2>1
  <2>4. Controlled(t, c, ca, fl2, can, frc2, ntc2)
    BY <1>1, <1>4, <1>6, <1>13, <2>1, <2>3 DEF Controlled
  <2>5. AllFounded(t, fl2, h, e, ws, q2)
    BY <1>1, <2>1, <2>3 DEF AllFounded
  <2>6. Flows(cs2, h, ntc2, t)
    BY <1>2, <1>13, <2>1 DEF Flows
  <2> QED
    BY <2>4, <2>5, <2>6 DEF PageSettles, c, ca, can, frc2, ntc2, h, e, ws, q2, t, fl2
<1>16. CASE (s.latest \/ ~ Pg.newer) /\ s.pending = NoReq
  <2>1. /\ f = NoReq /\ Finished(t, s)
    BY <1>1, <1>16 DEF Continuing, f
  <2>2. /\ t.status = "complete" /\ t.req = NoReq /\ t.await = NoReq /\ t.fallback = FALSE
        /\ t.latest = FALSE /\ t.pending = NoReq /\ t.loaded = s.loaded
    BY <1>16, <2>1 DEF Finished
  <2> HIDE DEF t, frc2
  <2>3. fl2 = fl /\ c.synced /\ ~ c.newer
    BY <1>3, <1>11, <1>16, <2>1
  <2>4. Controlled(t, c, ca, fl2, can, frc2, ntc2)
    BY <1>1, <1>4, <1>6, <2>2, <2>3 DEF Controlled
  <2>5. AllFounded(t, fl2, h, e, ws, q2)
    BY <1>1, <1>9, <2>2, <2>3 DEF AllFounded
  <2>6. Flows(cs2, h, ntc2, t)
    BY <1>2, <2>1, <2>2 DEF Flows
  <2> QED
    BY <2>4, <2>5, <2>6 DEF PageSettles, c, ca, can, frc2, ntc2, h, e, ws, q2, t, fl2
<1>17. CASE (s.latest \/ ~ Pg.newer) /\ s.pending # NoReq
  <2>1. f = s.pending /\ Begun(t, s.pending, ResumeNow)
    BY <1>1, <1>17 DEF Continuing, f
  <2>2. /\ t.status = "running" /\ t.req = s.pending /\ t.await = s.pending /\ ~ t.fallback
        /\ t.latest = FALSE /\ t.pending = NoReq /\ t.loaded = TRUE
    BY <1>17, <2>1 DEF Begun
  <2> HIDE DEF t, frc2
  <2>3. fl2 = fl \cup {s.pending} /\ c.synced
    BY <1>1, <1>3, <1>17, <2>1
  <2>4. Controlled(t, c, ca, fl2, can, frc2, ntc2)
    BY <1>1, <1>4, <1>6, <1>17, <2>2, <2>3 DEF Controlled
  <2>5. AllFounded(t, fl2, h, e, ws, q2)
    BY <1>1, <1>9, <2>2, <2>3 DEF AllFounded
  <2>6. Flows(cs2, h, ntc2, t)
    BY <1>2, <1>17, <2>1, <2>2 DEF Flows
  <2> QED
    BY <2>4, <2>5, <2>6 DEF PageSettles, c, ca, can, frc2, ntc2, h, e, ws, q2, t, fl2
<1>18. Pg.newer \in BOOLEAN
  BY PageArrives, PageFields
<1> QED
  BY <1>1, <1>14, <1>15, <1>16, <1>17, <1>18

\* Whoever awaited the page or found rows missing, the catch-up stays in order.
LEMMA PageSettled ==
    ASSUME Shape, Positions, CatchesUp, wire # <<>>, Msg.kind = "page",
           NEW cs2, Asking(cs2, Behinds, NextFetch)
    PROVE  PageSettles(ThirdStart.sync, AwaitsLatest \/ (forced /\ Pg.dir # "tail"), cs2)
<1>1. /\ ~ Own => ThirdStart.sync = SecondStart.sync /\ ThirdStart.fetch = NoReq
      /\ Own \in BOOLEAN
  BY PageStartsAre
<1>2. FirstStart.fetch = NoReq /\ SecondStart.fetch = NoReq <=> Detour = NoReq
  BY PageReroutes
<1>3. CASE Own
  <2>1. Detour = NoReq
    BY <1>3, OwnedIs
  <2>2. NextFetch = ThirdStart.fetch
    BY <1>2, <2>1 DEF NextFetch
  <2> QED
    BY <1>3, <2>2, PageContinues
<1>4. CASE ~ Own
  <2>1. ~ AwaitsLatest
    BY <1>4 DEF AwaitsLatest
  <2>2. NextFetch = Detour
    BY <1>1, <1>4 DEF NextFetch, Detour
  <2>3. PageSettles(SecondStart.sync, forced /\ Pg.dir # "tail", cs2)
    <3>1. CASE Detour = NoReq
      BY <1>4, <2>2, <3>1, PagePasses
    <3>2. CASE Detour # NoReq
      BY <2>2, <3>2, PageRecovers
    <3> QED
      BY <3>1, <3>2
  <2> DEFINE late == AwaitsLatest  kept == forced /\ Pg.dir # "tail"
  <2>4. (late \/ kept) = kept
    <3>1. late \in BOOLEAN /\ kept \in BOOLEAN /\ ~ late
      BY <2>1 DEF AwaitsLatest
    <3> HIDE DEF late, kept
    <3> QED
      BY <3>1
  <2> QED
    BY <1>1, <1>4, <2>3, <2>4
<1> QED
  BY <1>1, <1>3, <1>4

LEMMA ReceivePageCatchesUp ==
    ASSUME Shape, Positions, CatchesUp, ReceivePage
    PROVE  CatchesUp'
<1>1. /\ wire # <<>> /\ Msg.kind = "page"
      /\ queue' = <<>> /\ chat' = Landed /\ cached' = LandedCache /\ sync' = ThirdStart.sync
      /\ forced' = (AwaitsLatest \/ (forced /\ Pg.dir # "tail"))
      /\ noticed' = (noticed /\ Pg.dir # "tail")
      /\ Issue(NextFetch, ~ Landed.synced /\ ~ AwaitsLatest, InitLeft, inbox, Tail(wire))
      /\ UNCHANGED <<daemonVars, up, desired, acked, subRetry, stored, faults>>
  BY ReceivePageNamed
<1> DEFINE initialize == ~ Landed.synced /\ ~ AwaitsLatest  ws == Tail(wire)  frc2 == AwaitsLatest \/ (forced /\ Pg.dir # "tail")
<1>2. /\ ws \in Seq(Outbound) /\ wire \in Seq(Outbound) /\ inbox \in Seq(Inbound) /\ Msg = wire[1] /\ Thinned(ws, wire)
  BY <1>1, PageTyped, CourseTyped
<1>3. /\ NextFetch \in CatchUps /\ InitLeft \in Inits /\ initialize \in BOOLEAN
  BY <1>1, PageStartsAre
<1>4. NextFetch \in Requests /\ NextFetch.dir # "before"
  BY <1>3, CatchUpFields
<1>5. Issue(NextFetch, initialize, InitLeft, inbox, ws)
  BY <1>1
<1>6. wire' \o inbox' = Course' /\ ws \o inbox = Behinds
  BY DEF Course, Behinds
<1>7. Asking(wire' \o inbox', Behinds, NextFetch) /\ AllAlike(wire', ws)
  <2> HIDE DEF initialize, ws
  <2>1. Asking(wire' \o inbox', ws \o inbox, NextFetch)
    BY <1>2, <1>3, <1>4, <1>5, IssueCourse
  <2>2. AllAlike(wire', ws)
    <3>1. wire' = IF NextFetch = NoReq THEN ws ELSE Asked(ws, NextFetch, initialize /\ NextFetch # NoReq)
      BY <1>5 DEF Issue
    <3> QED
      BY <1>2, <1>3, <1>4, <1>5, IssueIs
  <2> QED
    BY <1>6, <2>1, <2>2
<1> DEFINE cs2 == Course'
<1>8. Asking(cs2, Behinds, NextFetch)
  BY <1>6, <1>7
<1> HIDE DEF cs2
<1>9. PageSettles(ThirdStart.sync, frc2, cs2)
  BY <1>1, <1>8, PageSettled
<1>10. /\ Controlled(ThirdStart.sync, Landed, LandedCache, Flight(cs2), CanCatchUp, frc2, StillNoticed)
       /\ Flows(cs2, LandedHeld, StillNoticed, ThirdStart.sync)
       /\ AllFounded(ThirdStart.sync, Flight(cs2), LandedHeld, epoch, ws, <<>>)
  BY <1>9 DEF PageSettles
<1>11. /\ Held' = LandedHeld
       /\ CanCatchUp' = CanCatchUp
       /\ noticed' = StillNoticed /\ forced' = frc2 /\ epoch' = epoch /\ acked' = acked
  <2>1. LandedHeld = IF Landed.synced THEN Landed.range ELSE LandedCache
    BY DEF LandedHeld, LandedCache
  <2> QED
    BY <1>1, <2>1 DEF Held, CurrentRange, CanCatchUp, StillNoticed, daemonVars
<1>12. Control'
  BY <1>1, <1>10, <1>11 DEF Control, cs2
<1>13. Streams'
  BY <1>1, <1>10, <1>11 DEF Streams, cs2
<1>14. Grounds'
  <2> DEFINE fl2 == Flight(cs2)  h2 == LandedHeld  q2 == <<>>  vs == wire'
  <2>1. Shape'
    BY ReceivePageShape
  <2>2. vs \in Seq(Outbound)
    BY <2>1 DEF Shape
  <2>3. \A e \in Nat : Waits(e, 0, ws, q2) => Waits(e, 0, vs, q2)
    <3>1. Thinned(vs, ws)
      BY <1>2, <1>7, <2>2, ThinnedAlike
    <3>2. q2 \in Seq(Rows) /\ q2 \in {q2, <<>>}
      OBVIOUS
    <3> HIDE DEF q2, vs, ws
    <3>3. ASSUME NEW e \in Nat, Waits(e, 0, ws, q2) PROVE Waits(e, 0, vs, q2)
      <4> DEFINE z == 0
      <4>1. Waits(e, z, ws, q2)
        BY <3>3
      <4> HIDE DEF z
      <4>2. Waits(e, z, vs, q2)
        BY <1>2, <2>2, <3>1, <3>2, <4>1, WaitsThinned
      <4> QED
        BY <4>2 DEF z
    <3> QED
      BY <3>3
  <2>4. AllFounded(ThirdStart.sync, fl2, h2, epoch, ws, q2)
    BY <1>10
  <2>5. ThirdStart.sync.req \in CatchUps /\ ThirdStart.sync.await \in CatchUps /\ ThirdStart.sync.pending \in CatchUps
    BY <1>1, PageStartsAre, SyncFields
  <2>6. cs2 \in Seq(Msgs) /\ fl2 \in SUBSET Reqs
    <3>1. wire' \in Seq(Outbound) /\ inbox' \in Seq(Inbound)
      BY <2>1 DEF Shape
    <3>2. wire' \o inbox' \in Seq(Msgs) /\ Flight(wire' \o inbox') \in SUBSET Reqs
      BY <3>1, PartTyped
    <3> QED
      BY <1>6, <3>2 DEF cs2
  <2>7. ASSUME NEW r, r \in CatchUps \/ r \in Reqs, Founded(r, h2, epoch, ws, q2)
        PROVE  Founded(r, h2, epoch, vs, q2)
    <3>1. r.dir = "after" => r.epoch + 1 \in Nat
      BY <2>7, CatchUpFields, ReqFields
    <3> HIDE DEF h2, vs, q2, ws
    <3> QED
      BY <2>3, <2>7, <3>1 DEF Founded
  <2> HIDE DEF fl2, h2, q2, vs
  <2>8. AllFounded(ThirdStart.sync, fl2, h2, epoch, vs, q2)
    BY <2>4, <2>5, <2>6, <2>7 DEF AllFounded
  <2>9. AllFounded(sync', Flight(Course'), Held', epoch', wire', queue')
    BY <1>1, <1>11, <2>8 DEF fl2, h2, q2, vs, cs2
  <2> QED
    BY <2>9 DEF Grounds
<1>15. Notices' /\ Heralded'
  <2>1. Hears(wire, acked) /\ \A i \in DOMAIN wire : wire[i].kind = "notice" => chat.synced
    BY RegularNow
  <2>2. Hears(ws, acked)
    <3>1. wire # <<>> /\ wire[1].kind # "subscribed"
      BY <1>1, <1>2
    <3> QED
      BY <1>2, <2>1, <3>1, HearsTail
  <2>3. Hears(wire', acked)
    <3> DEFINE vs == wire'
    <3>1. AllAlike(vs, ws)
      BY <1>7
    <3> HIDE DEF vs, ws
    <3>2. Hears(vs, acked)
      BY <2>2, <3>1, HearsAlike
    <3> QED
      BY <3>2 DEF vs
  <2>4. \A i \in DOMAIN ws : ws[i].kind = "notice" => chat.synced
    BY <1>2, <2>1, NoticesThinned
  <2>5. chat.synced => Landed.synced
    BY <1>1, PageUnsynced
  <2>6. Notices'
    <3>1. \A i \in DOMAIN wire' : i \in DOMAIN ws /\ wire'[i].kind = ws[i].kind
      BY <1>7 DEF AllAlike, Alike
    <3> QED
      BY <1>1, <2>4, <2>5, <3>1 DEF Notices
  <2>7. Heralded'
    BY <1>11, <2>3 DEF Heralded, Hears
  <2> QED
    BY <2>6, <2>7
<1> QED
  BY <1>12, <1>13, <1>14, <1>15 DEF CatchesUp

-----------------------------------------------------------------------------
(* CatchesUp is an invariant; who does not take live rows is being caught  *)
(* up.                                                                     *)

\* Every step keeps catch-up, course and window together.
LEMMA NextCatchesUp ==
    ASSUME Shape, Links, Positions, CatchesUp, Lapses = {}, [Next]_vars
    PROVE  CatchesUp'
<1>1. CASE UNCHANGED vars
  <2>1. Shape'
    BY NextShape
  <2>2. epoch <= epoch' /\ UNCHANGED <<up, inbox, wire, appVars>>
    BY <1>1, NowIs DEF vars, daemonVars, linkVars, appVars
  <2> QED
    BY <2>1, <2>2, StillCatchesUp
<1>2. ASSUME Internal PROVE CatchesUp'
  <2>1. FALSE \in BOOLEAN
    OBVIOUS
  <2> DEFINE manual == FALSE
  <2>2. Retry(manual) => CatchesUp'
    <3>1. manual \in BOOLEAN
      OBVIOUS
    <3> HIDE DEF manual
    <3> QED
      BY <3>1, RetryCatchesUp
  <2> QED
    BY <1>2, <2>2, AnswerCatchesUp, SubscriptionCatchesUp, ReceiveRowCatchesUp, FlushQueueCatchesUp,
       ReceiveNoticeCatchesUp, ReceivePageCatchesUp, ReceiveFailureCatchesUp,
       ReceiveSubscribedCatchesUp, PrepareChatCatchesUp, AnewCatchesUp DEF Internal
<1>3. ASSUME External PROVE CatchesUp'
  <2> DEFINE manual == TRUE
  <2>2. Retry(manual) => CatchesUp'
    <3>1. manual \in BOOLEAN
      OBVIOUS
    <3> HIDE DEF manual
    <3> QED
      BY <3>1, RetryCatchesUp
  <2> QED
    BY <1>3, <2>2, AppendRowCatchesUp, RewindCatchesUp, ReloadCatchesUp, RefuseCatchesUp,
       SubscriptionCatchesUp, ForegroundCatchesUp, LoadOlderCatchesUp, EndsCatchUp,
       OpenChatCatchesUp, AnewCatchesUp DEF External
<1> QED
  BY <1>1, <1>2, <1>3 DEF Next

\* Nothing is in flight in the first state.
LEMMA InitCatchesUp ==
    ASSUME Init
    PROVE  CatchesUp
<1>1. /\ ~ up /\ ~ acked /\ inbox = <<>> /\ wire = <<>> /\ sync = NoSync /\ ~ noticed
      /\ chat = NoChat /\ cached = NoRange
  BY DEF Init
<1>2. Flight(Course) = {}
  BY <1>1, NoCourse DEF Course
<1>3. DOMAIN wire = {}
  BY <1>1
<1>4. ~ chat.synced /\ chat.range = NoRange /\ chat.items = <<>>
  BY <1>1 DEF NoChat
<1>5. /\ sync.status = "none" /\ sync.req = NoReq /\ sync.await = NoReq /\ sync.pending = NoReq
      /\ ~ sync.latest /\ ~ sync.fallback /\ ~ sync.loaded
  BY <1>1 DEF NoSync
<1>6. Control
  <2>1. ~ CanCatchUp
    BY <1>1 DEF CanCatchUp
  <2> QED
    BY <1>1, <1>2, <1>4, <1>5, <2>1 DEF Control, Controlled
<1>7. Grounds
  BY <1>2, <1>5, FoundedNone DEF Grounds, AllFounded
<1>8. Streams
  <2>1. \A i \in DOMAIN Course : ~ Asks(Course[i])
    BY <1>2, NoFlight
  <2> QED
    BY <2>1 DEF Streams, Flows, Ordered, Orderly, Calm, Fresh
<1>9. Notices /\ Heralded
  BY <1>3 DEF Notices, Heralded
<1> QED
  BY <1>6, <1>7, <1>8, <1>9 DEF CatchesUp

\* The catch-up, what is on its way and what is held fit together.
THEOREM CatchesUpHolds ==
    ASSUME Lapses = {}
    PROVE  Spec => []CatchesUp
<1>1. Init => CatchesUp
  BY InitCatchesUp
<1>2. Shape /\ Links /\ Positions /\ CatchesUp /\ [Next]_vars => CatchesUp'
  BY NextCatchesUp
<1> QED
  BY <1>1, <1>2, ShapeHolds, LinksHold, PositionsHold, PTL DEF Spec

\* A window that ends before the daemon's last row takes no live rows; somebody
\* fetches what follows it.
THEOREM DetachedIsCatchingUpHolds ==
    ASSUME Lapses = {}
    PROVE  Spec => []DetachedIsCatchingUp
<1>1. Shape /\ CatchesUp => DetachedIsCatchingUp
  <2> SUFFICES ASSUME Shape, CatchesUp, chat.newer, CanCatchUp, sync.loaded
               PROVE  sync.status \in {"running", "error"}
    BY DEF DetachedIsCatchingUp
  <2>1. sync.status \in {"none", "running", "complete", "error"}
    BY CourseTyped DEF Syncs
  <2>2. sync.status # "none" /\ sync.status # "complete"
    BY DEF CatchesUp, Control, Controlled
  <2> QED
    BY <2>1, <2>2
<1> QED
  BY <1>1, ShapeHolds, CatchesUpHolds, PTL

-----------------------------------------------------------------------------
(* Leads: of the rows that the app does not hold it is told, or has been,  *)
(* if it has caught up or believes the page that arrives.                  *)

\* What the app will hear of behind the i-th message, or has queued.
HeardAfter(ws, i, e, q) ==
  \E j \in DOMAIN ws : j > i /\ ws[j].kind = "row" /\ ws[j].row.epoch = e /\ ws[j].row.seq = q
NoticedAfter(ws, i) == \E j \in DOMAIN ws : j > i /\ ws[j].kind = "notice"
Queued(qu, e, q) == \E i \in DOMAIN qu : qu[i].epoch = e /\ qu[i].seq = q
\* Whoever holds the epoch e up to end is told of every other of the first n
\* rows of the epoch ep, or to replace what it holds.
Informed(e, end, ep, n, ws, i, qu) ==
  \/ NoticedAfter(ws, i)
  \/ \A q \in 1 .. n : (e = ep /\ q <= end) \/ HeardAfter(ws, i, ep, q) \/ Queued(qu, ep, q)
\* What is heard behind one place is heard behind the other.
Carries(ws, i, vs, k) ==
  /\ NoticedAfter(ws, i) => NoticedAfter(vs, k)
  /\ \A e, q : HeardAfter(ws, i, e, q) => HeardAfter(vs, k, e, q)

LEMMA CarriesAlike ==
    ASSUME NEW ws, NEW vs, AllAlike(vs, ws), NEW i
    PROVE  Carries(ws, i, vs, i)
<1>1. \A j \in DOMAIN ws : j \in DOMAIN vs /\ (ws[j].kind \in {"row", "notice"} => vs[j] = ws[j])
  BY DEF AllAlike, Alike, Asks
<1>2. NoticedAfter(ws, i) => NoticedAfter(vs, i)
  BY <1>1 DEF NoticedAfter
<1>3. \A e, q : HeardAfter(ws, i, e, q) => HeardAfter(vs, i, e, q)
  BY <1>1 DEF HeardAfter
<1> QED
  BY <1>2, <1>3 DEF Carries

LEMMA CarriesTail ==
    ASSUME NEW S, NEW ws \in Seq(S), ws # <<>>
    PROVE  /\ \A k \in Nat : Carries(ws, k + 1, Tail(ws), k)
           /\ ws[1].kind \notin {"row", "notice"} => Carries(ws, 0, Tail(ws), 0)
<1>1. /\ DOMAIN Tail(ws) = 1 .. Len(ws) - 1 /\ DOMAIN ws = 1 .. Len(ws) /\ Len(ws) \in Nat
      /\ \A i \in 1 .. Len(ws) - 1 : Tail(ws)[i] = ws[i + 1]
  OBVIOUS
<1> DEFINE vs == Tail(ws)
<1>2. \A j \in DOMAIN ws : j > 1 => j - 1 \in DOMAIN vs /\ vs[j - 1] = ws[j] /\ j \in Nat
  BY <1>1
<1> HIDE DEF vs
<1>3. ASSUME NEW k \in Nat PROVE Carries(ws, k + 1, vs, k)
  <2>1. \A j \in DOMAIN ws : j > k + 1 => j > 1 /\ j - 1 > k
    BY <1>1, <1>3
  <2>2. NoticedAfter(ws, k + 1) => NoticedAfter(vs, k)
    BY <1>2, <2>1 DEF NoticedAfter
  <2>3. \A e, q : HeardAfter(ws, k + 1, e, q) => HeardAfter(vs, k, e, q)
    BY <1>2, <2>1 DEF HeardAfter
  <2> QED
    BY <2>2, <2>3 DEF Carries
<1>4. ASSUME ws[1].kind \notin {"row", "notice"} PROVE Carries(ws, 0, vs, 0)
  <2>1. \A j \in DOMAIN ws : j = 1 \/ (j > 1 /\ j - 1 > 0)
    BY <1>1
  <2>2. NoticedAfter(ws, 0) => NoticedAfter(vs, 0)
    BY <1>2, <1>4, <2>1 DEF NoticedAfter
  <2>3. \A e, q : HeardAfter(ws, 0, e, q) => HeardAfter(vs, 0, e, q)
    BY <1>2, <1>4, <2>1 DEF HeardAfter
  <2> QED
    BY <2>2, <2>3 DEF Carries
<1> QED
  BY <1>3, <1>4 DEF vs

LEMMA CarriesSent ==
    ASSUME NEW S, NEW ws \in Seq(S), NEW m, NEW vs, vs = Append(ws, m), NEW i
    PROVE  /\ Carries(ws, i, vs, i)
           /\ i \in 0 .. Len(ws) /\ m.kind = "notice" => NoticedAfter(vs, i)
           /\ i \in 0 .. Len(ws) /\ m.kind = "row" => HeardAfter(vs, i, m.row.epoch, m.row.seq)
<1>1. /\ DOMAIN ws = 1 .. Len(ws) /\ Len(ws) \in Nat /\ DOMAIN vs = 1 .. Len(ws) + 1
      /\ \A j \in 1 .. Len(ws) : vs[j] = ws[j]
      /\ vs[Len(ws) + 1] = m
  OBVIOUS
<1>2. \A j \in DOMAIN ws : j \in DOMAIN vs /\ vs[j] = ws[j]
  BY <1>1
<1>3. Carries(ws, i, vs, i)
  BY <1>2 DEF Carries, NoticedAfter, HeardAfter
<1>4. i \in 0 .. Len(ws) => Len(ws) + 1 \in DOMAIN vs /\ Len(ws) + 1 > i
  BY <1>1
<1> QED
  BY <1>1, <1>3, <1>4 DEF NoticedAfter, HeardAfter

LEMMA InformedCarried ==
    ASSUME NEW e, NEW end, NEW ep, NEW n, NEW ws, NEW i, NEW qu, Informed(e, end, ep, n, ws, i, qu),
           NEW vs, NEW k, Carries(ws, i, vs, k)
    PROVE  Informed(e, end, ep, n, vs, k, qu)
BY DEF Informed, Carries

\* The daemon sends a message, which may be about its new row, or a notice.
Tells(m, ep, n, ep2, n2) ==
  \/ ep2 = ep /\ n2 = n
  \/ ep2 = ep /\ n2 = n + 1 /\ m.kind = "row" /\ m.row.epoch = ep /\ m.row.seq = n + 1
  \/ m.kind = "notice"
LEMMA InformedSent ==
    ASSUME NEW S, NEW ws \in Seq(S), NEW i \in 0 .. Len(ws), NEW m, NEW vs, vs = Append(ws, m),
           NEW e, NEW end, NEW ep, NEW n \in Nat, NEW qu, Informed(e, end, ep, n, ws, i, qu),
           NEW ep2, NEW n2, Tells(m, ep, n, ep2, n2)
    PROVE  Informed(e, end, ep2, n2, vs, i, qu)
<1>1. Carries(ws, i, vs, i)
  BY CarriesSent
<1>2. m.kind = "notice" => NoticedAfter(vs, i)
  BY CarriesSent
<1>3. m.kind = "row" => HeardAfter(vs, i, m.row.epoch, m.row.seq)
  BY CarriesSent
<1>4. Informed(e, end, ep, n, vs, i, qu)
  BY <1>1, InformedCarried
<1>5. CASE ep2 = ep /\ n2 = n
  BY <1>4, <1>5
<1>6. CASE ep2 = ep /\ n2 = n + 1 /\ m.kind = "row" /\ m.row.epoch = ep /\ m.row.seq = n + 1
  <2>1. HeardAfter(vs, i, ep, n + 1)
    BY <1>3, <1>6
  <2>2. \A q \in 1 .. n2 : q \in 1 .. n \/ q = n + 1
    BY <1>6
  <2> QED
    BY <1>4, <1>6, <2>1, <2>2 DEF Informed
<1>7. CASE m.kind = "notice"
  BY <1>2, <1>7 DEF Informed
<1> QED
  BY <1>5, <1>6, <1>7 DEF Tells

\* Nothing of the chat is on the wire: who is informed has it all, or queued.
Silent(ws) == \A i \in DOMAIN ws : ws[i].kind \notin {"row", "notice"}
LEMMA InformedSilent ==
    ASSUME NEW ws, Silent(ws), NEW e, NEW end, NEW ep, NEW n, NEW i, NEW qu,
           Informed(e, end, ep, n, ws, i, qu), NEW vs, NEW k
    PROVE  Informed(e, end, ep, n, vs, k, qu)
<1>1. ~ NoticedAfter(ws, i) /\ \A q : ~ HeardAfter(ws, i, ep, q)
  BY DEF Silent, NoticedAfter, HeardAfter
<1> QED
  BY <1>1 DEF Informed

\* When the i-th message arrives the app is subscribed, and knows it.
Told(can, ws, i) == can \/ \E j \in DOMAIN ws : j < i /\ ws[j].kind = "subscribed" /\ ws[j].open
\* Of the rows behind a page that arrives then, it is informed.
PagesLead(ws, can, ep, n) ==
  \A i \in DOMAIN ws : ws[i].kind = "page" /\ Told(can, ws, i) =>
     Informed(ws[i].page.epoch, ws[i].page.max, ep, n, ws, i, <<>>)

LEMMA PagesAlike ==
    ASSUME NEW ws, NEW can \in BOOLEAN, NEW ep, NEW n, PagesLead(ws, can, ep, n),
           NEW vs, AllAlike(vs, ws), NEW can2 \in BOOLEAN, can2 => can
    PROVE  PagesLead(vs, can2, ep, n)
<1> SUFFICES ASSUME NEW i \in DOMAIN vs, vs[i].kind = "page", Told(can2, vs, i)
             PROVE  Informed(vs[i].page.epoch, vs[i].page.max, ep, n, vs, i, <<>>)
  BY DEF PagesLead
<1>1. \A j \in DOMAIN vs : /\ j \in DOMAIN ws /\ vs[j].kind = ws[j].kind
                           /\ (ws[j].kind = "page" => vs[j].page = ws[j].page)
                           /\ (ws[j].kind = "subscribed" => vs[j] = ws[j])
  BY DEF AllAlike, Alike, Asks
<1>2. Told(can, ws, i)
  BY <1>1 DEF Told
<1>3. ws[i].kind = "page" /\ vs[i].page = ws[i].page
  BY <1>1
<1> DEFINE e == ws[i].page.epoch
           end == ws[i].page.max
           none == <<>>
<1>4. Informed(e, end, ep, n, ws, i, none)
  BY <1>1, <1>2, <1>3 DEF PagesLead
<1>5. vs[i].page.epoch = e /\ vs[i].page.max = end
  BY <1>3
<1> HIDE DEF e, end, none
<1>6. Informed(e, end, ep, n, vs, i, none)
  BY <1>4, CarriesAlike, InformedCarried
<1> QED
  BY <1>5, <1>6 DEF none

LEMMA PagesTail ==
    ASSUME NEW S, NEW ws \in Seq(S), ws # <<>>, NEW can \in BOOLEAN, NEW ep, NEW n, PagesLead(ws, can, ep, n),
           NEW can2 \in BOOLEAN, can2 => can \/ (ws[1].kind = "subscribed" /\ ws[1].open)
    PROVE  PagesLead(Tail(ws), can2, ep, n)
<1> DEFINE vs == Tail(ws)
<1>1. /\ DOMAIN vs = 1 .. Len(ws) - 1 /\ DOMAIN ws = 1 .. Len(ws) /\ Len(ws) \in Nat
      /\ \A i \in 1 .. Len(ws) - 1 : vs[i] = ws[i + 1]
      /\ Len(ws) > 0
  OBVIOUS
<1>2. \A k \in Nat : Carries(ws, k + 1, vs, k)
  BY CarriesTail
<1> HIDE DEF vs
<1> SUFFICES ASSUME NEW i \in DOMAIN vs, vs[i].kind = "page", Told(can2, vs, i)
             PROVE  Informed(vs[i].page.epoch, vs[i].page.max, ep, n, vs, i, <<>>)
  BY DEF PagesLead, vs
<1>3. i \in Nat /\ i + 1 \in DOMAIN ws /\ ws[i + 1] = vs[i] /\ 1 < i + 1 /\ 1 \in DOMAIN ws
  BY <1>1
<1>4. Told(can, ws, i + 1)
  <2>1. CASE can2
    <3>1. CASE can
      BY <3>1 DEF Told
    <3>2. CASE ws[1].kind = "subscribed" /\ ws[1].open
      BY <1>3, <3>2 DEF Told
    <3> QED
      BY <2>1, <3>1, <3>2
  <2>2. CASE ~ can2
    <3>1. PICK j \in DOMAIN vs : j < i /\ vs[j].kind = "subscribed" /\ vs[j].open
      BY <2>2 DEF Told
    <3>2. j + 1 \in DOMAIN ws /\ j + 1 < i + 1 /\ ws[j + 1] = vs[j]
      BY <1>1, <3>1
    <3> QED
      BY <3>1, <3>2 DEF Told
  <2> QED
    BY <2>1, <2>2
<1> DEFINE k == i + 1
           e == vs[i].page.epoch
           end == vs[i].page.max
           none == <<>>
<1>5. Informed(e, end, ep, n, ws, k, none)
  BY <1>3, <1>4 DEF PagesLead
<1>6. Carries(ws, k, vs, i)
  BY <1>2, <1>3
<1>7. e = vs[i].page.epoch /\ end = vs[i].page.max /\ none = <<>>
  OBVIOUS
<1> HIDE DEF k, e, end, none
<1>8. Informed(e, end, ep, n, vs, i, none)
  BY <1>5, <1>6, InformedCarried
<1> QED
  BY <1>7, <1>8

\* The daemon sends a message; a page has all the rows there are.
LEMMA PagesSent ==
    ASSUME NEW S, NEW ws \in Seq(S), NEW can \in BOOLEAN, NEW ep, NEW n \in Nat, PagesLead(ws, can, ep, n),
           NEW m, NEW vs, vs = Append(ws, m), NEW ep2, NEW n2, Tells(m, ep, n, ep2, n2),
           m.kind = "page" => m.page.epoch = ep /\ m.page.max = n /\ ep2 = ep /\ n2 = n
    PROVE  PagesLead(vs, can, ep2, n2)
<1>1. /\ DOMAIN ws = 1 .. Len(ws) /\ Len(ws) \in Nat /\ DOMAIN vs = 1 .. Len(ws) + 1
      /\ \A j \in 1 .. Len(ws) : vs[j] = ws[j]
      /\ vs[Len(ws) + 1] = m
  OBVIOUS
<1> SUFFICES ASSUME NEW i \in DOMAIN vs, vs[i].kind = "page", Told(can, vs, i)
             PROVE  Informed(vs[i].page.epoch, vs[i].page.max, ep2, n2, vs, i, <<>>)
  BY DEF PagesLead
<1> DEFINE e == vs[i].page.epoch
           end == vs[i].page.max
           none == <<>>
<1>2. CASE i \in DOMAIN ws
  <2>1. vs[i] = ws[i] /\ i \in 0 .. Len(ws)
    BY <1>1, <1>2
  <2>2. Told(can, ws, i)
    <3>1. \A j \in DOMAIN vs : j < i => j \in DOMAIN ws /\ ws[j] = vs[j]
      BY <1>1, <1>2
    <3> QED
      BY <3>1 DEF Told
  <2>3. Informed(e, end, ep, n, ws, i, none)
    BY <1>2, <2>1, <2>2 DEF PagesLead
  <2> HIDE DEF e, end, none
  <2>4. Informed(e, end, ep2, n2, vs, i, none)
    BY <2>1, <2>3, InformedSent
  <2> QED
    BY <2>4 DEF e, end, none
<1>3. CASE i \notin DOMAIN ws
  <2>1. vs[i] = m
    BY <1>1, <1>3
  <2>2. e = ep2 /\ end = n2 /\ n2 \in Nat
    BY <2>1
  <2>3. \A q \in 1 .. n2 : e = ep2 /\ q <= end
    BY <2>2
  <2> HIDE DEF e, end, none
  <2>4. Informed(e, end, ep2, n2, vs, i, none)
    BY <2>3 DEF Informed
  <2> QED
    BY <2>4 DEF e, end, none
<1> QED
  BY <1>2, <1>3

\* Pages of a wire without rows and notices, and no acknowledgement among them.
LEMMA PagesSilent ==
    ASSUME NEW S, NEW T, NEW ws \in Seq(S), NEW can \in BOOLEAN, NEW ep, NEW n, PagesLead(ws, can, ep, n),
           Silent(ws), NEW vs \in Seq(T), Thinned(vs, ws), ~ AcksIn(vs), NEW can2 \in BOOLEAN, can2 => can
    PROVE  PagesLead(vs, can2, ep, n)
<1> SUFFICES ASSUME NEW i \in DOMAIN vs, vs[i].kind = "page", Told(can2, vs, i)
             PROVE  Informed(vs[i].page.epoch, vs[i].page.max, ep, n, vs, i, <<>>)
  BY DEF PagesLead
<1>1. PICK j \in DOMAIN ws : Alike(vs[i], ws[j])
  BY ThinnedIs
<1>2. ws[j].kind = "page" /\ vs[i].page = ws[j].page
  BY <1>1 DEF Alike
<1>3. Told(can, ws, j)
  BY DEF Told, AcksIn
<1> DEFINE e == vs[i].page.epoch
           end == vs[i].page.max
           none == <<>>
<1>4. Informed(e, end, ep, n, ws, j, none)
  BY <1>2, <1>3 DEF PagesLead
<1>5. e = vs[i].page.epoch /\ end = vs[i].page.max /\ none = <<>>
  OBVIOUS
<1> HIDE DEF e, end, none
<1>6. Informed(e, end, ep, n, vs, i, none)
  BY <1>4, InformedSilent
<1> QED
  BY <1>5, <1>6

\* No page may be believed: the app is not told that it is subscribed.
LEMMA PagesUntold ==
    ASSUME NEW ws, \A i \in DOMAIN ws : ws[i].kind = "subscribed" => ~ ws[i].open, NEW ep, NEW n
    PROVE  PagesLead(ws, FALSE, ep, n)
BY DEF PagesLead, Told

-----------------------------------------------------------------------------
(* What the rows that wait make of the range, when none is missing.        *)

\* Applying the first rows of a queue comes to where applying them all was then.
LEMMA PrefixApplied ==
    ASSUME NEW c, ~ (c.synced /\ c.newer), NEW rs \in Seq(Rows), NEW n, n = Len(rs),
           NEW run, Applying(c, rs, n, run), NEW k \in 0 .. n
    PROVE  WithRows(c, SubSeq(rs, 1, k)) = run[k]
<1> DEFINE xs == SubSeq(rs, 1, k)
<1>1. /\ n \in Nat /\ k \in Nat /\ DOMAIN xs = 1 .. k /\ \A i \in 1 .. k : xs[i] = rs[i]
      /\ DOMAIN rs = 1 .. n
  OBVIOUS
<1> HIDE DEF xs
<1>2. PICK r2 : Applying(c, xs, k, r2) /\ Folded(WithRow, c, xs) = r2[k]
  BY <1>1, ApplyingExists
<1> DEFINE S == {j \in Nat : j <= k => r2[j] = run[j]}
<1>3. 0 \in S
  BY <1>2 DEF Applying
<1>4. ASSUME NEW j \in S PROVE j + 1 \in S
  <2> SUFFICES ASSUME j + 1 <= k PROVE r2[j + 1] = run[j + 1]
    OBVIOUS
  <2>1. j + 1 \in 1 .. k /\ j + 1 \in 1 .. n /\ (j + 1) - 1 = j /\ r2[j] = run[j] /\ xs[j + 1] = rs[j + 1]
    BY <1>1
  <2>2. r2[j + 1] = WithRow(r2[j], xs[j + 1])
    BY <1>2, <2>1 DEF Applying
  <2>3. run[j + 1] = WithRow(run[j], rs[j + 1])
    BY <2>1 DEF Applying
  <2> QED
    BY <2>1, <2>2, <2>3
<1>5. S \in SUBSET Nat
  OBVIOUS
<1> HIDE DEF S
<1>6. S = Nat
  BY <1>3, <1>4, <1>5, Induction
<1>7. r2[k] = run[k]
  BY <1>1, <1>6 DEF S
<1>8. WithRows(c, xs) = Folded(WithRow, c, xs)
  BY DEF WithRows
<1> QED
  BY <1>2, <1>7, <1>8 DEF xs

\* All that the range has reached is before the row.
Precedes(r, x) == r # NoRange => Below(r.epoch, r.end, x.epoch, x.seq)
\* What a row leaves of the range has the row, or the row is of a later epoch
\* than the range and not its first.
LEMMA RangeTakes ==
    ASSUME NEW range \in Ranges, NEW r \in Rows, Precedes(range, r), Classify(range, r) # "gap",
           NEW s, s = RangeWith(range, r)
    PROVE  /\ \/ s.epoch = r.epoch /\ s.end = r.seq
              \/ s = range /\ range.epoch < r.epoch /\ r.seq # 1
           /\ range.epoch = r.epoch => range.end <= s.end
<1>1. /\ range.epoch \in Nat /\ range.end \in Nat
      /\ range # NoRange => range = [epoch |-> range.epoch, start |-> range.start, end |-> range.end]
      /\ r.epoch \in Nat /\ r.epoch \in 1 .. MaxEpoch /\ r.seq \in Nat
      /\ range.epoch # 0 <=> range # NoRange
  BY RangeFields, RowFields
<1>2. CASE range = NoRange
  <2>1. Classify(range, r) = "init"
    BY <1>2 DEF Classify
  <2>2. s = [epoch |-> r.epoch, start |-> r.seq, end |-> r.seq]
    BY <2>1 DEF RangeWith
  <2>3. range.epoch # r.epoch
    BY <1>1, <1>2
  <2> QED
    BY <2>2, <2>3
<1>3. CASE range # NoRange /\ range.epoch = r.epoch
  <2>1. range.end < r.seq
    BY <1>1, <1>3 DEF Precedes, Below
  <2>2. Classify(range, r) = "accept"
    BY <1>1, <1>3, <2>1 DEF Classify
  <2>3. s = [range EXCEPT !.end = r.seq]
    BY <2>2 DEF RangeWith
  <2>4. s.epoch = r.epoch /\ s.end = r.seq
    BY <1>1, <1>3, <2>3
  <2> QED
    BY <1>1, <2>1, <2>4
<1>4. CASE range # NoRange /\ range.epoch # r.epoch
  <2>1. range.epoch < r.epoch
    BY <1>1, <1>4 DEF Precedes, Below
  <2>2. CASE r.seq = 1
    <3>1. Classify(range, r) = "restart"
      BY <1>4, <2>2 DEF Classify
    <3>2. s = [epoch |-> r.epoch, start |-> r.seq, end |-> r.seq]
      BY <3>1 DEF RangeWith
    <3> QED
      BY <1>4, <3>2
  <2>3. CASE r.seq # 1
    <3>1. Classify(range, r) = "drop"
      BY <1>4, <2>3 DEF Classify
    <3>2. s = range
      BY <3>1 DEF RangeWith
    <3> QED
      BY <1>4, <2>1, <2>3, <3>2
  <2> QED
    BY <2>2, <2>3
<1> QED
  BY <1>2, <1>3, <1>4

\* The steps of applying the rows that wait: each is beyond the range of its time.
LEMMA FlushSteps ==
    ASSUME Shape, Positions, chat.synced, ~ chat.newer, ~ RowsLeaveGap(chat, queue),
           NEW n, n = Len(queue), NEW run, Applying(chat, queue, n, run), NEW k \in 0 .. n - 1,
           NEW r, r = queue[k + 1], NEW range, range = run[k].range, NEW s, s = run[k + 1].range
    PROVE  /\ range \in Ranges /\ s \in Ranges /\ r \in Rows /\ Precedes(range, r)
           /\ \/ s.epoch = r.epoch /\ s.end = r.seq
              \/ s = range /\ range.epoch < r.epoch /\ r.seq # 1
           /\ range.epoch = r.epoch => range.end <= s.end
<1>1. chat \in Chats /\ queue \in Seq(Rows) /\ chat.range \in Ranges
  BY TypesNow
<1>2. /\ n \in Nat /\ k \in Nat /\ k + 1 \in Nat /\ k \in 0 .. n /\ k + 1 \in 1 .. n /\ (k + 1) - 1 = k
      /\ DOMAIN queue = 1 .. n /\ r \in Rows /\ k + 1 \in 0 .. n
  BY <1>1
<1>3. /\ run[k] \in Chats /\ run[k].synced /\ run[k + 1] \in Chats
      /\ \/ run[k].range = chat.range
         \/ run[k].range # NoRange /\ \E i \in 1 .. k : /\ run[k].range.epoch = queue[i].epoch
                                                        /\ run[k].range.end = queue[i].seq
  BY <1>1, <1>2, ApplyingKeeps
<1>4. Precedes(range, r)
  <2> SUFFICES ASSUME range # NoRange PROVE Below(range.epoch, range.end, r.epoch, r.seq)
    BY DEF Precedes
  <2>1. CASE range = chat.range
    <3>1. Waits(range.epoch, range.end, wire, queue)
      BY <2>1 DEF Positions, Reached
    <3> QED
      BY <1>2, <3>1 DEF Waits
  <2>2. ASSUME NEW i \in 1 .. k, range.epoch = queue[i].epoch, range.end = queue[i].seq
        PROVE  Below(range.epoch, range.end, r.epoch, r.seq)
    <3>1. i \in DOMAIN queue /\ k + 1 \in DOMAIN queue /\ i < k + 1
      BY <1>2
    <3>2. Below(queue[i].epoch, queue[i].seq, queue[k + 1].epoch, queue[k + 1].seq)
      BY <3>1 DEF Positions, Lined
    <3> QED
      BY <2>2, <3>2
  <2> QED
    BY <1>3, <2>1, <2>2
<1>5. Classify(range, r) # "gap"
  <2>1. WithRows(chat, SubSeq(queue, 1, k)) = run[k]
    BY <1>1, <1>2, PrefixApplied
  <2>2. ~ (Classify(WithRows(chat, SubSeq(queue, 1, (k + 1) - 1)).range, queue[k + 1]) = "gap")
    BY <1>2 DEF RowsLeaveGap
  <2> QED
    BY <1>2, <2>1, <2>2
<1>6. run[k + 1] = WithRow(run[k], r)
  BY <1>2 DEF Applying
<1>7. s = RangeWith(range, r) /\ range \in Ranges /\ s \in Ranges
  <2>1. WithRow(run[k], r).range = RangeWith(run[k].range, r)
    BY <1>2, <1>3, WithRowIs
  <2> QED
    BY <1>3, <1>6, <2>1, ChatFields
<1>8. r \in Rows
  BY <1>2
<1> HIDE DEF Precedes
<1>9. /\ \/ s.epoch = r.epoch /\ s.end = r.seq
         \/ s = range /\ range.epoch < r.epoch /\ r.seq # 1
      /\ range.epoch = r.epoch => range.end <= s.end
  BY <1>4, <1>5, <1>7, <1>8, RangeTakes
<1> QED
  BY <1>4, <1>7, <1>8, <1>9

\* The rows that wait are applied without a gap: the app is as informed as it was.
LEMMA FlushedInformed ==
    ASSUME Shape, Positions, chat.synced, ~ chat.newer, ~ RowsLeaveGap(chat, queue),
           NEW n, n = Len(rows[epoch]),
           Informed(chat.range.epoch, chat.range.end, epoch, n, wire, 0, queue)
    PROVE  Informed(FlushedChat.range.epoch, FlushedChat.range.end, epoch, n, wire, 0, <<>>)
<1> SUFFICES ASSUME ~ NoticedAfter(wire, 0)
             PROVE  Informed(FlushedChat.range.epoch, FlushedChat.range.end, epoch, n, wire, 0, <<>>)
  BY DEF Informed
<1>1. chat \in Chats /\ queue \in Seq(Rows)
  BY TypesNow
<1> DEFINE m == Len(queue)
<1>2. m \in Nat /\ DOMAIN queue = 1 .. m /\ epoch \in Nat /\ epoch \in 1 .. MaxEpoch /\ n \in Nat
  BY <1>1, NowIs
<1> HIDE DEF m
<1>3. PICK run : Applying(chat, queue, m, run) /\ Folded(WithRow, chat, queue) = run[m]
  BY <1>2, ApplyingExists
<1>4. run[0] = chat
  BY <1>3 DEF Applying
<1>5. FlushedChat = run[m]
  BY <1>3 DEF FlushedChat, WithRows
<1> DEFINE Cov(k, q) == run[k].range.epoch = epoch /\ q <= run[k].range.end
           Waiting(k, q) == \E j \in DOMAIN queue : j > k /\ queue[j].epoch = epoch /\ queue[j].seq = q
           Known2(k) == \A q \in 1 .. n : Cov(k, q) \/ HeardAfter(wire, 0, epoch, q) \/ Waiting(k, q)
           S == {k \in Nat : k <= m => Known2(k)}
<1>6. 0 \in S
  <2>1. \A q \in 1 .. n : \/ chat.range.epoch = epoch /\ q <= chat.range.end
                          \/ HeardAfter(wire, 0, epoch, q) \/ Queued(queue, epoch, q)
    BY DEF Informed
  <2>2. \A j \in DOMAIN queue : j > 0
    BY <1>2
  <2>3. \A q : Queued(queue, epoch, q) => Waiting(0, q)
    BY <2>2 DEF Queued
  <2>4. \A q : chat.range.epoch = epoch /\ q <= chat.range.end => Cov(0, q)
    BY <1>4
  <2> HIDE DEF Cov, Waiting
  <2>5. Known2(0)
    BY <2>1, <2>3, <2>4
  <2> QED
    BY <2>5
<1>7. ASSUME NEW k \in S PROVE k + 1 \in S
  <2> SUFFICES ASSUME k + 1 <= m PROVE Known2(k + 1)
    OBVIOUS
  <2> DEFINE r == queue[k + 1]
             range == run[k].range
             s == run[k + 1].range
  <2>1. k \in Nat /\ k \in 0 .. m - 1 /\ k + 1 \in DOMAIN queue /\ k + 1 > k /\ Known2(k) /\ k + 1 \in Nat
    BY <1>2
  <2>2. /\ range \in Ranges /\ s \in Ranges /\ r \in Rows /\ Precedes(range, r)
        /\ \/ s.epoch = r.epoch /\ s.end = r.seq
           \/ s = range /\ range.epoch < r.epoch /\ r.seq # 1
        /\ range.epoch = r.epoch => range.end <= s.end
    BY <1>3, <2>1, FlushSteps DEF m
  <2>3. RowHolds(r, epoch, rows)
    BY <2>1 DEF Shape, Kept
  <2>4. r.epoch <= epoch /\ r.epoch \in Nat /\ r.seq \in Nat
    BY <2>2, <2>3, RowFields DEF RowHolds
  <2>5. /\ range.epoch \in Nat /\ range.end \in Nat /\ s.epoch \in Nat /\ s.end \in Nat
        /\ range.epoch # 0 <=> range # NoRange
    BY <2>2, RangeFields
  \* What the range covered it covers still.
  <2>6. ASSUME NEW q \in 1 .. n, Cov(k, q) PROVE Cov(k + 1, q)
    <3>1. range.epoch = epoch /\ q <= range.end
      BY <2>6
    <3>2. CASE s = range
      BY <3>1, <3>2
    <3>3. CASE s.epoch = r.epoch /\ s.end = r.seq
      <4>1. Below(range.epoch, range.end, r.epoch, r.seq)
        BY <1>2, <2>2, <2>5, <3>1 DEF Precedes
      <4> HIDE DEF r, range, s
      <4>2. r.epoch = epoch /\ range.end < r.seq
        BY <1>2, <2>4, <2>5, <3>1, <4>1 DEF Below
      <4>3. s.epoch = epoch /\ q <= s.end
        BY <1>2, <2>4, <2>5, <3>1, <3>3, <4>2
      <4> QED
        BY <4>3 DEF s
    <3> HIDE DEF r, range, s, Cov
    <3> QED
      BY <2>2, <3>2, <3>3
  \* The row is covered, or it is not the first one of its epoch, which would be
  \* before it.
  <2>7. ASSUME NEW q \in 1 .. n, r.epoch = epoch, r.seq = q PROVE Cov(k + 1, q)
    <3>1. CASE s.epoch = r.epoch /\ s.end = r.seq
      BY <2>4, <2>7, <3>1
    <3>2. CASE s = range /\ range.epoch < r.epoch /\ r.seq # 1
      <4>1. 1 \in 1 .. n /\ q \in Nat
        BY <1>2, <2>7
      <4>2. ~ Cov(k, 1)
        <5> HIDE DEF r, s
        <5> QED
          BY <1>2, <2>4, <2>5, <2>7, <3>2
      <4>3. ~ HeardAfter(wire, 0, epoch, 1)
        <5> SUFFICES ASSUME NEW i \in DOMAIN wire, wire[i].kind = "row", wire[i].row.epoch = epoch,
                            wire[i].row.seq = 1
                     PROVE  FALSE
          BY DEF HeardAfter
        <5>1. Ahead(r.epoch, r.seq, wire[i])
          BY <2>1 DEF Positions, Lined
        <5>2. Below(r.epoch, r.seq, epoch, 1)
          BY <5>1 DEF Ahead
        <5> HIDE DEF r
        <5> QED
          BY <1>2, <2>4, <2>7, <4>1, <5>2 DEF Below
      <4>4. ~ Waiting(k, 1)
        <5> SUFFICES ASSUME NEW j \in DOMAIN queue, j > k, queue[j].epoch = epoch, queue[j].seq = 1
                     PROVE  FALSE
          OBVIOUS
        <5>1. j # k + 1
          BY <3>2
        <5>2. k + 1 < j
          BY <1>2, <2>1, <5>1
        <5>3. Below(r.epoch, r.seq, epoch, 1)
          BY <2>1, <5>2 DEF Positions, Lined
        <5> HIDE DEF r
        <5> QED
          BY <1>2, <2>4, <2>7, <4>1, <5>3 DEF Below
      <4> HIDE DEF Cov, Waiting, r, s, range
      <4> QED
        BY <2>1, <4>1, <4>2, <4>3, <4>4
    <3> HIDE DEF r, range, s, Cov
    <3> QED
      BY <2>2, <3>1, <3>2
  <2>8. ASSUME NEW q \in 1 .. n, Waiting(k, q) PROVE Waiting(k + 1, q) \/ Cov(k + 1, q)
    <3>1. PICK j \in DOMAIN queue : j > k /\ queue[j].epoch = epoch /\ queue[j].seq = q
      BY <2>8
    <3>2. CASE j = k + 1
      <4>1. r.epoch = epoch /\ r.seq = q
        BY <3>1, <3>2
      <4> HIDE DEF r, Cov
      <4> QED
        BY <2>7, <4>1
    <3>3. CASE j # k + 1
      <4>1. j > k + 1
        BY <1>2, <2>1, <3>1, <3>3
      <4> QED
        BY <3>1, <4>1
    <3> HIDE DEF Cov, Waiting
    <3> QED
      BY <3>2, <3>3
  <2> HIDE DEF Cov, Waiting
  <2> QED
    BY <2>1, <2>6, <2>8
<1>8. S \in SUBSET Nat
  OBVIOUS
<1> HIDE DEF S
<1>9. m \in S
  BY <1>2, <1>6, <1>7, <1>8, Induction
<1>10. Known2(m)
  BY <1>2, <1>9 DEF S
<1>11. \A q : ~ Waiting(m, q)
  BY <1>2
<1>12. \A q \in 1 .. n : Cov(m, q) \/ HeardAfter(wire, 0, epoch, q)
  <2> HIDE DEF Cov, Waiting
  <2> QED
    BY <1>10, <1>11
<1> QED
  BY <1>5, <1>12 DEF Informed

-----------------------------------------------------------------------------
(* What a page leaves of the range, and when its catch-up is complete.     *)

LEMMA RecoverySupersedes ==
    ASSUME Shape, NEW s \in Syncs, NEW resume \in CatchUps, resume # NoReq,
           NEW range \in Ranges, range # NoRange, NEW d, d = Recovered(s, CanCatchUp, resume, range),
           NEW next, next = AfterReq(range.epoch, range.end)
    PROVE  next # NoReq /\ (desired => Superseding(s, CanCatchUp, resume, next, d))
<1> DEFINE can == CanCatchUp
<1>1. can \in BOOLEAN
  BY CanIs
<1>2. d = Recovered(s, can, resume, range)
  OBVIOUS
<1> HIDE DEF can
<1>3. /\ d.sync \in Syncs /\ d.fetch \in CatchUps /\ next \in CatchUps /\ next # NoReq
      /\ desired => Superseding(s, can, resume, next, d)
      /\ ~ desired => d.sync = s /\ d.fetch = NoReq
  BY <1>1, <1>2, RecoveredIs
<1> QED
  BY <1>3 DEF can

\* Rows are missing from a chat that was up to date: it is no more.
LEMMA RecoveryStarts ==
    ASSUME Shape, CanCatchUp, NEW s \in Syncs, NEW resume \in CatchUps, resume # NoReq,
           NEW range \in Ranges, range # NoRange, NEW d, d = Recovered(s, CanCatchUp, resume, range),
           s.status = "complete", s.loaded = TRUE
    PROVE  d.fetch # NoReq /\ d.sync.status = "running"
<1> DEFINE next == AfterReq(range.epoch, range.end)
<1>1. next = AfterReq(range.epoch, range.end)
  OBVIOUS
<1> HIDE DEF next
<1>2. next # NoReq /\ (desired => Superseding(s, CanCatchUp, resume, next, d))
  BY <1>1, RecoverySupersedes
<1>3. desired
  BY DEF CanCatchUp
<1> QED
  BY <1>2, <1>3 DEF Superseding, Starting, Begun

\* Who knows more is informed.
LEMMA InformedWider ==
    ASSUME NEW e, NEW end \in Nat, NEW ep, NEW n \in Nat, NEW ws, NEW i, NEW qu,
           Informed(e, end, ep, n, ws, i, qu), NEW e2, NEW end2 \in Nat,
           end # 0 => e2 = e /\ end <= end2
    PROVE  Informed(e2, end2, ep, n, ws, i, qu)
<1>1. ASSUME NEW q \in 1 .. n, e = ep, q <= end PROVE e2 = ep /\ q <= end2
  <2>1. q \in Nat /\ q >= 1 /\ end # 0
    BY <1>1
  <2> QED
    BY <1>1, <2>1
<1> QED
  BY <1>1 DEF Informed

\* A tail has an entry that ends with the last row.
LEMMA TailReachesEnd ==
    ASSUME NEW rs \in Histories, NEW p, TailShape(rs, p), rs # <<>>, p.start <= p.end
    PROVE  \E k \in DOMAIN p.entries : p.entries[k].end >= Len(rs)
<1> DEFINE n == Len(rs)
           a == rs[n]
           at == {b \in Anchors(rs) : b >= p.start}
<1>1. /\ DOMAIN rs = 1 .. n /\ n \in Nat /\ n \in DOMAIN rs /\ a \in Anchors(rs) /\ a \in Nat
  <2>1. DOMAIN rs = 1 .. n /\ n \in Nat /\ n # 0
    <3>1. rs \in Seq(Nat \ {0})
      BY DEF Histories
    <3> QED
      BY <3>1
  <2>2. n \in DOMAIN rs
    BY <2>1
  <2>3. a \in Anchors(rs) /\ a \in 1 .. n
    BY <2>2, AnchorTypes
  <2> QED
    BY <2>1, <2>2, <2>3
<1>2. /\ p.end = n /\ p.start \in Anchors(rs) /\ Lists(p.entries, rs, at)
      /\ \A s \in DOMAIN rs : rs[s] < p.start => s < p.start
  BY DEF TailShape
<1>3. p.start \in Nat
  BY <1>2, AnchorTypes
<1>4. a >= p.start
  BY <1>1, <1>2, <1>3
<1>5. a \in at
  BY <1>1, <1>4
<1> HIDE DEF at
<1>6. PICK k \in 1 .. Len(p.entries) : p.entries[k].anchor = a
  BY <1>2, <1>5 DEF Lists
<1>7. k \in DOMAIN p.entries /\ p.entries[k] = Entry(rs, a)
  BY <1>2, <1>6 DEF Lists
<1>8. n \in Sources(rs, a)
  BY <1>1 DEF Sources
<1>9. n <= Entry(rs, a).end
  BY <1>1, <1>8, EntryIs
<1>10. Entry(rs, a).end \in Nat
  <2>1. Entry(rs, a).end \in a .. n
    BY <1>1, EntryIs
  <2> HIDE DEF a, n
  <2> QED
    BY <1>1, <2>1
<1> QED
  BY <1>1, <1>7, <1>9, <1>10

\* The units of a page that there are.
LEMMA UnitsThere ==
    ASSUME NEW p \in Pages, NEW cur, NEW onlyNews \in BOOLEAN,
           NEW k \in DOMAIN p.entries, onlyNews => p.entries[k].end > cur.end
    PROVE  Units(p, cur, onlyNews) # <<>>
<1>1. /\ ItemsOf(p) \in Seq(ShownItems) /\ Len(ItemsOf(p)) = Len(p.entries)
      /\ ItemsOf(p)[k].end = p.entries[k].end
  BY ItemsOfType
<1>2. p.entries \in Seq(Entries)
  BY PageFields
<1>3. DOMAIN ItemsOf(p) = DOMAIN p.entries
  BY <1>1, <1>2
<1> DEFINE at == {i \in DOMAIN ItemsOf(p) : onlyNews => ItemsOf(p)[i].end > cur.end}
<1>4. k \in at /\ at \in SUBSET DOMAIN ItemsOf(p)
  BY <1>1, <1>3
<1> HIDE DEF at
<1>5. \E j \in DOMAIN Only(ItemsOf(p), at) : Only(ItemsOf(p), at)[j] = ItemsOf(p)[k]
  BY <1>1, <1>4, OnlyType
<1>6. Only(ItemsOf(p), at) # <<>>
  BY <1>5
<1> QED
  BY <1>6 DEF Units, at

\* The page is one of the end of the history.
AtEnd == Pg.dir = "tail" \/ Pg.reset \/ (Pg.dir = "after" /\ ~ Pg.newer)

LEMMA LandedRange ==
    ASSUME Shape, CatchesUp, wire # <<>>, Msg.kind = "page", AtEnd
    PROVE  /\ Landed.synced /\ LandedHeld = Landed.range
           /\ LandedHeld = RangeWithPage(FlushedChat.range, Pg, Cur, Reset, Boot)
           /\ Reset \in BOOLEAN /\ Boot \in BOOLEAN
           /\ TailPolicy(Pg, Cur, Reset, Boot) = "discard" => Cur = FlushedChat.range
<1>1. /\ Landed.synced \in BOOLEAN
      /\ Landed.synced => LandedHeld = Landed.range
      /\ ~ Landed.synced => Pg.dir = "after" /\ Pg.newer
  BY PageUnsynced
<1>2. Pg.reset \/ Pg.dir = "tail" => Pg.newer = FALSE
  BY PageArrives
<1>3. Landed.synced
  BY <1>1, <1>2 DEF AtEnd
<1>4. /\ Reset \in BOOLEAN /\ Boot \in BOOLEAN
      /\ Landed.range = RangeWithPage(FlushedChat.range, Pg, Cur, Reset, Boot)
      /\ Pg.dir # "before" /\ TailPolicy(Pg, Cur, Reset, Boot) = "discard" => Landed.synced = chat.synced
  BY LandedIs
<1>5. TailPolicy(Pg, Cur, Reset, Boot) = "discard" => Pg.dir = "tail"
  BY <1>4, TailPolicyIs
<1>6. Cur = IF chat.synced THEN FlushedChat.range ELSE cached
  BY FlushedIs
<1> QED
  BY <1>1, <1>3, <1>4, <1>5, <1>6

\* The last entry of a tail ends with the last row the page knows of.
LEMMA TailEnds ==
    ASSUME NEW ep, NEW rws, Daemons(ep, rws), NEW p \in Pages, p.max <= Len(rws[p.epoch]),
           TailShape(SubSeq(rws[p.epoch], 1, p.max), p), p.max # 0, p.start <= p.end
    PROVE  \E k \in DOMAIN p.entries : p.entries[k].end >= p.max
<1> DEFINE rs == SubSeq(rws[p.epoch], 1, p.max)
<1>1. p.epoch \in 1 .. MaxEpoch /\ p.max \in Nat
  BY PageFields
<1>2. rws[p.epoch] \in Histories
  BY <1>1 DEF Daemons
<1>3. p.max \in 0 .. Len(rws[p.epoch])
  <2>1. Len(rws[p.epoch]) \in Nat
    BY <1>2, AnchorTypes
  <2> QED
    BY <1>1, <2>1
<1>4. rs \in Histories /\ Len(rs) = p.max
  BY <1>2, <1>3, PrefixIs
<1>5. TailShape(rs, p)
  OBVIOUS
<1> HIDE DEF rs
<1>6. rs # <<>>
  BY <1>4
<1>7. \E k \in DOMAIN p.entries : p.entries[k].end >= Len(rs)
  BY <1>5, <1>6, <1>4, TailReachesEnd
<1> QED
  BY <1>4, <1>7

\* A tail, or a page instead of one, brings the chat to the end.
LEMMA LandedTail ==
    ASSUME Shape, CatchesUp, wire # <<>>, Msg.kind = "page", Pg.dir = "tail" \/ Pg.reset, Pg.max # 0
    PROVE  LandedHeld.epoch = Pg.epoch /\ Pg.max <= LandedHeld.end
<1> DEFINE policy == TailPolicy(Pg, Cur, Reset, Boot)
<1>1. /\ Pg \in Pages /\ Whole(Pg) /\ PageHolds(Msg.req, Pg, epoch, rows) /\ Pg.max <= Len(rows[Pg.epoch])
      /\ Pg.end = Pg.max /\ Pg.start # 0 /\ Pg.start <= Pg.end
      /\ Pg.epoch \in 1 .. MaxEpoch /\ Pg.max \in Nat /\ Pg.start \in Nat /\ Pg.end \in Nat
  BY PageArrives, PageFields
<1>2. /\ LandedHeld = RangeWithPage(FlushedChat.range, Pg, Cur, Reset, Boot)
      /\ Reset \in BOOLEAN /\ Boot \in BOOLEAN
      /\ policy = "discard" => Cur = FlushedChat.range
  BY LandedRange DEF AtEnd
<1>3. Cur \in Ranges
  BY FlushedIs
<1>4. /\ PageRange(Pg).epoch = Pg.epoch /\ PageRange(Pg).end = Pg.end
      /\ ForwardRange(Pg, Cur).end = Pg.end
      /\ Cur = NoRange => ForwardRange(Pg, Cur).epoch = Pg.epoch
      /\ Cur # NoRange => ForwardRange(Pg, Cur).epoch = Cur.epoch
  BY <1>1, <1>3, PageRangeIs, ForwardRangeIs
<1> DEFINE rs == SubSeq(rows[Pg.epoch], 1, Pg.max)
<1>5. \E k \in DOMAIN Pg.entries : Pg.entries[k].end >= Pg.max
  <2> DEFINE p == Pg
  <2>1. Daemons(epoch, rows)
    BY DEF Shape
  <2>2. TailShape(SubSeq(rows[p.epoch], 1, p.max), p)
    BY <1>1 DEF PageHolds
  <2>3. p \in Pages /\ p.max <= Len(rows[p.epoch]) /\ p.max # 0 /\ p.start <= p.end
    BY <1>1
  <2> HIDE DEF p
  <2>4. \E k \in DOMAIN p.entries : p.entries[k].end >= p.max
    BY <2>1, <2>2, <2>3, TailEnds
  <2> QED
    BY <2>4 DEF p
<1>6. PICK k \in DOMAIN Pg.entries : Pg.entries[k].end >= Pg.max
  BY <1>5
<1>7. CASE policy = "replace"
  BY <1>1, <1>2, <1>4, <1>7 DEF RangeWithPage
<1>8. CASE policy # "replace"
  <2>1. ~ Reset /\ ~ Boot /\ Pg.dir = "tail"
    <3>1. ~ (Reset \/ Boot)
      BY <1>2, <1>8, TailPolicyIs
    <3> QED
      BY <3>1 DEF Reset
  <2>2. CASE Cur = NoRange
    <3> DEFINE no == FALSE
    <3>1. policy = "incremental"
      BY <2>1, <2>2 DEF TailPolicy
    <3>2. no \in BOOLEAN /\ (no => Pg.entries[k].end > Cur.end)
      OBVIOUS
    <3>3. (policy = "append") = no
      BY <3>1
    <3> HIDE DEF no
    <3>4. Units(Pg, Cur, no) # <<>>
      BY <1>1, <1>6, <3>2, UnitsThere
    <3>5. AcceptsForward(Pg, Cur)
      BY <1>1, <2>2 DEF AcceptsForward
    <3>6. PageTaken(Pg, Cur, Reset, Boot)
      BY <2>1, <3>1, <3>3, <3>4, <3>5 DEF PageTaken
    <3>7. LandedHeld = ForwardRange(Pg, Cur)
      BY <1>2, <2>1, <3>1, <3>6 DEF RangeWithPage
    <3> QED
      BY <1>1, <1>4, <2>2, <3>7
  <2>3. CASE Cur # NoRange
    <3>1. Cur.epoch = Pg.epoch /\ ~ (Pg.max < Cur.end) /\ Cur.end \in Nat
      BY <1>3, <1>8, <2>1, <2>3, RangeFields DEF TailPolicy
    <3>2. CASE Pg.max = Cur.end
      <4>1. policy = "discard"
        BY <2>1, <2>3, <3>1, <3>2 DEF TailPolicy
      <4>2. LandedHeld = Cur
        BY <1>2, <4>1 DEF RangeWithPage
      <4> QED
        BY <3>1, <3>2, <4>2
    <3>3. CASE Pg.max # Cur.end
      <4>1. policy = "append" /\ Pg.start <= Cur.end + 1
        BY <1>8, <2>1, <2>3, <3>1, <3>3 DEF TailPolicy
      <4>2. Cur.end < Pg.max
        BY <1>1, <3>1, <3>3
      <4> DEFINE yes == TRUE
      <4>3. yes \in BOOLEAN /\ (policy = "append") = yes
        BY <4>1
      <4>4. yes => Pg.entries[k].end > Cur.end
        <5>1. Pg.entries[k].end \in Nat
          <6>1. Pg.entries \in Seq(Entries)
            BY <1>1, PageFields
          <6>2. Pg.entries[k] \in Entries
            BY <1>6, <6>1
          <6> QED
            BY <6>2, BoundsAssumption DEF Entries
        <5> QED
          BY <1>1, <1>6, <3>1, <4>2, <5>1
      <4> HIDE DEF yes
      <4>5. Units(Pg, Cur, yes) # <<>>
        BY <1>1, <1>6, <4>3, <4>4, UnitsThere
      <4>6. AcceptsForward(Pg, Cur)
        BY <1>1, <2>3, <3>1, <4>1, <4>2 DEF AcceptsForward
      <4>7. PageTaken(Pg, Cur, Reset, Boot)
        BY <2>1, <4>1, <4>3, <4>5, <4>6 DEF PageTaken
      <4>8. LandedHeld = ForwardRange(Pg, Cur)
        BY <1>2, <2>1, <4>1, <4>7 DEF RangeWithPage
      <4> QED
        BY <1>1, <1>4, <2>3, <3>1, <4>8
    <3> QED
      BY <3>2, <3>3
  <2> QED
    BY <2>2, <2>3
<1> QED
  BY <1>7, <1>8

\* So does the last of the pages that come after the range.
LEMMA LandedAfter ==
    ASSUME Shape, Positions, CatchesUp, wire # <<>>, Msg.kind = "page",
           Pg.dir = "after", ~ Pg.reset, ~ Pg.newer, Pg.max # 0
    PROVE  LandedHeld.epoch = Pg.epoch /\ Pg.max <= LandedHeld.end
<1> DEFINE req == Msg.req
<1>1. /\ Pg \in Pages /\ Whole(Pg) /\ req \in Reqs /\ req.dir = "after"
      /\ Pg.epoch = req.epoch /\ Pg.end <= Pg.max
      /\ Pg.start # 0 => Pg.start = req.seq + 1 /\ (Pg.newer <=> Pg.end < Pg.max)
      /\ Pg.start = 0 => req.seq >= Pg.max
      /\ Pg.epoch \in Nat /\ Pg.max \in Nat /\ Pg.start \in Nat /\ Pg.end \in Nat
  BY PageArrives, PageFields
<1>2. req.seq \in Nat /\ req.epoch \in Nat
  BY <1>1, ReqFields
<1>3. /\ LandedHeld = RangeWithPage(FlushedChat.range, Pg, Cur, Reset, Boot)
      /\ Reset \in BOOLEAN /\ Boot \in BOOLEAN
  BY LandedRange DEF AtEnd
<1>4. ~ Reset /\ ~ Boot
  BY DEF Reset, Boot
<1>5. TailPolicy(Pg, Cur, Reset, Boot) = "incremental"
  BY <1>3, <1>4, TailPolicyIs
<1>6. Cur \in Ranges /\ Cur.epoch \in Nat /\ Cur.end \in Nat
  BY FlushedIs, RangeFields
<1>7. req \in Flight(Course) /\ Founded(req, Cur, epoch, wire, <<>>)
  <2>1. Msg.req \in Flight(Course) /\ AllFounded(sync, Flight(Course), Cur, epoch, wire, <<>>)
    BY PageParts
  <2> QED
    BY <2>1 DEF AllFounded
<1>8. Cur # NoRange
  <2> SUFFICES ASSUME Cur = NoRange PROVE FALSE
    OBVIOUS
  <2> DEFINE e == req.epoch + 1
             none == <<>>
  <2>1. Waits(e, 0, wire, none)
    BY <1>1, <1>7 DEF Founded
  <2>2. e \in Nat /\ 0 \in Nat
    BY <1>2
  <2> HIDE DEF none, e
  <2>3. Upto(e, 0, Pg.epoch, Pg.max)
    BY <2>1, <2>2, PageBeyond
  <2> QED
    BY <1>1, <1>2, <2>2, <2>3 DEF Upto, e
<1>9. Upto(req.epoch, req.seq, Cur.epoch, Cur.end)
  BY <1>8, GapNever
<1>10. Upto(Cur.epoch, Cur.end, Pg.epoch, Pg.max)
  <2> DEFINE none == <<>>
  <2>1. Reached(FlushedChat.range, wire, none, epoch, rows)
    BY FlushedReached
  <2>2. Reached(cached, wire, queue, epoch, rows)
    BY DEF Positions
  <2>3. Cur = FlushedChat.range \/ Cur = cached
    BY FlushedIs
  <2>4. \E q : Waits(Cur.epoch, Cur.end, wire, q)
    BY <1>8, <2>1, <2>2, <2>3 DEF Reached
  <2> QED
    BY <1>6, <2>4, PageBeyond
<1>11. Cur.epoch = Pg.epoch /\ req.seq <= Cur.end
  <2> HIDE DEF req
  <2> QED
    BY <1>1, <1>2, <1>6, <1>9, <1>10 DEF Upto
<1>12. LandedHeld = IF PageTaken(Pg, Cur, Reset, Boot) THEN ForwardRange(Pg, Cur) ELSE Cur
  BY <1>3, <1>5 DEF RangeWithPage
<1>13. CASE Pg.start = 0
  <2>1. ~ PageTaken(Pg, Cur, Reset, Boot)
    BY <1>13 DEF PageTaken, AcceptsForward
  <2> HIDE DEF req
  <2> QED
    BY <1>1, <1>2, <1>6, <1>11, <1>12, <1>13, <2>1
<1>14. CASE Pg.start # 0
  <2>1. Pg.end = Pg.max /\ Pg.start <= Cur.end + 1
    <3> HIDE DEF req
    <3> QED
      BY <1>1, <1>2, <1>6, <1>11, <1>14
  <2>2. CASE ~ (Pg.end > Cur.end)
    <3>1. ~ PageTaken(Pg, Cur, Reset, Boot)
      BY <1>8, <2>2 DEF PageTaken, AcceptsForward
    <3> QED
      BY <1>1, <1>6, <1>11, <1>12, <2>1, <2>2, <3>1
  <2>3. CASE Pg.end > Cur.end
    <3> DEFINE no == FALSE
    <3>1. AcceptsForward(Pg, Cur)
      BY <1>8, <1>11, <1>14, <2>1, <2>3 DEF AcceptsForward
    <3>2. PICK k : k \in DOMAIN Pg.entries
      <4>1. Pg.entries # <<>> /\ Pg.entries \in Seq(Entries)
        BY <1>1, <1>14, PageFields DEF Whole
      <4>2. 1 \in DOMAIN Pg.entries
        BY <4>1
      <4> QED
        BY <4>2
    <3>3. no \in BOOLEAN /\ (no => Pg.entries[k].end > Cur.end)
      OBVIOUS
    <3>4. (TailPolicy(Pg, Cur, Reset, Boot) = "append") = no
      BY <1>5
    <3> HIDE DEF no
    <3>5. Units(Pg, Cur, no) # <<>>
      BY <1>1, <3>2, <3>3, UnitsThere
    <3>6. PageTaken(Pg, Cur, Reset, Boot)
      BY <1>5, <3>1, <3>4, <3>5 DEF PageTaken
    <3>7. LandedHeld = ForwardRange(Pg, Cur)
      BY <1>12, <3>6
    <3>8. ForwardRange(Pg, Cur).end = Pg.end /\ ForwardRange(Pg, Cur).epoch = Cur.epoch
      BY <1>1, <1>6, <1>8, <1>14, ForwardRangeIs
    <3> QED
      BY <1>1, <1>11, <2>1, <3>7, <3>8
  <2> QED
    BY <2>2, <2>3
<1> QED
  BY <1>13, <1>14

-----------------------------------------------------------------------------
(* A page arrives: who is up to date is told of all that follows.          *)

\* A chat whose catch-up is complete is told of what follows its range, or has
\* queued it, or replaces what it holds.
ChatLeads ==
  sync.status = "complete" =>
    noticed \/ Informed(chat.range.epoch, chat.range.end, epoch, Len(rows[epoch]), wire, 0, queue)
Leads == PagesLead(wire, CanCatchUp, epoch, Len(rows[epoch])) /\ ChatLeads

\* The app is subscribed: it is told of what follows the page.
LEMMA PageInformed ==
    ASSUME Shape, Leads, wire # <<>>, Msg.kind = "page", CanCatchUp, NEW n, n = Len(rows[epoch])
    PROVE  Informed(Pg.epoch, Pg.max, epoch, n, Tail(wire), 0, <<>>)
<1> DEFINE ws == Tail(wire)  e == Pg.epoch  end == Pg.max  none == <<>>  one == 1  zero == 0
<1>1. wire \in Seq(Outbound) /\ Msg = wire[1] /\ 1 \in DOMAIN wire
  BY PageArrives DEF Shape
<1>2. Informed(e, end, epoch, n, wire, one, none)
  <2>1. Told(CanCatchUp, wire, 1)
    BY DEF Told
  <2>2. wire[1].kind = "page" /\ wire[1].page = Pg
    BY <1>1 DEF Pg
  <2> QED
    BY <1>1, <2>1, <2>2 DEF Leads, PagesLead
<1>3. Carries(wire, one, ws, zero)
  <2>1. \A k \in Nat : Carries(wire, k + 1, Tail(wire), k)
    BY <1>1, CarriesTail
  <2>2. Carries(wire, 0 + 1, Tail(wire), 0)
    BY <2>1
  <2> QED
    BY <2>2
<1> HIDE DEF ws, e, end, none, one, zero
<1>4. Informed(e, end, epoch, n, ws, zero, none)
  BY <1>2, <1>3, InformedCarried
<1> QED
  BY <1>4 DEF ws, e, end, none, zero

\* A page of the end leaves the chat told of all that follows.
LEMMA EndInformed ==
    ASSUME Shape, Positions, CatchesUp, Leads, wire # <<>>, Msg.kind = "page", CanCatchUp, AtEnd,
           NEW n, n = Len(rows[epoch])
    PROVE  Informed(LandedHeld.epoch, LandedHeld.end, epoch, n, Tail(wire), 0, <<>>)
<1> DEFINE ws == Tail(wire)  e == Pg.epoch  end == Pg.max  none == <<>>  zero == 0
           e2 == LandedHeld.epoch  end2 == LandedHeld.end
<1>1. Informed(e, end, epoch, n, ws, zero, none)
  BY PageInformed
<1>2. end \in Nat /\ n \in Nat /\ end2 \in Nat
  <2>1. LandedHeld \in Ranges
    BY LandedForms
  <2> QED
    BY <2>1, PageArrives, PageFields, RangeFields, NowIs
<1>3. end # 0 => e2 = e /\ end <= end2
  BY LandedTail, LandedAfter DEF AtEnd
<1> HIDE DEF ws, e, end, none, zero, e2, end2
<1>4. Informed(e2, end2, epoch, n, ws, zero, none)
  BY <1>1, <1>2, <1>3, InformedWider
<1> QED
  BY <1>4 DEF ws, none, zero, e2, end2

\* A chat that is up to date, and finds no row missing, stays so.
LEMMA StillInformed ==
    ASSUME Shape, Positions, CatchesUp, Leads, wire # <<>>, Msg.kind = "page",
           sync.status = "complete", Detour = NoReq, ~ noticed,
           NEW n, n = Len(rows[epoch])
    PROVE  Informed(LandedHeld.epoch, LandedHeld.end, epoch, n, Tail(wire), 0, <<>>)
<1>1. CanCatchUp /\ sync.loaded = TRUE /\ chat.synced /\ ~ chat.newer /\ sync \in Syncs
  <2>1. sync \in Syncs
    BY CourseTyped
  <2> QED
    BY <2>1, SyncFields DEF CatchesUp, Control, Controlled
<1>2. ~ RowsLeaveGap(chat, queue)
  <2> SUFFICES ASSUME RowsLeaveGap(chat, queue) PROVE FALSE
    OBVIOUS
  <2> DEFINE range == FlushedChat.range
             d == FirstStart
  <2>1. range # NoRange /\ range \in Ranges
    BY FlushedIs, ChatFields
  <2>2. d = Recovered(sync, CanCatchUp, ResumeNow, range) /\ ResumeNow \in CatchUps /\ ResumeNow # NoReq
    BY LandedIs DEF FirstStart
  <2> HIDE DEF range, d
  <2>3. d.fetch # NoReq /\ d.sync.status = "running"
    BY <1>1, <2>1, <2>2, RecoveryStarts
  <2>4. FirstStart.fetch = NoReq
    BY PageReroutes
  <2> QED
    BY <2>3, <2>4 DEF d
<1> DEFINE ws == Tail(wire)  none == <<>>  zero == 0
           e == FlushedChat.range.epoch  end == FlushedChat.range.end
           e2 == LandedHeld.epoch  end2 == LandedHeld.end
<1>3. Informed(e, end, epoch, n, wire, zero, none)
  <2>1. Informed(chat.range.epoch, chat.range.end, epoch, n, wire, 0, queue)
    BY DEF Leads, ChatLeads
  <2> QED
    BY <1>1, <1>2, <2>1, FlushedInformed
<1>4. Cur = FlushedChat.range
  BY <1>1, FlushedIs
<1>5. Cur \in Ranges /\ LandedHeld \in Ranges
  BY FlushedIs, LandedForms
<1>6. e = Cur.epoch /\ end = Cur.end /\ end \in Nat /\ end2 \in Nat /\ n \in Nat
      /\ (end # 0 <=> Cur # NoRange)
  BY <1>4, <1>5, RangeFields, NowIs
<1>7. Carries(wire, zero, ws, zero)
  <2>1. wire \in Seq(Outbound) /\ wire[1].kind \notin {"row", "notice"}
    BY PageArrives DEF Shape
  <2> QED
    BY <2>1, CarriesTail
<1>8. /\ Pg.end = Pg.max /\ Pg.start = 0 => Pg.max = 0
      /\ Pg.start # 0 => PageRange(Pg).epoch = Pg.epoch /\ PageRange(Pg).end = Pg.end
      /\ Pg.max \in Nat
  <2>1. Pg \in Pages /\ Whole(Pg)
    BY PageArrives
  <2> QED
    BY <2>1, PageFields, PageRangeIs DEF Whole
<1>9. \/ e2 = e /\ end2 = end
      \/ LandedHeld = PageRange(Pg) /\ Pg.end = Pg.max
      \/ end # 0 => e2 = e /\ end <= end2
  <2>1. \/ LandedHeld.epoch = Cur.epoch /\ LandedHeld.end = Cur.end
        \/ LandedHeld = PageRange(Pg) /\ Pg.end = Pg.max
        \/ /\ Pg.start # 0 /\ LandedHeld.epoch = Pg.epoch /\ LandedHeld.end = Pg.end
           /\ Cur # NoRange => Cur.epoch = Pg.epoch /\ Pg.end > Cur.end
    BY LandedForms
  <2>2. Pg.end \in Nat
    BY PageArrives, PageFields
  <2> QED
    BY <1>6, <2>1, <2>2
<1> HIDE DEF ws, none, zero, e, end, e2, end2
<1>10. Informed(e, end, epoch, n, ws, zero, none)
  BY <1>3, <1>7, InformedCarried
<1>11. CASE end # 0 => e2 = e /\ end <= end2
  BY <1>6, <1>10, <1>11, InformedWider DEF ws, none, zero, e2, end2
<1>12. CASE e2 = e /\ end2 = end
  BY <1>10, <1>12 DEF ws, none, zero, e2, end2
<1>13. CASE LandedHeld = PageRange(Pg) /\ Pg.end = Pg.max
  <2> DEFINE pe == Pg.epoch  pm == Pg.max
  <2>1. Informed(pe, pm, epoch, n, ws, zero, none)
    BY <1>1, PageInformed DEF ws, zero, none
  <2>2. pm # 0 => e2 = pe /\ pm <= end2
    BY <1>8, <1>13 DEF e2, end2
  <2>3. pm \in Nat
    BY <1>8
  <2> HIDE DEF pe, pm
  <2>4. Informed(e2, end2, epoch, n, ws, zero, none)
    BY <1>6, <2>1, <2>2, <2>3, InformedWider
  <2> QED
    BY <2>4 DEF ws, none, zero, e2, end2
<1> QED
  BY <1>9, <1>11, <1>12, <1>13

\* The catch-up that the page has left complete is told of what follows.
LEMMA DoneInformed ==
    ASSUME Shape, Positions, CatchesUp, Leads, wire # <<>>, Msg.kind = "page",
           ThirdStart.sync.status = "complete", NEW n, n = Len(rows[epoch])
    PROVE  /\ Landed.synced /\ LandedHeld = Landed.range
           /\ StillNoticed \/ Informed(LandedHeld.epoch, LandedHeld.end, epoch, n, Tail(wire), 0, <<>>)
<1>1. /\ ~ Own => ThirdStart.sync = SecondStart.sync /\ ThirdStart.fetch = NoReq
      /\ Own \in BOOLEAN
  BY PageStartsAre
<1>2. CASE Own
  <2>1. /\ CanCatchUp /\ SecondStart.sync.status = "running" /\ Pg.dir # "before"
        /\ SecondStart.sync.latest = sync.latest
        /\ Continuing(SecondStart.sync, CanCatchUp, ResumeNow, Pg, ThirdStart)
    BY <1>2, OwnedIs
  <2>2. sync.latest \/ ~ Pg.newer
    BY <2>1 DEF Continuing, Begun
  <2>3. Landed.synced /\ LandedHeld = Landed.range
    BY <1>2, <2>2, OwnedDone DEF LandedHeld
  <2>4. AtEnd
    <3>1. sync.latest => Pg.dir = "tail"
      <4>1. sync.latest => sync.await = TailReq
        BY RegularNow DEF Regular
      <4>2. sync.await = Msg.req
        BY <1>2 DEF Own
      <4> QED
        BY <4>1, <4>2, PageTyped
    <3>2. Pg.dir \in {"tail", "after", "before"}
      BY PageArrives, PageFields
    <3> QED
      BY <2>1, <2>2, <3>1, <3>2 DEF AtEnd
  <2>5. Informed(LandedHeld.epoch, LandedHeld.end, epoch, n, Tail(wire), 0, <<>>)
    BY <2>1, <2>4, EndInformed
  <2> QED
    BY <2>3, <2>5
<1>3. CASE ~ Own
  <2>1. SecondStart.sync.status = "complete"
    BY <1>1, <1>3
  <2>2. Detour = NoReq /\ sync.status = "complete"
    BY <2>1, PageReroutes DEF Rerouted, Bound, AsBefore
  <2>3. chat.synced /\ CanCatchUp
    BY <2>2 DEF CatchesUp, Control, Controlled
  <2>4. Landed.synced /\ LandedHeld = Landed.range
    BY <2>3, PageUnsynced
  <2>5. CASE StillNoticed
    BY <2>4, <2>5
  <2>6. CASE ~ StillNoticed /\ noticed
    <3>1. AtEnd
      BY <2>6 DEF StillNoticed, AtEnd
    <3>2. Informed(LandedHeld.epoch, LandedHeld.end, epoch, n, Tail(wire), 0, <<>>)
      BY <2>3, <3>1, EndInformed
    <3> QED
      BY <2>4, <3>2
  <2>7. CASE ~ noticed
    <3>1. Informed(LandedHeld.epoch, LandedHeld.end, epoch, n, Tail(wire), 0, <<>>)
      BY <2>2, <2>7, StillInformed
    <3> QED
      BY <2>4, <3>1
  <2> QED
    BY <2>5, <2>6, <2>7
<1> QED
  BY <1>1, <1>2, <1>3

LEMMA ReceivePageLeads ==
    ASSUME Shape, Positions, CatchesUp, Leads, ReceivePage
    PROVE  Leads'
<1> DEFINE ws == Tail(wire)  vs == wire'  none == <<>>  zero == 0  n == Len(rows[epoch])
           initialize == ~ Landed.synced /\ ~ AwaitsLatest
<1>1. /\ wire # <<>> /\ Msg.kind = "page"
      /\ queue' = <<>> /\ chat' = Landed /\ sync' = ThirdStart.sync
      /\ noticed' = (noticed /\ Pg.dir # "tail")
      /\ Issue(NextFetch, initialize, InitLeft, inbox, ws)
      /\ UNCHANGED <<daemonVars, up, desired, acked>>
  BY ReceivePageNamed
<1>2. /\ epoch' = epoch /\ rows' = rows /\ CanCatchUp' = CanCatchUp /\ noticed' = StillNoticed
  BY <1>1 DEF daemonVars, CanCatchUp, StillNoticed
<1>3. AllAlike(vs, ws) /\ wire \in Seq(Outbound) /\ wire[1] = Msg
  <2>1. ws \in Seq(Outbound) /\ wire \in Seq(Outbound) /\ inbox \in Seq(Inbound) /\ wire[1] = Msg
    BY <1>1, PageTyped, CourseTyped
  <2>2. NextFetch \in CatchUps /\ InitLeft \in Inits /\ initialize \in BOOLEAN
    BY <1>1, PageStartsAre
  <2>3. NextFetch \in Requests /\ NextFetch.dir # "before"
    BY <2>2, CatchUpFields
  <2>4. Issue(NextFetch, initialize, InitLeft, inbox, ws)
    BY <1>1
  <2> HIDE DEF ws, initialize
  <2>5. AllAlike(wire', ws)
    BY <2>1, <2>2, <2>3, <2>4, IssueIs
  <2> QED
    BY <2>1, <2>5
<1>4. PagesLead(vs, CanCatchUp, epoch, n)
  <2> DEFINE can == CanCatchUp
  <2>1. PagesLead(wire, can, epoch, n) /\ can \in BOOLEAN /\ wire # <<>>
    BY <1>1, TypesNow DEF Leads
  <2>2. can => can \/ (wire[1].kind = "subscribed" /\ wire[1].open)
    OBVIOUS
  <2> HIDE DEF can, n, vs
  <2>3. PagesLead(ws, can, epoch, n)
    BY <1>3, <2>1, <2>2, PagesTail
  <2>4. can => can
    OBVIOUS
  <2> HIDE DEF ws
  <2>5. PagesLead(vs, can, epoch, n)
    BY <1>3, <2>1, <2>3, <2>4, PagesAlike
  <2> QED
    BY <2>5 DEF can
<1>5. ASSUME sync'.status = "complete"
      PROVE  noticed' \/ Informed(Landed.range.epoch, Landed.range.end, epoch, n, vs, zero, none)
  <2> DEFINE e == LandedHeld.epoch  end == LandedHeld.end
  <2>1. /\ LandedHeld = Landed.range
        /\ StillNoticed \/ Informed(e, end, epoch, n, ws, zero, none)
    BY <1>1, <1>5, DoneInformed
  <2>2. e = Landed.range.epoch /\ end = Landed.range.end
    BY <2>1
  <2> HIDE DEF ws, vs, none, zero, n, e, end
  <2>3. Carries(ws, zero, vs, zero)
    BY <1>3, CarriesAlike
  <2>4. CASE Informed(e, end, epoch, n, ws, zero, none)
    <3>1. Informed(e, end, epoch, n, vs, zero, none)
      BY <2>3, <2>4, InformedCarried
    <3> QED
      BY <2>2, <3>1
  <2> QED
    BY <1>2, <2>1, <2>4
<1> QED
  BY <1>1, <1>2, <1>4, <1>5 DEF Leads, ChatLeads

-----------------------------------------------------------------------------
(* Leads is kept by steps of the daemon, of the link, and of the app.      *)

\* The daemon sends a message, and the app does nothing.
LEMMA LeadsSent ==
    ASSUME Shape, Leads, UNCHANGED <<sync, noticed, chat, queue>>, CanCatchUp' = CanCatchUp,
           NEW m \in Outbound, wire' = Append(wire, m),
           NEW n, n = Len(rows[epoch]), NEW ep2, ep2 = epoch', NEW n2, n2 = Len(rows'[epoch']),
           Tells(m, epoch, n, ep2, n2),
           m.kind = "page" => m.page.epoch = epoch /\ m.page.max = n /\ ep2 = epoch /\ n2 = n
    PROVE  Leads'
<1> DEFINE vs == wire'  can == CanCatchUp  zero == 0  qu == queue  e == chat.range.epoch  end == chat.range.end
<1>1. n \in Nat /\ wire \in Seq(Outbound) /\ can \in BOOLEAN /\ vs = Append(wire, m) /\ zero \in 0 .. Len(wire)
  BY NowIs, TypesNow
<1>2. PagesLead(wire, can, epoch, n)
  BY DEF Leads
<1>3. /\ CanCatchUp' = can /\ ep2 = epoch' /\ n2 = Len(rows'[epoch']) /\ queue' = qu
      /\ chat'.range.epoch = e /\ chat'.range.end = end
  OBVIOUS
<1>4. sync'.status = "complete" => noticed' \/ Informed(e, end, epoch, n, wire, zero, qu)
  BY DEF Leads, ChatLeads
<1>5. Tells(m, epoch, n, ep2, n2)
  OBVIOUS
<1> HIDE DEF vs, can, zero, qu, e, end
<1>6. PagesLead(vs, can, ep2, n2)
  BY <1>1, <1>2, <1>5, PagesSent
<1>7. ASSUME Informed(e, end, epoch, n, wire, zero, qu) PROVE Informed(e, end, ep2, n2, vs, zero, qu)
  BY <1>1, <1>5, <1>7, InformedSent
<1>8. sync'.status = "complete" => noticed' \/ Informed(e, end, ep2, n2, vs, zero, qu)
  BY <1>4, <1>7
<1> QED
  BY <1>3, <1>6, <1>8 DEF Leads, ChatLeads, vs, zero

\* The answers on their way may be shared, and nothing else changes for a chat
\* that is up to date.
LEMMA LeadsAlike ==
    ASSUME Shape, Leads, UNCHANGED <<epoch, rows>>, CanCatchUp' = CanCatchUp, AllAlike(wire', wire),
           sync'.status = "complete" => /\ sync.status = "complete"
                                        /\ UNCHANGED <<noticed, chat, queue>>
    PROVE  Leads'
<1> DEFINE vs == wire'  can == CanCatchUp  zero == 0  qu == queue  e == chat.range.epoch  end == chat.range.end
           n == Len(rows[epoch])  can2 == CanCatchUp'
<1>1. can \in BOOLEAN /\ AllAlike(vs, wire) /\ can2 \in BOOLEAN /\ (can2 => can)
  BY TypesNow
<1>2. PagesLead(wire, can, epoch, n)
  BY DEF Leads
<1>3. n = Len(rows'[epoch']) /\ epoch' = epoch /\ can2 = CanCatchUp'
  OBVIOUS
<1>4. sync'.status = "complete" =>
        /\ noticed' \/ Informed(e, end, epoch, n, wire, zero, qu)
        /\ queue' = qu /\ chat'.range.epoch = e /\ chat'.range.end = end
  BY DEF Leads, ChatLeads
<1> HIDE DEF vs, can, zero, qu, e, end, n, can2
<1>5. PagesLead(vs, can2, epoch, n)
  BY <1>1, <1>2, PagesAlike
<1>6. Carries(wire, zero, vs, zero)
  BY <1>1, CarriesAlike
<1>7. ASSUME Informed(e, end, epoch, n, wire, zero, qu) PROVE Informed(e, end, epoch, n, vs, zero, qu)
  BY <1>6, <1>7, InformedCarried
<1>8. sync'.status = "complete" => noticed' \/ Informed(e, end, epoch, n, vs, zero, qu)
  BY <1>4, <1>7
<1> QED
  BY <1>3, <1>4, <1>5, <1>8 DEF Leads, ChatLeads, vs, zero

\* The first message, which is neither a row nor a notice, is taken.
LEMMA LeadsTaken ==
    ASSUME Shape, Leads, wire # <<>>, wire[1].kind \notin {"row", "notice"}, UNCHANGED <<epoch, rows>>,
           NEW can2 \in BOOLEAN, can2 = CanCatchUp',
           can2 => CanCatchUp \/ (wire[1].kind = "subscribed" /\ wire[1].open),
           AllAlike(wire', Tail(wire)),
           sync'.status = "complete" => /\ sync.status = "complete"
                                        /\ UNCHANGED <<noticed, chat, queue>>
    PROVE  Leads'
<1> DEFINE vs == wire'  ws == Tail(wire)  can == CanCatchUp  zero == 0  qu == queue
           e == chat.range.epoch  end == chat.range.end  n == Len(rows[epoch])
<1>1. wire \in Seq(Outbound) /\ can \in BOOLEAN /\ AllAlike(vs, ws) /\ PagesLead(wire, can, epoch, n)
  BY TypesNow DEF Leads
<1>2. n = Len(rows'[epoch']) /\ epoch' = epoch
  OBVIOUS
<1>3. sync'.status = "complete" =>
        /\ noticed' \/ Informed(e, end, epoch, n, wire, zero, qu)
        /\ queue' = qu /\ chat'.range.epoch = e /\ chat'.range.end = end
  BY DEF Leads, ChatLeads
<1>4. Carries(wire, zero, ws, zero)
  BY <1>1, CarriesTail
<1>5. can2 => can \/ (wire[1].kind = "subscribed" /\ wire[1].open)
  OBVIOUS
<1> HIDE DEF vs, can, zero, qu, e, end, n
<1>6. PagesLead(ws, can2, epoch, n)
  BY <1>1, <1>5, PagesTail
<1>7. can2 => can2
  OBVIOUS
<1> HIDE DEF ws
<1>8. PagesLead(vs, can2, epoch, n)
  BY <1>1, <1>6, <1>7, PagesAlike
<1>9. Carries(ws, zero, vs, zero)
  BY <1>1, CarriesAlike
<1>10. ASSUME Informed(e, end, epoch, n, wire, zero, qu) PROVE Informed(e, end, epoch, n, vs, zero, qu)
  <2>1. Informed(e, end, epoch, n, ws, zero, qu)
    BY <1>4, <1>10, InformedCarried
  <2> QED
    BY <1>9, <2>1, InformedCarried
<1>11. sync'.status = "complete" => noticed' \/ Informed(e, end, epoch, n, vs, zero, qu)
  BY <1>3, <1>10
<1> QED
  BY <1>2, <1>3, <1>8, <1>11 DEF Leads, ChatLeads, vs, zero

\* The chats are subscribed anew, and no row is on its way that would be lost.
LEMMA LeadsSilent ==
    ASSUME Shape, Leads, Silent(wire), UNCHANGED <<epoch, rows, sync, noticed, chat, queue>>,
           CanCatchUp' = CanCatchUp, wire' \in Seq(Outbound), Thinned(wire', wire), ~ AcksIn(wire')
    PROVE  Leads'
<1> DEFINE vs == wire'  can == CanCatchUp  zero == 0  qu == queue  e == chat.range.epoch  end == chat.range.end
           n == Len(rows[epoch])
<1>1. /\ can \in BOOLEAN /\ wire \in Seq(Outbound) /\ vs \in Seq(Outbound) /\ Thinned(vs, wire) /\ ~ AcksIn(vs)
      /\ Silent(wire) /\ (can => can)
  BY TypesNow
<1>2. PagesLead(wire, can, epoch, n)
  BY DEF Leads
<1>3. n = Len(rows'[epoch']) /\ epoch' = epoch /\ can = CanCatchUp'
  OBVIOUS
<1>4. sync'.status = "complete" =>
        /\ noticed' \/ Informed(e, end, epoch, n, wire, zero, qu)
        /\ queue' = qu /\ chat'.range.epoch = e /\ chat'.range.end = end
  BY DEF Leads, ChatLeads
<1> HIDE DEF vs, can, zero, qu, e, end, n
<1>5. PagesLead(vs, can, epoch, n)
  BY <1>1, <1>2, PagesSilent
<1>6. ASSUME Informed(e, end, epoch, n, wire, zero, qu) PROVE Informed(e, end, epoch, n, vs, zero, qu)
  BY <1>1, <1>6, InformedSilent
<1>7. sync'.status = "complete" => noticed' \/ Informed(e, end, epoch, n, vs, zero, qu)
  BY <1>4, <1>6
<1> QED
  BY <1>3, <1>4, <1>5, <1>7 DEF Leads, ChatLeads, vs, zero

\* The app cannot catch up, nor will it know that it could.
LEMMA LeadsUntold ==
    ASSUME CanCatchUp' = FALSE, \A i \in DOMAIN wire' : wire'[i].kind = "subscribed" => ~ wire'[i].open,
           sync'.status # "complete"
    PROVE  Leads'
<1> DEFINE vs == wire'  ep2 == epoch'  n2 == Len(rows[epoch])'
<1>1. PagesLead(vs, FALSE, ep2, n2)
  <2> HIDE DEF ep2, n2
  <2> QED
    BY PagesUntold
<1> QED
  BY <1>1 DEF Leads, ChatLeads

\* There is nothing on its way, and no row the app might need.
LEMMA LeadsEmpty ==
    ASSUME DOMAIN wire' = {}, sync'.status # "complete"
    PROVE  Leads'
BY DEF Leads, ChatLeads, PagesLead
\* There are no rows to be told of.
LEMMA LeadsNone ==
    ASSUME Len(rows'[epoch']) = 0
    PROVE  Leads'
<1> DEFINE n == Len(rows'[epoch'])
<1>1. \A q \in 1 .. n : FALSE
  OBVIOUS
<1> HIDE DEF n
<1>2. \A e, end, ep, ws, i, qu : Informed(e, end, ep, n, ws, i, qu)
  BY <1>1 DEF Informed
<1> QED
  BY <1>2 DEF Leads, ChatLeads, PagesLead, n

\* An app that cannot catch up has no catch-up that is complete.
LEMMA Incapable ==
    ASSUME CatchesUp, ~ CanCatchUp
    PROVE  sync.status = "none"
BY DEF CatchesUp, Control, Controlled

\* The daemon is not subscribed to, and changes the chat: the app cannot catch up.
LEMMA UnwatchedLeads ==
    ASSUME Shape, Links, CatchesUp, ~ subscribed, ~ CanCatchUp,
           UNCHANGED <<up, appVars, wire>>
    PROVE  Leads'
<1>1. CanCatchUp' = FALSE
  BY TypesNow DEF CanCatchUp, appVars
<1>2. sync' = sync /\ wire' = wire
  BY DEF appVars
<1>3. sync.status = "none"
  BY Incapable
<1>4. \A i \in DOMAIN wire : wire[i].kind = "subscribed" => ~ wire[i].open
  BY DEF Links
<1> QED
  BY <1>1, <1>2, <1>3, <1>4, LeadsUntold

LEMMA AppendRowLeads ==
    ASSUME Shape, Links, CatchesUp, Lapses = {}, Leads, NEW a \in NextAnchors(rows[epoch]), AppendRow(a)
    PROVE  Leads'
<1>1. /\ epoch' = epoch /\ Len(rows'[epoch]) = Len(rows[epoch]) + 1
      /\ \E r \in Rows : /\ r.epoch = epoch /\ r.seq = Len(rows[epoch]) + 1 /\ r.anchor = a
                         /\ wire' = IF subscribed THEN Append(wire, [kind |-> "row", row |-> r]) ELSE wire
  BY AppendRowShape
<1>2. UNCHANGED <<up, appVars>> /\ Watched
  BY DEF AppendRow
<1>3. CASE subscribed
  <2>1. PICK r \in Rows : /\ r.epoch = epoch /\ r.seq = Len(rows[epoch]) + 1
                          /\ wire' = Append(wire, [kind |-> "row", row |-> r])
    BY <1>1, <1>3
  <2> DEFINE m == [kind |-> "row", row |-> r]  n == Len(rows[epoch])  ep2 == epoch'  n2 == Len(rows'[epoch'])
  <2>2. m \in Outbound /\ m.kind = "row" /\ m.row = r
    BY DEF Outbound, RowMsgs
  <2>3. wire' = Append(wire, m) /\ n = Len(rows[epoch]) /\ ep2 = epoch' /\ n2 = Len(rows'[epoch'])
    BY <2>1
  <2>4. Tells(m, epoch, n, ep2, n2)
    BY <1>1, <2>1, <2>2 DEF Tells
  <2>5. UNCHANGED <<sync, noticed, chat, queue>> /\ CanCatchUp' = CanCatchUp
    BY <1>2 DEF appVars, CanCatchUp
  <2> HIDE DEF m, n, ep2, n2
  <2>6. m.kind = "page" => m.page.epoch = epoch /\ m.page.max = n /\ ep2 = epoch /\ n2 = n
    BY <2>2
  <2> QED
    BY <2>2, <2>3, <2>4, <2>5, <2>6, LeadsSent
<1>4. CASE ~ subscribed
  <2>1. ~ CanCatchUp
    BY <1>2, <1>4 DEF Watched
  <2>2. wire' = wire
    BY <1>1, <1>4
  <2> QED
    BY <1>2, <1>4, <2>1, <2>2, UnwatchedLeads
<1>5. subscribed \in BOOLEAN
  BY TypesNow
<1> QED
  BY <1>3, <1>4, <1>5

LEMMA RewindLeads ==
    ASSUME Shape, Links, CatchesUp, Lapses = {}, Leads, NEW k \in 0 .. MaxRows, Rewind(k)
    PROVE  Leads'
<1>1. wire' = IF subscribed THEN Append(wire, [kind |-> "notice"]) ELSE wire
  BY RewindShape
<1>2. UNCHANGED <<up, appVars>> /\ Watched
  BY DEF Rewind
<1>3. CASE subscribed
  <2> DEFINE m == [kind |-> "notice"]  n == Len(rows[epoch])  ep2 == epoch'  n2 == Len(rows'[epoch'])
  <2>2. m \in Outbound /\ m.kind = "notice"
    BY DEF Outbound, NoticeMsgs
  <2>3. wire' = Append(wire, m) /\ n = Len(rows[epoch]) /\ ep2 = epoch' /\ n2 = Len(rows'[epoch'])
    BY <1>1, <1>3
  <2>5. UNCHANGED <<sync, noticed, chat, queue>> /\ CanCatchUp' = CanCatchUp
    BY <1>2 DEF appVars, CanCatchUp
  <2> HIDE DEF m, n, ep2, n2
  <2>4. Tells(m, epoch, n, ep2, n2)
    BY <2>2 DEF Tells
  <2>6. m.kind = "page" => m.page.epoch = epoch /\ m.page.max = n /\ ep2 = epoch /\ n2 = n
    BY <2>2
  <2> QED
    BY <2>2, <2>3, <2>4, <2>5, <2>6, LeadsSent
<1>4. CASE ~ subscribed
  <2>1. ~ CanCatchUp
    BY <1>2, <1>4 DEF Watched
  <2>2. wire' = wire
    BY <1>1, <1>4
  <2> QED
    BY <1>2, <1>4, <2>1, <2>2, UnwatchedLeads
<1>5. subscribed \in BOOLEAN
  BY TypesNow
<1> QED
  BY <1>3, <1>4, <1>5

LEMMA ReloadLeads ==
    ASSUME Shape, Reload
    PROVE  Leads'
<1>1. epoch' = epoch + 1 /\ epoch' \in 1 .. MaxEpoch /\ rows' = rows
  BY ReloadShape
<1>2. epoch \in Nat /\ Daemons(epoch, rows)
  BY NowIs DEF Shape
<1>3. rows[epoch'] = <<>>
  BY <1>1, <1>2 DEF Daemons
<1>4. Len(rows'[epoch']) = 0
  BY <1>1, <1>3
<1> QED
  BY <1>4, LeadsNone

LEMMA AnswerLeads ==
    ASSUME Shape, Leads, Answer
    PROVE  Leads'
<1>1. /\ UNCHANGED <<daemonVars, up, appVars>> /\ Head(inbox) \in FetchMsgs
      /\ \E p \in Pages :
           /\ p.epoch = epoch /\ p.max = Len(rows[epoch])
           /\ wire' = Append(wire, [kind |-> "page", req |-> Head(inbox).req,
                                    fresh |-> Head(inbox).fresh, page |-> p])
  BY AnswerShape
<1>2. PICK p \in Pages :
        /\ p.epoch = epoch /\ p.max = Len(rows[epoch])
        /\ wire' = Append(wire, [kind |-> "page", req |-> Head(inbox).req,
                                 fresh |-> Head(inbox).fresh, page |-> p])
  BY <1>1
<1> DEFINE m == [kind |-> "page", req |-> Head(inbox).req, fresh |-> Head(inbox).fresh, page |-> p]
           n == Len(rows[epoch])  ep2 == epoch'  n2 == Len(rows'[epoch'])
<1>3. m \in Outbound /\ m.kind = "page" /\ m.page = p
  BY <1>1 DEF Outbound, PageMsgs, FetchMsgs
<1>4. /\ wire' = Append(wire, m) /\ n = Len(rows[epoch]) /\ ep2 = epoch' /\ n2 = Len(rows'[epoch'])
      /\ ep2 = epoch /\ n2 = n /\ p.max = n /\ p.epoch = epoch
  BY <1>1, <1>2 DEF daemonVars
<1>5. UNCHANGED <<sync, noticed, chat, queue>> /\ CanCatchUp' = CanCatchUp
  BY <1>1 DEF appVars, CanCatchUp
<1> HIDE DEF m, n, ep2, n2
<1>6. Tells(m, epoch, n, ep2, n2) /\ m.page.epoch = epoch /\ m.page.max = n
  BY <1>3, <1>4 DEF Tells
<1> QED
  BY <1>3, <1>4, <1>5, <1>6, LeadsSent

\* The daemon sends a message about no row and no page.
LEMMA OtherSentLeads ==
    ASSUME Shape, Leads, UNCHANGED <<epoch, rows, up, appVars>>,
           NEW m \in Outbound, m.kind # "page", wire' = Append(wire, m)
    PROVE  Leads'
<1> DEFINE n == Len(rows[epoch])  ep2 == epoch'  n2 == Len(rows'[epoch'])
<1>1. n = Len(rows[epoch]) /\ ep2 = epoch' /\ n2 = Len(rows'[epoch']) /\ ep2 = epoch /\ n2 = n
  OBVIOUS
<1>2. UNCHANGED <<sync, noticed, chat, queue>> /\ CanCatchUp' = CanCatchUp
  BY DEF appVars, CanCatchUp
<1> HIDE DEF n, ep2, n2
<1>3. Tells(m, epoch, n, ep2, n2) /\ (m.kind = "page" => m.page.epoch = epoch /\ m.page.max = n)
  BY <1>1 DEF Tells
<1> QED
  BY <1>1, <1>2, <1>3, LeadsSent

LEMMA RefuseLeads ==
    ASSUME Shape, Leads, Refuse
    PROVE  Leads'
<1>1. /\ UNCHANGED <<daemonVars, up, appVars>>
      /\ \E m \in FailMsgs : wire' = Append(wire, m)
  BY RefuseShape
<1>2. PICK m \in FailMsgs : wire' = Append(wire, m)
  BY <1>1
<1>3. m \in Outbound /\ m.kind # "page"
  BY DEF Outbound, FailMsgs
<1> QED
  BY <1>1, <1>2, <1>3, OtherSentLeads DEF daemonVars

LEMMA SubscribeLeads ==
    ASSUME Shape, Leads, NEW i \in DOMAIN inbox, Subscribe(i)
    PROVE  Leads'
<1> DEFINE m == [kind |-> "subscribed", open |-> inbox[i].open]
<1>1. /\ UNCHANGED <<epoch, rows, up, appVars>> /\ inbox[i].open \in BOOLEAN
      /\ wire' = Append(wire, m)
  BY SubscribeShape
<1>2. m \in Outbound /\ m.kind # "page"
  BY <1>1 DEF Outbound, SubscribedMsgs
<1> HIDE DEF m
<1> QED
  BY <1>1, <1>2, OtherSentLeads

\* The first message is a row, and is queued.
LEMMA InformedMoved ==
    ASSUME NEW S, NEW ws \in Seq(S), ws # <<>>, ws[1].kind = "row", NEW T, NEW q \in Seq(T),
           NEW p, p = Append(q, ws[1].row), NEW e, NEW end, NEW ep, NEW n,
           Informed(e, end, ep, n, ws, 0, q)
    PROVE  Informed(e, end, ep, n, Tail(ws), 0, p)
<1> DEFINE vs == Tail(ws)
<1>1. /\ DOMAIN vs = 1 .. Len(ws) - 1 /\ DOMAIN ws = 1 .. Len(ws) /\ Len(ws) \in Nat
      /\ \A i \in 1 .. Len(ws) - 1 : vs[i] = ws[i + 1]
  OBVIOUS
<1>2. /\ DOMAIN p = 1 .. Len(q) + 1 /\ DOMAIN q = 1 .. Len(q) /\ Len(q) \in Nat
      /\ \A i \in 1 .. Len(q) : p[i] = q[i]
      /\ p[Len(q) + 1] = ws[1].row
  OBVIOUS
<1>3. \A j \in DOMAIN ws : j = 1 \/ (j - 1 \in DOMAIN vs /\ j - 1 > 0 /\ vs[j - 1] = ws[j])
  BY <1>1
<1>4. \A i \in DOMAIN q : i \in DOMAIN p /\ p[i] = q[i]
  BY <1>2
<1>5. Len(q) + 1 \in DOMAIN p
  BY <1>2
<1> HIDE DEF vs
<1>6. NoticedAfter(ws, 0) => NoticedAfter(vs, 0)
  BY <1>3 DEF NoticedAfter
<1>7. \A r : HeardAfter(ws, 0, ep, r) => HeardAfter(vs, 0, ep, r) \/ Queued(p, ep, r)
  BY <1>2, <1>3, <1>5 DEF HeardAfter, Queued
<1>8. \A r : Queued(q, ep, r) => Queued(p, ep, r)
  BY <1>4 DEF Queued
<1> QED
  BY <1>6, <1>7, <1>8 DEF Informed, vs

LEMMA ReceiveRowLeads ==
    ASSUME Shape, Leads, ReceiveRow
    PROVE  Leads'
<1> DEFINE ws == Tail(wire)  can == CanCatchUp  n == Len(rows[epoch])  p == queue'
           e == chat.range.epoch  end == chat.range.end  zero == 0
<1>1. /\ wire # <<>> /\ wire[1].kind = "row"
      /\ queue' = Append(queue, wire[1].row) /\ wire' = ws
      /\ UNCHANGED <<daemonVars, up, desired, acked, sync, noticed, chat>>
  BY ReceiveRowShape
<1>2. CanCatchUp' = can /\ epoch' = epoch /\ n = Len(rows'[epoch'])
  BY <1>1 DEF CanCatchUp, daemonVars
<1>3. wire \in Seq(Outbound) /\ queue \in Seq(Rows) /\ can \in BOOLEAN /\ p = Append(queue, wire[1].row)
  BY <1>1, TypesNow
<1>4. PagesLead(ws, can, epoch, n)
  <2>1. PagesLead(wire, can, epoch, n) /\ (can => can \/ (wire[1].kind = "subscribed" /\ wire[1].open))
    BY DEF Leads
  <2> HIDE DEF can, n
  <2> QED
    BY <1>1, <1>3, <2>1, PagesTail
<1>5. sync.status = "complete" => noticed \/ Informed(e, end, epoch, n, wire, zero, queue)
  BY DEF Leads, ChatLeads
<1>6. ASSUME Informed(e, end, epoch, n, wire, zero, queue) PROVE Informed(e, end, epoch, n, ws, zero, p)
  <2> HIDE DEF e, end, n, p
  <2> QED
    BY <1>1, <1>3, <1>6, InformedMoved
<1>7. chat'.range.epoch = e /\ chat'.range.end = end
  BY <1>1
<1> HIDE DEF can, e, end, n, p, zero
<1>8. sync.status = "complete" => noticed \/ Informed(e, end, epoch, n, ws, zero, p)
  BY <1>5, <1>6
<1> QED
  BY <1>1, <1>2, <1>4, <1>7, <1>8 DEF Leads, ChatLeads, p, zero

\* What starts is not complete.
LEMMA StartingNot ==
    ASSUME NEW s, NEW can, NEW resume, NEW req, NEW supersede, NEW next, NEW d,
           Starting(s, can, resume, req, supersede, next, d), d.sync.status = "complete"
    PROVE  s.status = "complete"
BY DEF Starting, AsBefore, Begun

LEMMA FlushQueueLeads ==
    ASSUME Shape, Positions, CatchesUp, Leads, FlushQueue
    PROVE  Leads'
<1> DEFINE vs == wire'  can == CanCatchUp  n == Len(rows[epoch])  none == <<>>
           e == FlushedChat.range.epoch  end == FlushedChat.range.end  zero == 0
<1>1. /\ queue' = <<>> /\ chat' = FlushedChat /\ sync' = FlushStart.sync
      /\ Issue(FlushStart.fetch, ~ FlushedChat.synced, init, inbox, wire)
      /\ UNCHANGED <<daemonVars, up, desired, acked, noticed>>
  BY FlushQueueShape
<1>2. CanCatchUp' = can /\ epoch' = epoch /\ n = Len(rows'[epoch'])
  BY <1>1 DEF CanCatchUp, daemonVars
<1>3. AllAlike(vs, wire) /\ can \in BOOLEAN
  <2> DEFINE initialize == ~ FlushedChat.synced  f == FlushStart.fetch
  <2>1. wire \in Seq(Outbound) /\ inbox \in Seq(Inbound) /\ init \in Inits /\ can \in BOOLEAN
    BY TypesNow
  <2>2. f \in CatchUps /\ initialize \in BOOLEAN
    BY FlushStartIs, ChatFields
  <2>3. f \in Requests /\ f.dir # "before"
    BY <2>2, CatchUpFields
  <2>4. Issue(f, initialize, init, inbox, wire)
    BY <1>1
  <2> HIDE DEF f, initialize
  <2>5. AllAlike(wire', wire)
    BY <2>1, <2>2, <2>3, <2>4, IssueIs
  <2> QED
    BY <2>1, <2>5
<1>4. PagesLead(vs, can, epoch, n)
  <2>1. PagesLead(wire, can, epoch, n) /\ (can => can)
    BY DEF Leads
  <2> HIDE DEF can, n, vs
  <2> QED
    BY <1>3, <2>1, PagesAlike
<1>5. ASSUME sync'.status = "complete"
      PROVE  noticed \/ Informed(e, end, epoch, n, wire, zero, none)
  <2>1. sync.status = "complete"
    <3>1. Recovering(sync, Resume(FlushedChat, cached), FlushedChat.range, FlushStart)
      BY FlushStartIs
    <3> QED
      BY <1>1, <1>5, <3>1, StartingNot DEF Recovering, Superseding
  <2>2. CanCatchUp /\ sync.loaded = TRUE /\ chat.synced /\ ~ chat.newer /\ sync \in Syncs
    <3>1. sync \in Syncs
      BY CourseTyped
    <3> QED
      BY <2>1, <3>1, SyncFields DEF CatchesUp, Control, Controlled
  <2>3. ~ RowsLeaveGap(chat, queue)
    <3> SUFFICES ASSUME RowsLeaveGap(chat, queue) PROVE FALSE
      OBVIOUS
    <3> DEFINE range == FlushedChat.range
               d == FlushStart
               resume == Resume(FlushedChat, cached)
    <3>1. range # NoRange /\ range \in Ranges /\ FlushedChat \in Chats /\ cached \in Ranges
      BY FlushedIs, ChatFields, TypesNow
    <3>2. d = Recovered(sync, CanCatchUp, resume, range)
      BY DEF FlushStart
    <3>3. resume \in CatchUps /\ resume # NoReq
      BY <3>1, ResumeIs
    <3> HIDE DEF range, d, resume
    <3>4. d.sync.status = "running"
      BY <2>1, <2>2, <3>1, <3>2, <3>3, RecoveryStarts
    <3> QED
      BY <1>1, <1>5, <3>4 DEF d
  <2>4. noticed \/ Informed(chat.range.epoch, chat.range.end, epoch, n, wire, 0, queue)
    BY <2>1 DEF Leads, ChatLeads
  <2>5. CASE Informed(chat.range.epoch, chat.range.end, epoch, n, wire, 0, queue)
    BY <2>2, <2>3, <2>5, FlushedInformed
  <2> QED
    BY <2>4, <2>5
<1>6. ASSUME Informed(e, end, epoch, n, wire, zero, none) PROVE Informed(e, end, epoch, n, vs, zero, none)
  <2> HIDE DEF vs, e, end, n, none, zero
  <2>1. Carries(wire, zero, vs, zero)
    BY <1>3, CarriesAlike
  <2> QED
    BY <1>6, <2>1, InformedCarried
<1>7. chat'.range.epoch = e /\ chat'.range.end = end /\ queue' = none /\ noticed' = noticed
  BY <1>1
<1> HIDE DEF can, e, end, n, zero, none, vs
<1>8. sync'.status = "complete" => noticed \/ Informed(e, end, epoch, n, vs, zero, none)
  BY <1>5, <1>6
<1> QED
  BY <1>2, <1>4, <1>7, <1>8 DEF Leads, ChatLeads, zero, vs

\* What the catch-up asks for leaves the messages as they are.
LEMMA IssuedAlike ==
    ASSUME NEW box \in Seq(Inbound), NEW ws \in Seq(Outbound), init \in Inits, NEW req \in CatchUps,
           NEW initialize \in BOOLEAN, Issue(req, initialize, init, box, ws)
    PROVE  AllAlike(wire', ws)
<1>1. req \in Requests /\ (initialize => req.dir # "before")
  BY CatchUpFields
<1>2. init \in Inits
  OBVIOUS
<1> QED
  BY <1>1, <1>2, IssueIs

LEMMA ReceiveNoticeLeads ==
    ASSUME Shape, Leads, ReceiveNotice
    PROVE  Leads'
<1> DEFINE ws == Tail(wire)  vs == wire'  can == CanCatchUp  n == Len(rows[epoch])  no == FALSE
           req == TailReq
<1>1. /\ wire # <<>> /\ noticed' = TRUE /\ Issue(req, no, init, inbox, ws)
      /\ UNCHANGED <<daemonVars, up, desired, acked>>
  BY ReceiveNoticeShape
<1>2. CanCatchUp' = can /\ epoch' = epoch /\ n = Len(rows'[epoch'])
  BY <1>1 DEF CanCatchUp, daemonVars
<1>3. /\ wire \in Seq(Outbound) /\ ws \in Seq(Outbound) /\ inbox \in Seq(Inbound) /\ init \in Inits
      /\ can \in BOOLEAN /\ no \in BOOLEAN /\ req \in CatchUps
      /\ PagesLead(wire, can, epoch, n)
  BY <1>1, TypesNow DEF Leads, CatchUps
<1>4. can => can \/ (wire[1].kind = "subscribed" /\ wire[1].open)
  OBVIOUS
<1> HIDE DEF can, n, no, req
<1>5. PagesLead(ws, can, epoch, n)
  BY <1>1, <1>3, <1>4, PagesTail
<1> HIDE DEF ws
<1>6. AllAlike(vs, ws) /\ (can => can)
  BY <1>1, <1>3, IssuedAlike
<1> HIDE DEF vs
<1>7. PagesLead(vs, can, epoch, n)
  BY <1>3, <1>5, <1>6, PagesAlike
<1> QED
  BY <1>1, <1>2, <1>7 DEF Leads, ChatLeads, vs

LEMMA ReceiveFailureLeads ==
    ASSUME Shape, CatchesUp, Leads, ReceiveFailure
    PROVE  Leads'
<1> DEFINE can2 == CanCatchUp'
<1>1. /\ wire # <<>> /\ Msg.kind = "fail" /\ wire' = Tail(wire)
      /\ sync' = IF CanCatchUp /\ sync.status = "running" /\ sync.await = Msg.req
                 THEN Failed(sync) ELSE sync
      /\ noticed' = (noticed /\ Msg.req # TailReq)
      /\ UNCHANGED <<daemonVars, up, desired, acked, queue, chat>>
  BY ReceiveFailureShape
<1>2. wire \in Seq(Outbound) /\ inbox \in Seq(Inbound) /\ sync \in Syncs /\ CanCatchUp \in BOOLEAN
      /\ noticed \in BOOLEAN /\ Msg = wire[1]
  BY <1>1, TypesNow DEF Msg
<1>3. epoch' = epoch /\ rows' = rows /\ can2 = CanCatchUp
  BY <1>1 DEF CanCatchUp, daemonVars
<1>4. sync'.status = "complete" => sync.status = "complete"
  BY <1>1, <1>2 DEF Failed, Syncs
<1>5. sync.status = "complete" /\ noticed => Msg.req # TailReq
  <2> SUFFICES ASSUME sync.status = "complete", noticed, Msg.req = TailReq PROVE FALSE
    OBVIOUS
  <2>1. Calm(Course, Held, noticed)
    BY DEF CatchesUp, Streams, Flows
  <2>2. 1 \in DOMAIN Course /\ Course[1] = wire[1]
    <3> DEFINE cs == Course
    <3>1. cs = wire \o inbox
      BY DEF Course
    <3> HIDE DEF cs
    <3>2. /\ DOMAIN cs = 1 .. Len(wire) + Len(inbox) /\ Len(wire) \in Nat /\ Len(inbox) \in Nat
          /\ \A i \in 1 .. Len(wire) : cs[i] = wire[i]
      BY <1>2, <3>1
    <3>3. 1 \in 1 .. Len(wire)
      BY <1>1, <1>2
    <3> QED
      BY <3>2, <3>3 DEF cs
  <2>3. Fresh(Course[1], Held, noticed)
    BY <1>1, <1>2, <2>2 DEF Fresh, Asks
  <2> QED
    BY <2>1, <2>2, <2>3 DEF Calm
<1>6. can2 \in BOOLEAN /\ AllAlike(wire', Tail(wire))
  BY <1>1, <1>2, <1>3, AllAlikeItself
<1>7. can2 => CanCatchUp \/ (wire[1].kind = "subscribed" /\ wire[1].open)
  BY <1>3
<1>8. sync'.status = "complete" => sync.status = "complete" /\ UNCHANGED <<noticed, chat, queue>>
  BY <1>1, <1>2, <1>4, <1>5
<1> HIDE DEF can2
<1> QED
  BY <1>1, <1>2, <1>3, <1>6, <1>7, <1>8, LeadsTaken DEF can2

LEMMA ReceiveSubscribedLeads ==
    ASSUME Shape, Leads, ReceiveSubscribed
    PROVE  Leads'
<1> DEFINE can2 == CanCatchUp'  ws == Tail(wire)  f == SubscribedStart.fetch  initialize == ~ chat.synced
<1>1. /\ wire # <<>> /\ Msg.kind = "subscribed" /\ Msg.open \in BOOLEAN
      /\ acked' = Msg.open /\ sync' = SubscribedStart.sync /\ f \in CatchUps
      /\ Msg.open => Owing(sync, up /\ desired, Resume(chat, cached), SubscribedStart)
      /\ ~ Msg.open => SubscribedStart.sync = sync
      /\ Issue(f, initialize, init, inbox, ws)
      /\ UNCHANGED <<daemonVars, up, desired, noticed, queue, chat>>
  BY ReceiveSubscribedShape
<1>2. wire \in Seq(Outbound) /\ inbox \in Seq(Inbound) /\ init \in Inits /\ ws \in Seq(Outbound)
      /\ initialize \in BOOLEAN /\ Msg = wire[1]
  BY <1>1, TypesNow DEF Msg
<1>3. epoch' = epoch /\ rows' = rows /\ can2 \in BOOLEAN
      /\ (can2 => wire[1].kind = "subscribed" /\ wire[1].open)
  BY <1>1, <1>2 DEF CanCatchUp, daemonVars
<1>4. sync'.status = "complete" => sync.status = "complete"
  BY <1>1 DEF Owing, Begun
<1>5. wire[1].kind \notin {"row", "notice"}
  BY <1>1, <1>2
<1> HIDE DEF ws, f, initialize, can2
<1>6. AllAlike(wire', ws)
  BY <1>1, <1>2, IssuedAlike
<1> QED
  BY <1>1, <1>3, <1>4, <1>5, <1>6, LeadsTaken DEF ws, can2

\* The catch-up is started, or something is fetched beside it.
LEMMA StartedLeads ==
    ASSUME Shape, Leads, UNCHANGED <<epoch, rows, up, desired, acked, noticed, queue>>,
           NEW req \in CatchUps, NEW initialize \in BOOLEAN, Issue(req, initialize, init, inbox, wire),
           sync'.status = "complete" => sync.status = "complete" /\ chat' = chat
    PROVE  Leads'
<1>1. wire \in Seq(Outbound) /\ inbox \in Seq(Inbound) /\ init \in Inits
  BY TypesNow
<1>2. AllAlike(wire', wire)
  BY <1>1, IssuedAlike
<1>3. CanCatchUp' = CanCatchUp
  BY DEF CanCatchUp
<1> QED
  BY <1>2, <1>3, LeadsAlike

LEMMA PrepareChatLeads ==
    ASSUME Shape, CatchesUp, Leads, PrepareChat
    PROVE  Leads'
<1> DEFINE f == PrepareStart.fetch  initialize == ~ PreparedChat.synced
<1>1. /\ ~ sync.loaded /\ sync' = PrepareStart.sync /\ f \in CatchUps
      /\ \E resume, next, supersede :
           Starting(Ready, CanCatchUp, resume, Ready.pending, supersede, next, PrepareStart)
      /\ Issue(f, initialize, init, inbox, wire)
      /\ UNCHANGED <<daemonVars, up, desired, acked, noticed, queue>>
  BY PrepareChatShape
<1>2. sync.status # "complete"
  BY <1>1 DEF CatchesUp, Control, Controlled
<1>3. Ready.status = sync.status
  BY ReadyIs
<1>4. sync'.status # "complete"
  BY <1>1, <1>2, <1>3, StartingNot
<1>5. initialize \in BOOLEAN
  BY PreparedIs, ChatFields
<1> HIDE DEF f, initialize
<1> QED
  BY <1>1, <1>4, <1>5, StartedLeads DEF daemonVars

LEMMA RetryLeads ==
    ASSUME Shape, Leads, NEW manual \in BOOLEAN, Retry(manual)
    PROVE  Leads'
<1> DEFINE initialize == ~ chat.synced
<1>1. /\ sync.status = "error"
      /\ \E d : \E req \in CatchUps, next \in CatchUps, resume \in CatchUps :
           /\ d.fetch \in CatchUps
           /\ Starting(sync, CanCatchUp, resume, req, manual, next, d)
           /\ sync' = d.sync /\ Issue(d.fetch, initialize, init, inbox, wire)
      /\ UNCHANGED <<daemonVars, up, desired, acked, noticed, queue, chat>>
  BY RetryShape
<1>2. PICK d : \E req \in CatchUps, next \in CatchUps, resume \in CatchUps :
           /\ d.fetch \in CatchUps
           /\ Starting(sync, CanCatchUp, resume, req, manual, next, d)
           /\ sync' = d.sync /\ Issue(d.fetch, initialize, init, inbox, wire)
  BY <1>1
<1>3. sync'.status # "complete" /\ d.fetch \in CatchUps /\ Issue(d.fetch, initialize, init, inbox, wire)
  BY <1>1, <1>2, StartingNot
<1>4. initialize \in BOOLEAN
  BY TypesNow
<1> HIDE DEF initialize
<1> QED
  BY <1>1, <1>3, <1>4, StartedLeads DEF daemonVars

LEMMA ForegroundLeads ==
    ASSUME Shape, Leads, Foreground
    PROVE  Leads'
<1> DEFINE initialize == ~ chat.synced  yes == TRUE
<1>1. /\ \E d : \E next \in CatchUps :
           /\ d.fetch \in CatchUps
           /\ Starting(sync, CanCatchUp, next, NoReq, yes, next, d)
           /\ sync' = d.sync /\ Issue(d.fetch, initialize, init, inbox, wire)
      /\ UNCHANGED <<daemonVars, up, desired, acked, noticed, queue, chat>>
  BY ForegroundShape
<1>2. PICK d : \E next \in CatchUps :
           /\ d.fetch \in CatchUps
           /\ Starting(sync, CanCatchUp, next, NoReq, yes, next, d)
           /\ sync' = d.sync /\ Issue(d.fetch, initialize, init, inbox, wire)
  BY <1>1
<1>3. /\ sync'.status = "complete" => sync.status = "complete"
      /\ d.fetch \in CatchUps /\ Issue(d.fetch, initialize, init, inbox, wire)
  BY <1>2, StartingNot
<1>4. initialize \in BOOLEAN
  BY TypesNow
<1> HIDE DEF initialize
<1> QED
  BY <1>1, <1>3, <1>4, StartedLeads DEF daemonVars

LEMMA LoadOlderLeads ==
    ASSUME Shape, Leads, LoadOlder
    PROVE  Leads'
<1> DEFINE req == BeforeReq(chat.range.epoch, chat.range.start)  no == FALSE
<1>1. /\ req \in Reqs /\ Issue(req, no, init, inbox, wire)
      /\ UNCHANGED <<daemonVars, up, desired, acked, sync, noticed, queue, chat>>
  BY LoadOlderShape
<1>2. wire \in Seq(Outbound) /\ inbox \in Seq(Inbound) /\ init \in Inits /\ no \in BOOLEAN
      /\ req \in Requests /\ (no => req.dir # "before")
  BY <1>1, TypesNow, ReqFields
<1> HIDE DEF req, no
<1>3. AllAlike(wire', wire)
  BY <1>1, <1>2, IssueIs
<1>4. CanCatchUp' = CanCatchUp /\ epoch' = epoch /\ rows' = rows
  BY <1>1 DEF CanCatchUp, daemonVars
<1> QED
  BY <1>1, <1>3, <1>4, LeadsAlike

-----------------------------------------------------------------------------
(* The theorems about a chat for which nothing is left to happen.          *)

LEMMA RefuseSubscriptionLeads ==
    ASSUME Shape, Leads, NEW i \in DOMAIN inbox, RefuseSubscription(i)
    PROVE  Leads'
<1>1. UNCHANGED <<daemonVars, up, wire, desired, acked, sync, noticed, queue, chat>>
  BY RefuseSubscriptionShape
<1>2. UNCHANGED <<epoch, rows>> /\ CanCatchUp' = CanCatchUp
  BY <1>1 DEF daemonVars, CanCatchUp
<1>3. AllAlike(wire', wire)
  BY <1>1, AllAlikeItself
<1> QED
  BY <1>1, <1>2, <1>3, LeadsAlike

\* What stays of the messages when the chats are subscribed anew.
LEMMA AnewSent ==
    ASSUME Shape, NEW open \in BOOLEAN, Observe(open)
    PROVE  /\ wire' \in Seq(Outbound) /\ Thinned(wire', wire) /\ ~ AcksIn(wire')
           /\ \A i \in DOMAIN wire' : wire'[i].kind # "subscribed"
<1>1. wire' \in Seq(Outbound) /\ Thinned(wire', wire) /\ wire' = OfKind(wire, {"page", "fail"})
  BY ObserveShape
<1>2. wire \in Seq(Outbound)
  BY TypesNow
<1>3. \A i \in DOMAIN wire' : wire'[i].kind \in {"page", "fail"}
  BY <1>1, <1>2, OfKindIs
<1> QED
  BY <1>1, <1>3 DEF AcksIn

\* Of nothing, nothing stays.
LEMMA ThinnedEmpty ==
    ASSUME NEW S, NEW T, NEW ms \in Seq(S), NEW ns \in Seq(T), Thinned(ms, ns), ns = <<>>
    PROVE  DOMAIN ms = {}
<1>1. \A i \in DOMAIN ms : \E j \in DOMAIN ns : Alike(ms[i], ns[j])
  BY ThinnedIs
<1>2. DOMAIN ns = {}
  OBVIOUS
<1> QED
  BY <1>1, <1>2

LEMMA EndsLeads ==
    ASSUME Shape
    PROVE  /\ CloseChat => Leads'
           /\ Disconnect => Leads'
           /\ Restart => Leads'
<1>1. sync \in Syncs
  BY TypesNow
<1>2. ASSUME CloseChat PROVE Leads'
  <2>1. Observe(FALSE) /\ desired' = FALSE /\ sync' = Cancelled(sync)
    BY <1>2, CloseChatShape
  <2> DEFINE open == FALSE
  <2>2. open \in BOOLEAN /\ Observe(open)
    BY <2>1
  <2> HIDE DEF open
  <2>3. \A i \in DOMAIN wire' : wire'[i].kind # "subscribed"
    BY <2>2, AnewSent
  <2>4. sync'.status # "complete"
    BY <1>1, <2>1, CancelledIs
  <2>5. CanCatchUp' = FALSE
    BY <2>1 DEF CanCatchUp
  <2> QED
    BY <2>3, <2>4, <2>5, LeadsUntold
<1>3. ASSUME Disconnect PROVE Leads'
  <2>1. Unlinked /\ sync' = Cancelled(sync)
    BY <1>3, DisconnectShape
  <2>2. DOMAIN wire' = {}
    BY <2>1, NothingLeft
  <2>3. sync'.status # "complete"
    BY <1>1, <2>1, CancelledIs
  <2> QED
    BY <2>2, <2>3, LeadsEmpty
<1>4. ASSUME Restart PROVE Leads'
  <2>1. Unlinked /\ sync' = NoSync
    BY <1>4, RestartShape
  <2>2. DOMAIN wire' = {}
    BY <2>1, NothingLeft
  <2>3. sync'.status # "complete"
    BY <1>1, <2>1, CancelledIs
  <2> QED
    BY <2>2, <2>3, LeadsEmpty
<1> QED
  BY <1>2, <1>3, <1>4

LEMMA OpenChatLeads ==
    ASSUME Shape, CatchesUp, Lapses = {}, OpenChat
    PROVE  Leads'
<1>1. /\ Shape' /\ Thinned(wire', wire) /\ ~ desired /\ Idle /\ sync' = OpenStart.sync
      /\ Owing(sync, up /\ acked, Resume(chat, cached), OpenStart)
  BY OpenChatShape
<1>2. wire = <<>> /\ ~ CanCatchUp
  BY <1>1 DEF Idle, CanCatchUp
<1>3. wire' \in Seq(Outbound) /\ wire \in Seq(Outbound)
  BY <1>1, TypesNow DEF Shape
<1> DEFINE vs == wire'
<1>4. DOMAIN vs = {}
  <2>1. vs \in Seq(Outbound) /\ Thinned(vs, wire)
    BY <1>1, <1>3
  <2> HIDE DEF vs
  <2> QED
    BY <1>2, <1>3, <2>1, ThinnedEmpty
<1>5. sync.status = "none"
  BY <1>2, Incapable
<1>6. sync'.status # "complete"
  BY <1>1, <1>5 DEF Owing, Begun
<1> QED
  BY <1>4, <1>6, LeadsEmpty

LEMMA AnewLeads ==
    ASSUME Shape, Links, CatchesUp, Lapses = {}, Leads
    PROVE  /\ OtherChat => Leads'
           /\ RetrySubscription => Leads'
           /\ Connect => Leads'
<1> DEFINE open == TRUE
<1>o. open \in BOOLEAN
  OBVIOUS
<1>1. ASSUME OtherChat PROVE Leads'
  <2>1. /\ Observe(open) /\ Idle
        /\ UNCHANGED <<epoch, rows, up, desired, acked, sync, noticed, queue, chat>>
    BY <1>1, OtherChatShape
  <2>2. CanCatchUp' = CanCatchUp
    BY <2>1 DEF CanCatchUp
  <2>3. Silent(wire)
    BY <2>1 DEF Idle, Silent
  <2> HIDE DEF open
  <2>4. wire' \in Seq(Outbound) /\ Thinned(wire', wire) /\ ~ AcksIn(wire')
    BY <1>o, <2>1, AnewSent
  <2> QED
    BY <2>1, <2>2, <2>3, <2>4, LeadsSilent
<1>2. ASSUME RetrySubscription PROVE Leads'
  <2>1. /\ Observe(open) /\ subRetry
        /\ UNCHANGED <<epoch, rows, up, desired, acked, sync, noticed, queue, chat>>
    BY <1>2, RetrySubscriptionShape
  <2>2. CanCatchUp' = CanCatchUp
    BY <2>1 DEF CanCatchUp
  <2>3. Silent(wire)
    BY <2>1 DEF Links, Silent
  <2> HIDE DEF open
  <2>4. wire' \in Seq(Outbound) /\ Thinned(wire', wire) /\ ~ AcksIn(wire')
    BY <1>o, <2>1, AnewSent
  <2> QED
    BY <2>1, <2>2, <2>3, <2>4, LeadsSilent
<1>3. ASSUME Connect PROVE Leads'
  <2>1. Shape' /\ Thinned(wire', wire) /\ ~ up /\ sync' = sync
    BY <1>3, ConnectShape
  <2>2. wire = <<>> /\ ~ CanCatchUp
    BY <2>1 DEF Links, CanCatchUp
  <2>3. wire' \in Seq(Outbound) /\ wire \in Seq(Outbound)
    BY <2>1, TypesNow DEF Shape
  <2> DEFINE vs == wire'
  <2>4. DOMAIN vs = {}
    <3>1. vs \in Seq(Outbound) /\ Thinned(vs, wire)
      BY <2>1, <2>3
    <3> HIDE DEF vs
    <3> QED
      BY <2>2, <2>3, <3>1, ThinnedEmpty
  <2>5. sync'.status # "complete"
    BY <2>1, <2>2, Incapable
  <2> QED
    BY <2>4, <2>5, LeadsEmpty
<1> QED
  BY <1>1, <1>2, <1>3

\* Every step keeps the app told of what it does not hold.
LEMMA NextLeads ==
    ASSUME Shape, Links, Positions, CatchesUp, Leads, Lapses = {}, [Next]_vars
    PROVE  Leads'
<1>1. CASE UNCHANGED vars
  <2>1. /\ UNCHANGED <<epoch, rows, wire, sync, noticed, chat, queue>> /\ CanCatchUp' = CanCatchUp
    BY <1>1 DEF vars, daemonVars, linkVars, appVars, CanCatchUp
  <2>2. AllAlike(wire', wire)
    BY <2>1, AllAlikeItself
  <2> QED
    BY <2>1, <2>2, LeadsAlike
<1>2. ASSUME Internal PROVE Leads'
  <2> DEFINE manual == FALSE
  <2>2. Retry(manual) => Leads'
    <3>1. manual \in BOOLEAN
      OBVIOUS
    <3> HIDE DEF manual
    <3> QED
      BY <3>1, RetryLeads
  <2> QED
    BY <1>2, <2>2, AnswerLeads, SubscribeLeads, ReceiveRowLeads, FlushQueueLeads,
       ReceiveNoticeLeads, ReceivePageLeads, ReceiveFailureLeads,
       ReceiveSubscribedLeads, PrepareChatLeads, AnewLeads DEF Internal
<1>3. ASSUME External PROVE Leads'
  <2> DEFINE manual == TRUE
  <2>2. Retry(manual) => Leads'
    <3>1. manual \in BOOLEAN
      OBVIOUS
    <3> HIDE DEF manual
    <3> QED
      BY <3>1, RetryLeads
  <2> QED
    BY <1>3, <2>2, AppendRowLeads, RewindLeads, ReloadLeads, RefuseLeads,
       RefuseSubscriptionLeads, ForegroundLeads, LoadOlderLeads, EndsLeads,
       OpenChatLeads, AnewLeads DEF External
<1> QED
  BY <1>1, <1>2, <1>3 DEF Next

\* In the first state nothing is complete, and nothing is on its way.
LEMMA InitLeads ==
    ASSUME Init
    PROVE  Leads
<1>1. wire = <<>> /\ sync = NoSync
  BY DEF Init
<1>2. DOMAIN wire = {}
  BY <1>1
<1>3. sync.status # "complete"
  BY <1>1 DEF NoSync
<1> QED
  BY <1>2, <1>3 DEF Leads, ChatLeads, PagesLead

\* An app that has caught up is told of every row that it does not hold, or to
\* replace what it holds; so is one that takes a page of the end.
THEOREM LeadsHold ==
    ASSUME Lapses = {}
    PROVE  Spec => []Leads
<1>1. Init => Leads
  BY InitLeads
<1>2. Shape /\ Links /\ Positions /\ CatchesUp /\ Leads /\ [Next]_vars => Leads'
  BY NextLeads
<1> QED
  BY <1>1, <1>2, ShapeHolds, LinksHold, PositionsHold, CatchesUpHolds, PTL DEF Spec

\* Whoever is told of every row, and has nothing to be told, holds them all.
LEMMA InformedAll ==
    ASSUME NEW e, NEW end \in Nat, NEW ep \in Nat, NEW n \in Nat, NEW ws, NEW i, NEW qu,
           Informed(e, end, ep, n, ws, i, qu), DOMAIN ws = {}, DOMAIN qu = {}, n # 0
    PROVE  e = ep /\ n <= end
<1>1. ~ NoticedAfter(ws, i) /\ ~ HeardAfter(ws, i, ep, n) /\ ~ Queued(qu, ep, n)
  BY DEF NoticedAfter, HeardAfter, Queued
<1>2. n \in 1 .. n
  OBVIOUS
<1>3. \A q \in 1 .. n : (e = ep /\ q <= end) \/ HeardAfter(ws, i, ep, q) \/ Queued(qu, ep, q)
  BY <1>1 DEF Informed
<1> QED
  BY <1>1, <1>2, <1>3

\* Nothing is left to happen: the app is subscribed, and its catch-up complete.
LEMMA SettledIsComplete ==
    ASSUME Shape, Links, CatchesUp, Settled
    PROVE  subscribed /\ sync.status = "complete" /\ ~ noticed /\ DOMAIN wire = {} /\ DOMAIN queue = {}
<1>1. /\ inbox = <<>> /\ wire = <<>> /\ queue = <<>> /\ up /\ desired /\ sync.loaded /\ ~ subRetry
      /\ ~ (sync.status = "error" /\ CanCatchUp)
  BY DEF Settled, Idle
<1>2. DOMAIN inbox = {} /\ DOMAIN wire = {} /\ DOMAIN queue = {}
  BY <1>1
<1>3. Flight(Course) = {}
  BY <1>1, NoCourse DEF Course
<1>4. subscribed
  BY <1>1, <1>2 DEF Links, SubsIn
<1>5. acked
  BY <1>2, <1>4 DEF Links, AcksIn
<1>6. CanCatchUp
  BY <1>1, <1>5 DEF CanCatchUp
<1>7. /\ sync.status # "none" <=> CanCatchUp /\ sync.loaded
      /\ sync.status = "running" => sync.await \in Flight(Course)
      /\ noticed => TailReq \in Flight(Course)
  BY DEF CatchesUp, Control, Controlled
<1>8. sync.status \in {"none", "running", "complete", "error"}
  BY CourseTyped DEF Syncs
<1> QED
  BY <1>1, <1>2, <1>3, <1>4, <1>6, <1>7, <1>8

LEMMA SettledIsAtEnd ==
    ASSUME Shape, Links, Positions, CatchesUp, Leads, Settled, rows[epoch] # <<>>
    PROVE  Current
<1> DEFINE n == Len(rows[epoch])  e == chat.range.epoch  end == chat.range.end  ws == wire  qu == queue  zero == 0
<1>1. subscribed /\ sync.status = "complete" /\ ~ noticed /\ DOMAIN wire = {} /\ DOMAIN queue = {}
  BY SettledIsComplete
<1>2. chat.synced /\ ~ chat.newer
  BY <1>1 DEF CatchesUp, Control, Controlled
<1>3. Informed(e, end, epoch, n, ws, zero, qu)
  BY <1>1 DEF Leads, ChatLeads
<1>4. epoch \in Nat /\ n \in Nat /\ n # 0
  <2>1. Daemons(epoch, rows)
    BY DEF Shape
  <2>2. epoch \in 1 .. MaxEpoch /\ rows[epoch] \in Histories
    BY <2>1 DEF Daemons
  <2>3. rows[epoch] \in Seq(Nat \ {0})
    BY <2>2 DEF Histories
  <2> QED
    BY <2>2, <2>3
<1>5. chat.range \in Ranges /\ end \in Nat
  <2>1. chat.range \in Ranges
    BY TypesNow DEF Chats
  <2>2. NoRange.end = 0
    BY DEF NoRange
  <2> QED
    BY <2>1, <2>2 DEF Ranges
<1>6. DOMAIN ws = {} /\ DOMAIN qu = {}
  BY <1>1
<1>7. Reached(chat.range, wire, queue, epoch, rows)
  BY DEF Positions
<1>8. e = epoch /\ n <= end
  <2> HIDE DEF n, e, end, ws, qu, zero
  <2> QED
    BY <1>3, <1>4, <1>5, <1>6, InformedAll
<1>9. chat.range # NoRange
  BY <1>4, <1>8 DEF NoRange
<1>10. Upto(e, end, epoch, n)
  BY <1>7, <1>9 DEF Reached
<1>11. end <= n
  <2> HIDE DEF n, e, end
  <2> QED
    BY <1>4, <1>5, <1>8, <1>10 DEF Upto
<1>12. end = n
  <2> HIDE DEF n, e, end
  <2> QED
    BY <1>4, <1>5, <1>8, <1>11
<1> QED
  BY <1>2, <1>8, <1>12 DEF Current

\* When nothing is left to happen an open chat is subscribed, caught up, and
\* holds the daemon's last row.
THEOREM SettledIsCurrentHolds ==
    ASSUME Lapses = {}
    PROVE  Spec => []SettledIsCurrent
<1>1. Shape /\ Links /\ Positions /\ CatchesUp /\ Leads => SettledIsCurrent
  BY SettledIsComplete, SettledIsAtEnd DEF SettledIsCurrent
<1> QED
  BY <1>1, ShapeHolds, LinksHold, PositionsHold, CatchesUpHolds, LeadsHold, PTL
==============================================================================
