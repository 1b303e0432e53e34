--------------------------- MODULE TimelineStream ---------------------------
(***************************************************************************)
(* What the app keeps of one chat and how pages and live rows change it    *)
(* (session-stream-reducers.ts, stream.ts, session-store.ts): pure         *)
(* functions on                                                            *)
(*   synced   the daemon's history has been applied since the app started  *)
(*   items    the transcript on screen                                     *)
(*   head     live rows laid over a transcript that is not synced          *)
(*   range    the source rows the items cover, of which epoch              *)
(*   older    there is history before the range                            *)
(*   newer    there is history after it: live rows are not for this window *)
(* Every item is one that has an identity, as a tool call has: the daemon  *)
(* and the app merge its rows by identity.  Texts, merged by adjacency,    *)
(* local submissions and jumps to a prompt are left out.                   *)
(***************************************************************************)
EXTENDS Naturals, Sequences, FiniteSets, FiniteSetsExt

NoRange == [epoch |-> 0, start |-> 0, end |-> 0]

NoChat == [synced |-> FALSE, items |-> <<>>, head |-> <<>>, range |-> NoRange,
           older |-> FALSE, newer |-> FALSE]

\* The elements of s at the positions in at, in their order.
Only(s, at) ==
  LET nth(k) == CHOOSE i \in at : Cardinality({j \in at : j < i}) = k - 1
  IN  [k \in 1..Cardinality(at) |-> s[nth(k)]]

\* s without its i-th element.
Without(s, i) == SubSeq(s, 1, i - 1) \o SubSeq(s, i + 1, Len(s))

\* op(... op(op(base, s[1]), s[2]) ..., s[Len(s)]).
Folded(op(_, _), base, s) ==
  MapThenFoldSet(LAMBDA x, folded : op(folded, x), base, LAMBDA i : s[i], Max, DOMAIN s)

\* Everything on screen.
Shown(c) == c.items \o c.head

Same(x, y) == x.epoch = y.epoch /\ x.anchor = y.anchor

Holds(items, x) == \E i \in DOMAIN items : Same(items[i], x)

Place(items, x) == Min({i \in DOMAIN items : Same(items[i], x)})

\* x is appended although items started after it are already there: it stands
\* where its update arrived.  (A mark of the model, no field of the code.)
Late(items, x) ==
  \E i \in DOMAIN items : items[i].epoch = x.epoch /\ items[i].anchor > x.anchor

\* Merge x into the first item of its identity, or append it.
Upsert(items, x) ==
  IF Holds(items, x)
  THEN [items EXCEPT ![Place(items, x)].end = x.end]
  ELSE Append(items, [x EXCEPT !.late = @ \/ Late(items, x)])

\* The head goes to the tail, without the items the tail has.
Flush(items, head) ==
  items \o Only(head, {i \in DOMAIN head : ~ Holds(items, head[i])})

ItemsOf(p) ==
  [i \in DOMAIN p.entries |->
    [epoch |-> p.epoch, anchor |-> p.entries[i].anchor, end |-> p.entries[i].end,
     late |-> FALSE]]

(***************************************************************************)
(* Replacing what is held by canonical items: the overlay rows beyond the  *)
(* coverage survive when the replacement continues the same history, and   *)
(* are merged into the canonical item of their identity.                   *)
(***************************************************************************)
Covered(x, coverage) ==
  x.epoch # coverage.epoch \/ (coverage.end # 0 /\ x.end <= coverage.end)

WithCanonical(c, items, coverage, continuity) ==
  LET kept   == IF continuity
                THEN Only(c.head, {i \in DOMAIN c.head : ~ Covered(c.head[i], coverage)})
                ELSE <<>>
      merged == Only(kept, {i \in DOMAIN kept : Holds(items, kept[i])})
      beyond == Only(kept, {i \in DOMAIN kept : ~ Holds(items, kept[i])})
  IN  [c EXCEPT !.items = Folded(Upsert, items, merged),
                !.head  = [i \in DOMAIN beyond |->
                            [beyond[i] EXCEPT !.late = @ \/ Late(items, beyond[i])]]]

\* The persisted transcript is painted; without a range it claims no coverage.
Painted(c, stored) ==
  LET coverage == IF stored.range # NoRange THEN stored.range
                  ELSE [epoch |-> IF c.head = <<>> THEN 0 ELSE c.head[1].epoch,
                        start |-> 0, end |-> 0]
  IN  [WithCanonical(c, stored.items, coverage, TRUE)
         EXCEPT !.range = stored.range, !.older = stored.older, !.newer = FALSE]

(***************************************************************************)
(* A page.  cur is the range it is compared with, reset whether it         *)
(* replaces everything, boot whether it is the tail a first visit asked    *)
(* for.                                                                    *)
(***************************************************************************)
TailPolicy(p, cur, reset, boot) ==
  IF reset \/ boot THEN "replace"
  ELSE IF p.dir # "tail" \/ cur = NoRange THEN "incremental"
  ELSE IF cur.epoch # p.epoch \/ p.max < cur.end THEN "replace"
  ELSE IF p.max = cur.end THEN "discard"
  ELSE IF p.start # 0 /\ p.start <= cur.end + 1 THEN "append"
  ELSE "replace"

\* What survives of the overlay in each of the replacements.
Continues(p, cur, reset, boot) ==
  IF reset \/ boot
  THEN (cur # NoRange /\ cur.epoch = p.epoch) \/ ~ reset
  ELSE cur.epoch = p.epoch /\ p.max > cur.end

Replaced(c, p, continuity) ==
  [WithCanonical(c, ItemsOf(p), [epoch |-> p.epoch, start |-> p.start, end |-> p.end],
                 continuity)
     EXCEPT !.range = IF p.start # 0
                      THEN [epoch |-> p.epoch, start |-> p.start, end |-> p.end]
                      ELSE NoRange,
            !.older = p.older]

\* Mutant: an adjacent page is taken although it ends before the range does.
AcceptsForwardAny(p, cur) ==
  p.start # 0 /\ (cur = NoRange \/ (cur.epoch = p.epoch /\ p.start <= cur.end + 1))

\* A page after the range is taken if it is adjacent or overlaps: whole, or only
\* the units that are news if it is a tail.
AcceptsForward(p, cur) ==
  p.start # 0 /\ (cur = NoRange \/ (cur.epoch = p.epoch /\ p.end > cur.end
                                                        /\ p.start <= cur.end + 1))

\* It starts beyond the next row: the rows between are asked for.
LeavesGap(p, cur) ==
  p.start # 0 /\ cur # NoRange /\ cur.epoch = p.epoch /\ p.end > cur.end
              /\ p.start > cur.end + 1

Forward(c, p, cur, onlyNews) ==
  LET all   == ItemsOf(p)
      units == Only(all, {i \in DOMAIN all : onlyNews => all[i].end > cur.end})
  IN  IF units = <<>> \/ ~ AcceptsForward(p, cur)
      THEN [c EXCEPT !.range = cur]
      ELSE [c EXCEPT !.items = Folded(Upsert, Flush(c.items, c.head), units),
                     !.head  = <<>>,
                     !.range = IF cur = NoRange
                               THEN [epoch |-> p.epoch, start |-> p.start, end |-> p.end]
                               ELSE [cur EXCEPT !.end = p.end]]

\* A page before the range is taken if it ends where the range starts.  Items
\* whose position is within the page give way to it.
AcceptsOlder(p, cur) ==
  cur # NoRange /\ cur.epoch = p.epoch /\ p.start # 0 /\ p.end + 1 = cur.start

Older(c, p, cur) ==
  LET mine(x) == x.epoch = p.epoch
      before  == Only(c.items, {i \in DOMAIN c.items : mine(c.items[i]) /\ c.items[i].end < p.start})
      rest    == Only(c.items, {i \in DOMAIN c.items : ~ mine(c.items[i]) \/ c.items[i].end > p.end})
      page    == ItemsOf(p)
      last    == page[Len(page)]
  IN  IF ~ AcceptsOlder(p, cur)
      THEN [c EXCEPT !.range = cur]
      ELSE [c EXCEPT
             !.items = before \o
                       (IF rest # <<>> /\ Same(last, rest[1])
                        THEN SubSeq(page, 1, Len(page) - 1) \o <<[last EXCEPT !.end = rest[1].end]>> \o Tail(rest)
                        ELSE page \o rest),
             !.range = [cur EXCEPT !.start = p.start],
             !.older = p.older]

\* processTimelineResponse and the commit of its result.
WithPage(c, p, cur, reset, boot) ==
  LET policy == TailPolicy(p, cur, reset, boot)
      shown  == IF policy = "discard" THEN c
                ELSE IF policy = "replace" THEN Replaced(c, p, Continues(p, cur, reset, boot))
                ELSE IF p.dir = "before" THEN Older(c, p, cur)
                ELSE Forward(c, p, cur, policy = "append")
  IN  IF p.dir = "before" THEN shown
      ELSE [shown EXCEPT !.newer  = p.newer,
                         !.synced = c.synced \/ (policy # "discard"
                                                  /\ (p.dir = "tail" \/ ~ p.newer))]

(***************************************************************************)
(* A live row.  Without a baseline it is laid over the painted items;      *)
(* with one it must be the next row, the first row of a new epoch, or it   *)
(* is dropped.                                                             *)
(***************************************************************************)
RowItem(r) == [epoch |-> r.epoch, anchor |-> r.anchor, end |-> r.seq, late |-> FALSE]

Classify(range, r) ==
  IF range = NoRange THEN "init"
  ELSE IF range.epoch # r.epoch THEN IF r.seq = 1 THEN "restart" ELSE "drop"
  ELSE IF r.seq <= range.end THEN "drop"
  ELSE IF r.seq = range.end + 1 THEN "accept"
  ELSE "gap"

WithRow(c, r) ==
  LET decision == Classify(c.range, r)
      overlay  == [RowItem(r) EXCEPT !.late = Late(c.items, RowItem(r))]
      fresh    == [epoch |-> r.epoch, start |-> r.seq, end |-> r.seq]
      grown(items, head, range) ==
        [c EXCEPT !.items = Upsert(Flush(items, head), RowItem(r)),
                  !.head = <<>>, !.range = range]
  IN  CASE ~ c.synced               -> [c EXCEPT !.head = Upsert(@, overlay)]
        [] c.synced /\ decision = "init"    -> grown(c.items, c.head, fresh)
        [] c.synced /\ decision = "accept"  -> grown(c.items, c.head,
                                                     [c.range EXCEPT !.end = r.seq])
        [] c.synced /\ decision = "restart" -> grown(<<>>, <<>>, fresh)
        [] OTHER                            -> c

\* A queue of rows is applied at once; a window into the past takes none.
WithRows(c, rs) == IF c.synced /\ c.newer THEN c ELSE Folded(WithRow, c, rs)

\* Some row of the queue was beyond the next one when its turn came.
RowsLeaveGap(c, rs) ==
  /\ c.synced /\ ~ c.newer
  /\ \E i \in DOMAIN rs :
       LET d == WithRows(c, SubSeq(rs, 1, i - 1)) IN Classify(d.range, rs[i]) = "gap"

\* What is written to the device: coverage only if it is the daemon's.
Snapshot(c) ==
  [items |-> Shown(c), range |-> IF c.synced THEN c.range ELSE NoRange,
   older |-> c.synced /\ c.older]
==============================================================================
