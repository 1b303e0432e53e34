---------------------------- MODULE TimelinePages ----------------------------
(***************************************************************************)
(* The daemon's projection of one chat and the pages it cuts from it       *)
(* (agent-timeline-store.ts, timeline-projection.ts).                      *)
(*                                                                         *)
(* A chat is a sequence of source rows, numbered from 1.  A row either     *)
(* starts an item of the transcript or continues one: a tool call is one   *)
(* item however many updates it gets, and a text grows chunk by chunk.     *)
(* rows[s] is the row that started the item row s belongs to, the item's   *)
(* display anchor, so rows[rows[s]] = rows[s].  The payload of a row is    *)
(* abstracted; what an item shows is determined by its last row.           *)
(*                                                                         *)
(* In a page 0 stands for the null of startSeq and endSeq.                 *)
(***************************************************************************)
EXTENDS Naturals, Sequences, FiniteSets, FiniteSetsExt

Anchors(rows) == {rows[s] : s \in DOMAIN rows}

Sources(rows, a) == {s \in DOMAIN rows : rows[s] = a}

\* The row appended next may start an item or continue any of the shown ones.
NextAnchors(rows) == Anchors(rows) \cup {Len(rows) + 1}

\* A projected entry: its display anchor and the last of its source rows.
Entry(rows, a) == [anchor |-> a, end |-> Max(Sources(rows, a))]

\* The entries of some anchors, in display order.
EntriesOf(rows, as) ==
  LET nth(i) == CHOOSE a \in as : Cardinality({b \in as : b < a}) = i - 1
  IN  [i \in 1..Cardinality(as) |-> Entry(rows, nth(i))]

NoEntries(older, newer) ==
  [entries |-> <<>>, start |-> 0, end |-> 0, older |-> older, newer |-> newer]

\* Mutant: the page claims the rows up to the last one of its entries.
AfterPageClaimingAll(rows, cursor, limit) ==
  LET first(a) == Min({s \in Sources(rows, a) : s > cursor})
      eligible == {rows[s] : s \in {t \in DOMAIN rows : t > cursor}}
      chosen   == {a \in eligible :
                    Cardinality({b \in eligible : first(b) < first(a)}) < limit}
      end      == Max(UNION {Sources(rows, a) : a \in chosen})
  IN  IF eligible = {}
      THEN NoEntries(cursor > 0, FALSE)
      ELSE [entries |-> EntriesOf(rows, chosen), start |-> cursor + 1, end |-> end,
            older |-> cursor > 0, newer |-> end < Len(rows)]

\* Entries with a row after the cursor, by the first such row.  An entry may
\* have rows further on, beyond rows of entries that did not fit: the page
\* claims the source rows it covers without a hole.
AfterPage(rows, cursor, limit) ==
  LET first(a)  == Min({s \in Sources(rows, a) : s > cursor})
      eligible  == {rows[s] : s \in {t \in DOMAIN rows : t > cursor}}
      chosen    == {a \in eligible :
                     Cardinality({b \in eligible : first(b) < first(a)}) < limit}
      covered   == {n \in (cursor + 1)..Len(rows) :
                     \A s \in (cursor + 1)..n : rows[s] \in chosen}
      end       == Max(covered)
  IN  IF eligible = {}
      THEN NoEntries(cursor > 0, FALSE)
      ELSE [entries |-> EntriesOf(rows, chosen), start |-> cursor + 1, end |-> end,
            older |-> cursor > 0, newer |-> end < Len(rows)]

\* Older history follows display order, so that an entry is on one page only.
BeforePage(rows, cursor, limit) ==
  LET end      == IF cursor > Len(rows) THEN Len(rows) ELSE cursor - 1
      eligible == {a \in Anchors(rows) : a <= end}
      chosen   == {a \in eligible : Cardinality({b \in eligible : b > a}) < limit}
  IN  IF end = 0
      THEN NoEntries(FALSE, end < Len(rows))
      ELSE [entries |-> EntriesOf(rows, chosen), start |-> Min(chosen), end |-> end,
            older |-> chosen # eligible, newer |-> end < Len(rows)]

\* The last entries, and before them every entry that was still updated after
\* the first of the page was started: the tail covers its rows without a hole.
TailPage(rows, limit) ==
  LET all     == EntriesOf(rows, Anchors(rows))
      base    == IF Len(all) > limit THEN Len(all) - limit + 1 ELSE 1
      from[i \in 1..base] ==
        IF i = base THEN base
        ELSE IF all[i].end >= all[from[i + 1]].anchor THEN i
        ELSE from[i + 1]
      start   == from[1]
  IN  IF rows = <<>>
      THEN NoEntries(FALSE, FALSE)
      ELSE [entries |-> SubSeq(all, start, Len(all)), start |-> all[start].anchor,
            end |-> Len(rows), older |-> start > 1, newer |-> FALSE]

==============================================================================
