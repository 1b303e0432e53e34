-------------------------- MODULE CollectionsProofs --------------------------
(***************************************************************************)
(* Lemmas about VersionedCollection, for every set of ids and contents and *)
(* any number of remembered removals: what its operations do to the        *)
(* numbers, and what an answer tells whoever asks with a cursor.           *)
(***************************************************************************)
EXTENDS Collections, FiniteSetTheorems, WellFoundedInduction, TLAPS

\* A collection as the code keeps it: numbers never run ahead of the head.
Collection == [entry : [Ids -> Entry], expired : Nat, head : Nat]

WellNumbered(c) ==
    /\ \A id \in Ids : WellFormed(c.entry[id]) /\ c.entry[id].seq <= c.head
    /\ c.expired <= c.head

\* What a step may do to a collection: an entry stays, or is numbered anew
\* above the old head, or was removed and is forgotten.
Evolves(c, d) ==
    /\ c.head <= d.head
    /\ c.expired <= d.expired
    /\ \A id \in Ids :
        \/ d.entry[id] = c.entry[id]
        \/ d.entry[id].kind # "unknown" /\ d.entry[id].seq > c.head
        \/ /\ d.entry[id] = Unknown
           /\ \/ c.entry[id].kind = "removed" /\ d.expired >= c.entry[id].seq
              \/ d.expired > c.head

\* A reader that holds "view" knows all that was numbered up to "seq".
Tells(c, view, seq) ==
    /\ seq <= c.head
    /\ \A id \in Ids :
        /\ (c.entry[id].kind # "unknown" /\ c.entry[id].seq <= seq) => view[id] = c.entry[id].value
        /\ (c.entry[id].kind = "unknown" /\ c.expired <= seq) => view[id] = None

\* No two known entries share a number.
Distinct(c) ==
    \A x, y \in Ids :
        (x # y /\ c.entry[x].kind # "unknown") => c.entry[x].seq # c.entry[y].seq

-----------------------------------------------------------------------------
\* One of finitely many things has the largest number.
LEMMA LargestExists ==
    ASSUME NEW D, IsFiniteSet(D), D # {}, NEW f \in [D -> Nat]
    PROVE  \E x \in D : \A y \in D : f[x] >= f[y]
<1> DEFINE Above(x) == {y \in D : f[y] > f[x]}
<1> DEFINE T == {Above(x) : x \in D}
<1>1. T \subseteq SUBSET D /\ T # {}
  <2>1. \A x \in D : Above(x) \in SUBSET D /\ Above(x) \in T
    OBVIOUS
  <2> HIDE DEF Above
  <2> QED
    BY <2>1
<1>2. IsWellFoundedOn(StrictSubsetOrdering(D), FiniteSubsetsOf(D))
  BY FS_StrictSubsetOrderingWellFounded
<1>3. T \subseteq FiniteSubsetsOf(D)
  <2>1. ASSUME NEW A \in SUBSET D PROVE IsFiniteSet(A)
    BY FS_Subset
  <2> HIDE DEF T
  <2> QED
    BY <2>1, <1>1 DEF FiniteSubsetsOf
<1> HIDE DEF T, Above
<1>4. PICK A \in T : \A B \in T : ~(<<B, A>> \in StrictSubsetOrdering(D))
  BY <1>1, <1>2, <1>3, WFMin
<1>5. PICK x \in D : A = Above(x)
  BY <1>4 DEF T
<1>6. ASSUME NEW y \in D, f[y] > f[x]
      PROVE  FALSE
  <2>1. Above(y) \in T
    BY DEF T
  <2>2. f[x] \in Nat /\ \A z \in D : f[z] \in Nat
    OBVIOUS
  <2>3. Above(y) \subseteq Above(x)
    BY <1>6, <2>2 DEF Above
  <2>4. y \in Above(x) /\ y \notin Above(y)
    BY <1>6, <2>2 DEF Above
  <2>5. Above(y) \in SUBSET D /\ Above(x) \in SUBSET D
    BY DEF Above
  <2>6. <<Above(y), Above(x)>> \in StrictSubsetOrdering(D)
    BY <2>3, <2>4, <2>5, Zenon DEF StrictSubsetOrdering
  <2> QED
    BY <2>1, <2>6, <1>4, <1>5
<1> QED
  BY <1>6

\* The largest element of a bounded set of numbers.
LEMMA MaxExists ==
    ASSUME NEW n \in Nat, NEW S \in SUBSET (0 .. n), S # {}
    PROVE  Max(S) \in S /\ \A y \in S : Max(S) >= y
<1> DEFINE f == [s \in S |-> s]
<1>1. IsFiniteSet(S) /\ f \in [S -> Nat]
  <2>1. IsFiniteSet(0 .. n)
    BY FS_Interval
  <2>2. IsFiniteSet(S)
    BY <2>1, FS_Subset
  <2>3. \A s \in S : s \in Nat
    OBVIOUS
  <2> QED
    BY <2>2, <2>3
<1>2. PICK x \in S : \A y \in S : f[x] >= f[y]
  BY <1>1, LargestExists
<1>3. \A y \in S : x >= y
  BY <1>2
<1> QED
  BY <1>3 DEF Max

\* Trimming forgets only removals, and notes the highest it forgets.
LEMMA TrimLemma ==
    ASSUME NEW c \in Collection, WellNumbered(c)
    PROVE  /\ TrimTombstones(c) \in Collection
           /\ WellNumbered(TrimTombstones(c))
           /\ TrimTombstones(c).head = c.head
           /\ TrimTombstones(c).expired >= c.expired
           /\ \A id \in Ids :
                \/ TrimTombstones(c).entry[id] = c.entry[id]
                \/ /\ TrimTombstones(c).entry[id] = Unknown
                   /\ c.entry[id].kind = "removed"
                   /\ TrimTombstones(c).expired >= c.entry[id].seq
<1> DEFINE gone == {c.entry[id].seq : id \in Forgotten(c)}
<1> DEFINE S == {c.expired} \cup gone
<1>t. c.head \in Nat /\ c.expired \in Nat /\ c.entry \in [Ids -> Entry]
  BY DEF Collection
<1>1. Forgotten(c) \subseteq Ids /\ \A id \in Forgotten(c) : c.entry[id].kind = "removed"
  BY DEF Forgotten, RemovedIds
<1>2. S \subseteq 0 .. c.head
  <2>1. \A id \in Ids : c.entry[id].seq \in 0 .. c.head
    BY <1>t DEF WellNumbered, Entry
  <2>2. gone \subseteq 0 .. c.head
    BY <2>1, <1>1
  <2>3. c.expired \in 0 .. c.head
    BY <1>t DEF WellNumbered
  <2> QED
    BY <2>2, <2>3
<1>3. S # {} /\ c.expired \in S /\ \A id \in Forgotten(c) : c.entry[id].seq \in S
  OBVIOUS
<1> HIDE DEF S
<1>4. Max(S) \in S /\ \A y \in S : Max(S) >= y
  BY <1>2, <1>3, <1>t, MaxExists
<1>5. Max(S) \in 0 .. c.head
  BY <1>2, <1>4
<1>6. Unknown \in Entry /\ WellFormed(Unknown) /\ Unknown.seq = 0
  BY CollectionsAssumption DEF Unknown, Entry, WellFormed
<1>7. TrimTombstones(c) =
        [entry |-> [id \in Ids |-> IF id \in Forgotten(c) THEN Unknown ELSE c.entry[id]],
         expired |-> Max(S), head |-> c.head]
  BY DEF TrimTombstones, S
<1> DEFINE trimmed == [id \in Ids |-> IF id \in Forgotten(c) THEN Unknown ELSE c.entry[id]]
<1>8. trimmed \in [Ids -> Entry]
  BY <1>t, <1>6
<1>9. \A id \in Ids : WellFormed(trimmed[id]) /\ trimmed[id].seq <= c.head
  BY <1>t, <1>6 DEF WellNumbered
<1>10. \A id \in Ids :
        \/ trimmed[id] = c.entry[id]
        \/ trimmed[id] = Unknown /\ c.entry[id].kind = "removed" /\ Max(S) >= c.entry[id].seq
  BY <1>1, <1>3, <1>4
<1> HIDE DEF trimmed
<1>11. TrimTombstones(c) = [entry |-> trimmed, expired |-> Max(S), head |-> c.head]
  BY <1>7 DEF trimmed
<1>12. TrimTombstones(c) \in Collection
  BY <1>11, <1>8, <1>5, <1>t DEF Collection
<1>13. WellNumbered(TrimTombstones(c))
  BY <1>11, <1>9, <1>5, <1>t DEF WellNumbered
<1>14. Max(S) >= c.expired
  BY <1>3, <1>4
<1> QED
  BY <1>10, <1>11, <1>12, <1>13, <1>14

\* An untrimmed change: each entry stays or is numbered above the old head.
Renumbers(c, d) ==
    /\ d \in Collection /\ WellNumbered(d)
    /\ c.head <= d.head
    /\ d.expired = c.expired
    /\ \A id \in Ids :
        d.entry[id] = c.entry[id] \/ (d.entry[id].kind # "unknown" /\ d.entry[id].seq > c.head)

\* What every operation of the collection keeps.
Advances(c, d) ==
    /\ d \in Collection /\ WellNumbered(d)
    /\ Evolves(c, d)
    /\ Distinct(c) => Distinct(d)

\* Renumbering some entries is a legal step.
LEMMA RenumberedLemma ==
    ASSUME NEW c \in Collection, WellNumbered(c), NEW d, Renumbers(c, d),
           Distinct(c) => Distinct(d)
    PROVE  Advances(c, d)
<1>1. c.head \in Nat /\ c.expired \in Nat /\ d.head \in Nat /\ d.expired \in Nat
  BY DEF Collection, Renumbers
<1>2. Evolves(c, d)
  BY <1>1 DEF Renumbers, Evolves
<1> QED
  BY <1>2 DEF Advances, Renumbers

\* Trimming the tombstones afterwards keeps it one.
LEMMA TrimmedLemma ==
    ASSUME NEW c \in Collection, WellNumbered(c), NEW d, Renumbers(c, d),
           Distinct(c) => Distinct(d)
    PROVE  Advances(c, TrimTombstones(d))
<1> DEFINE t == TrimTombstones(d)
<1>0. d \in Collection /\ WellNumbered(d)
  BY DEF Renumbers
<1>1. /\ t \in Collection /\ WellNumbered(t)
      /\ t.head = d.head /\ t.expired >= d.expired
      /\ \A id \in Ids :
            \/ t.entry[id] = d.entry[id]
            \/ t.entry[id] = Unknown /\ d.entry[id].kind = "removed" /\ t.expired >= d.entry[id].seq
  BY <1>0, TrimLemma
<1> HIDE DEF t
<1>2. /\ c.head \in Nat /\ c.expired \in Nat /\ d.head \in Nat /\ d.expired \in Nat
      /\ t.head \in Nat /\ t.expired \in Nat
      /\ \A id \in Ids : c.entry[id].seq \in Nat /\ d.entry[id].seq \in Nat /\ t.entry[id].seq \in Nat
  BY <1>0, <1>1 DEF Collection, Entry
<1>3. ASSUME NEW id \in Ids
      PROVE  \/ t.entry[id] = c.entry[id]
             \/ t.entry[id].kind # "unknown" /\ t.entry[id].seq > c.head
             \/ /\ t.entry[id] = Unknown
                /\ \/ c.entry[id].kind = "removed" /\ t.expired >= c.entry[id].seq
                   \/ t.expired > c.head
  <2>1. d.entry[id] = c.entry[id] \/ (d.entry[id].kind # "unknown" /\ d.entry[id].seq > c.head)
    BY DEF Renumbers
  <2>2. \/ t.entry[id] = d.entry[id]
        \/ t.entry[id] = Unknown /\ d.entry[id].kind = "removed" /\ t.expired >= d.entry[id].seq
    BY <1>1
  <2>3. CASE t.entry[id] = d.entry[id]
    BY <2>1, <2>3
  <2>4. CASE t.entry[id] = Unknown /\ d.entry[id].kind = "removed" /\ t.expired >= d.entry[id].seq
    BY <1>2, <2>1, <2>4
  <2> QED
    BY <2>2, <2>3, <2>4
<1>4. Evolves(c, t)
  BY <1>1, <1>2, <1>3 DEF Evolves, Renumbers
<1>5. ASSUME Distinct(d) PROVE Distinct(t)
  <2>1. SUFFICES ASSUME NEW x \in Ids, NEW y \in Ids, x # y, t.entry[x].kind # "unknown"
                 PROVE  t.entry[x].seq # t.entry[y].seq
    BY DEF Distinct
  <2>2. t.entry[x] = d.entry[x]
    BY <1>1, <2>1 DEF Unknown
  <2>3. t.entry[x].seq # d.entry[y].seq
    BY <2>1, <2>2, <1>5 DEF Distinct
  <2>4. t.entry[x].seq # 0
    BY <2>1, <1>1 DEF WellNumbered, WellFormed
  <2>5. t.entry[y] = d.entry[y] \/ t.entry[y] = Unknown
    BY <1>1
  <2> QED
    BY <2>3, <2>4, <2>5 DEF Unknown
<1> QED
  BY <1>1, <1>4, <1>5 DEF Advances, t

\* A published value is a legal step.
LEMMA ReplaceLemma ==
    ASSUME NEW c \in Collection, WellNumbered(c), NEW id \in Ids, NEW value \in Contents
    PROVE  Advances(c, Replace(c, id, value))
<1>t. c.head \in Nat /\ c.expired \in Nat /\ c.entry \in [Ids -> Entry]
      /\ \A i \in Ids : c.entry[i].seq \in Nat
  BY DEF Collection, Entry
<1>1. CASE c.entry[id] = Live(c.entry[id].seq, value)
  BY <1>1, <1>t DEF Replace, Advances, Evolves, WellNumbered
<1>2. CASE c.entry[id] # Live(c.entry[id].seq, value)
  <2> DEFINE e == Live(c.head + 1, value)
             d == [entry |-> [c.entry EXCEPT ![id] = e], expired |-> c.expired, head |-> c.head + 1]
  <2>1. e \in Entry /\ WellFormed(e) /\ e.kind # "unknown" /\ e.seq = c.head + 1
    BY <1>t, CollectionsAssumption DEF Live, Entry, WellFormed
  <2>2. Replace(c, id, value) = d
    BY <1>2 DEF Replace, Stored
  <2>3. d.entry[id] = e /\ (\A i \in Ids \ {id} : d.entry[i] = c.entry[i])
        /\ d.head = c.head + 1 /\ d.expired = c.expired
    BY <1>t
  <2>4. d \in Collection
    BY <1>t, <2>1 DEF Collection
  <2> HIDE DEF d, e
  <2>5. WellNumbered(d)
    BY <2>1, <2>3, <1>t DEF WellNumbered
  <2>6. Renumbers(c, d)
    BY <2>1, <2>3, <2>4, <2>5, <1>t DEF Renumbers
  <2>7. Distinct(c) => Distinct(d)
    BY <2>1, <2>3, <1>t DEF Distinct, WellNumbered
  <2> QED
    BY <2>2, <2>6, <2>7, RenumberedLemma
<1> QED
  BY <1>1, <1>2

\* A published removal is a legal step.
LEMMA RemoveLemma ==
    ASSUME NEW c \in Collection, WellNumbered(c), NEW id \in Ids
    PROVE  Advances(c, Remove(c, id))
<1>t. c.head \in Nat /\ c.expired \in Nat /\ c.entry \in [Ids -> Entry]
      /\ \A i \in Ids : c.entry[i].seq \in Nat
  BY DEF Collection, Entry
<1>1. CASE id \notin LiveIds(c)
  BY <1>1, <1>t DEF Remove, Advances, Evolves, WellNumbered
<1>2. CASE id \in LiveIds(c)
  <2> DEFINE e == Removed(c.head + 1)
             d == [entry |-> [c.entry EXCEPT ![id] = e], expired |-> c.expired, head |-> c.head + 1]
  <2>1. e \in Entry /\ WellFormed(e) /\ e.kind # "unknown" /\ e.seq = c.head + 1
    BY <1>t, CollectionsAssumption DEF Removed, Entry, WellFormed
  <2>2. Remove(c, id) = TrimTombstones(d)
    BY <1>2 DEF Remove, Stored
  <2>3. d.entry[id] = e /\ (\A i \in Ids \ {id} : d.entry[i] = c.entry[i])
        /\ d.head = c.head + 1 /\ d.expired = c.expired
    BY <1>t
  <2>4. d \in Collection
    BY <1>t, <2>1 DEF Collection
  <2> HIDE DEF d, e
  <2>5. WellNumbered(d)
    BY <2>1, <2>3, <1>t DEF WellNumbered
  <2>6. Renumbers(c, d)
    BY <2>1, <2>3, <2>4, <2>5, <1>t DEF Renumbers
  <2>7. Distinct(c) => Distinct(d)
    BY <2>1, <2>3, <1>t DEF Distinct, WellNumbered
  <2> QED
    BY <2>2, <2>6, <2>7, TrimmedLemma
<1> QED
  BY <1>1, <1>2

\* An authoritative snapshot is a legal step.
LEMMA ReplaceAllLemma ==
    ASSUME NEW c \in Collection, WellNumbered(c), NEW snapshot \in Snapshots,
           NEW order \in Orders(c, snapshot)
    PROVE  Advances(c, ReplaceAll(c, snapshot, order))
<1> DEFINE ups == Upserts(c, snapshot)
           removals == Removals(c, snapshot)
           n == Cardinality(ups \cup removals)
           entry == [id \in Ids |->
                        IF id \in ups THEN Live(c.head + order[id], snapshot[id])
                        ELSE IF id \in removals THEN Removed(c.head + order[id])
                        ELSE c.entry[id]]
           d == [entry |-> entry, expired |-> c.expired, head |-> c.head + n]
<1>t. c.head \in Nat /\ c.expired \in Nat /\ c.entry \in [Ids -> Entry]
      /\ \A i \in Ids : c.entry[i].seq \in Nat
  BY DEF Collection, Entry
<1>1. ups \subseteq Ids /\ removals \subseteq Ids
  BY DEF Upserts, Removals, LiveIds
<1>2. n \in Nat
  <2> HIDE DEF ups, removals
  <2>1. IsFiniteSet(ups \cup removals)
    BY <1>1, FS_Subset, CollectionsAssumption
  <2> QED
    BY <2>1, FS_CardinalityType
<1>3. /\ order \in [ups \cup removals -> 1 .. n]
      /\ \A x, y \in ups \cup removals : x # y => order[x] # order[y]
  BY DEF Orders
<1>4. \A id \in ups : snapshot[id] \in Contents
  BY DEF Upserts, Snapshots
<1>5. ReplaceAll(c, snapshot, order) = TrimTombstones(d)
  BY DEF ReplaceAll
<1> HIDE DEF ups, removals, n
<1>6. \A id \in ups \cup removals : order[id] \in 1 .. n /\ c.head + order[id] \in Nat
  BY <1>2, <1>3, <1>t
<1>7. \A id \in ups \cup removals :
        /\ entry[id] \in Entry /\ WellFormed(entry[id])
        /\ entry[id].kind # "unknown" /\ entry[id].seq = c.head + order[id]
  <2>1. ASSUME NEW id \in ups
        PROVE  /\ entry[id] \in Entry /\ WellFormed(entry[id])
               /\ entry[id].kind # "unknown" /\ entry[id].seq = c.head + order[id]
    <3>1. entry[id] = Live(c.head + order[id], snapshot[id])
      BY <1>1
    <3>2. c.head + order[id] \in Nat /\ c.head + order[id] # 0 /\ snapshot[id] \in Contents
      BY <1>6, <1>4, <1>t, <1>2
    <3> HIDE DEF entry
    <3> QED
      BY <3>1, <3>2, CollectionsAssumption DEF Live, Entry, WellFormed
  <2>2. ASSUME NEW id \in removals, id \notin ups
        PROVE  /\ entry[id] \in Entry /\ WellFormed(entry[id])
               /\ entry[id].kind # "unknown" /\ entry[id].seq = c.head + order[id]
    <3>1. entry[id] = Removed(c.head + order[id])
      BY <1>1, <2>2
    <3>2. c.head + order[id] \in Nat /\ c.head + order[id] # 0
      BY <1>6, <1>t, <1>2
    <3> HIDE DEF entry
    <3> QED
      BY <3>1, <3>2, CollectionsAssumption DEF Removed, Entry, WellFormed
  <2> QED
    BY <2>1, <2>2
<1>8. \A id \in Ids \ (ups \cup removals) : entry[id] = c.entry[id]
  OBVIOUS
<1>9. entry \in [Ids -> Entry]
  <2>1. \A id \in Ids : entry[id] \in Entry
    BY <1>7, <1>8, <1>t
  <2> QED
    BY <2>1
<1>10. d.entry = entry /\ d.head = c.head + n /\ d.expired = c.expired
  OBVIOUS
<1> HIDE DEF entry
<1>11. d \in Collection
  BY <1>2, <1>9, <1>t DEF Collection
<1> HIDE DEF d
<1>12. \A id \in Ids : WellFormed(entry[id]) /\ entry[id].seq <= c.head + n
  <2>1. ASSUME NEW id \in ups \cup removals
        PROVE  WellFormed(entry[id]) /\ entry[id].seq <= c.head + n
    BY <1>7, <1>6, <1>2, <1>t
  <2>2. ASSUME NEW id \in Ids \ (ups \cup removals)
        PROVE  WellFormed(entry[id]) /\ entry[id].seq <= c.head + n
    BY <1>8, <1>2, <1>t DEF WellNumbered
  <2> QED
    BY <2>1, <2>2
<1>13. WellNumbered(d)
  BY <1>10, <1>12, <1>2, <1>t DEF WellNumbered
<1>14. \A id \in ups \cup removals : entry[id].seq > c.head
  BY <1>7, <1>6, <1>2, <1>t
<1>15. Renumbers(c, d)
  BY <1>2, <1>7, <1>8, <1>10, <1>11, <1>13, <1>14, <1>t DEF Renumbers
<1>16. ASSUME Distinct(c) PROVE Distinct(d)
  <2>1. SUFFICES ASSUME NEW x \in Ids, NEW y \in Ids, x # y, entry[x].kind # "unknown"
                 PROVE  entry[x].seq # entry[y].seq
    BY <1>10 DEF Distinct
  <2>2. CASE x \in ups \cup removals /\ y \in ups \cup removals
    BY <2>1, <2>2, <1>3, <1>6, <1>7, <1>t
  <2>3. CASE x \in ups \cup removals /\ y \notin ups \cup removals
    BY <2>3, <1>8, <1>14, <1>t DEF WellNumbered
  <2>4. CASE x \notin ups \cup removals /\ y \in ups \cup removals
    BY <2>4, <1>8, <1>14, <1>t DEF WellNumbered
  <2>5. CASE x \notin ups \cup removals /\ y \notin ups \cup removals
    BY <2>1, <2>5, <1>8, <1>16 DEF Distinct
  <2> QED
    BY <2>2, <2>3, <2>4, <2>5
<1> QED
  BY <1>5, <1>15, <1>16, TrimmedLemma

\* The steps of a collection lose a reader nothing it already knew.
LEMMA TellsLemma ==
    ASSUME NEW c \in Collection, WellNumbered(c), NEW d \in Collection, Evolves(c, d),
           NEW view, NEW seq \in Nat, Tells(c, view, seq)
    PROVE  Tells(d, view, seq)
<1>t. /\ c.head \in Nat /\ c.expired \in Nat /\ d.head \in Nat /\ d.expired \in Nat
      /\ \A id \in Ids : c.entry[id].seq \in Nat /\ d.entry[id].seq \in Nat
  BY DEF Collection, Entry
<1>1. seq <= c.head /\ c.head <= d.head /\ c.expired <= d.expired
  BY DEF Tells, Evolves
<1>2. ASSUME NEW id \in Ids
      PROVE  /\ (d.entry[id].kind # "unknown" /\ d.entry[id].seq <= seq) => view[id] = d.entry[id].value
             /\ (d.entry[id].kind = "unknown" /\ d.expired <= seq) => view[id] = None
  <2>0. /\ (c.entry[id].kind # "unknown" /\ c.entry[id].seq <= seq) => view[id] = c.entry[id].value
        /\ (c.entry[id].kind = "unknown" /\ c.expired <= seq) => view[id] = None
    BY DEF Tells
  <2>1. CASE d.entry[id] = c.entry[id]
    BY <2>0, <2>1, <1>1, <1>t
  <2>2. CASE d.entry[id].kind # "unknown" /\ d.entry[id].seq > c.head
    BY <2>2, <1>1, <1>t
  <2>3. CASE d.entry[id] = Unknown /\ c.entry[id].kind = "removed" /\ d.expired >= c.entry[id].seq
    <3>1. c.entry[id].value = None /\ c.entry[id].kind # "unknown"
      BY <2>3, CollectionsAssumption DEF WellNumbered, WellFormed, Collection, Entry
    <3> QED
      BY <2>0, <2>3, <3>1, <1>t DEF Unknown
  <2>4. CASE d.entry[id] = Unknown /\ d.expired > c.head
    BY <2>4, <1>1, <1>t DEF Unknown
  <2> QED
    BY <2>1, <2>2, <2>3, <2>4 DEF Evolves
<1> QED
  BY <1>1, <1>2, <1>t DEF Tells

\* Merging an answer tells a reader all that is numbered so far, provided it
\* knew what its cursor says.
LEMMA ReadLemma ==
    ASSUME NEW c \in Collection, WellNumbered(c), NEW view \in Snapshots, NEW gen \in Nat,
           NEW cur \in {None} \cup [generation : Nat, seq : Nat],
           (cur # None /\ cur.generation = gen) => Tells(c, view, cur.seq)
    PROVE  /\ Read(c, gen, cur) \in Reads
           /\ Read(c, gen, cur).head = c.head
           /\ Tells(c, Merge(view, Read(c, gen, cur)), c.head)
<1> DEFINE read == Read(c, gen, cur)
<1>t. /\ c.head \in Nat /\ c.expired \in Nat
      /\ c.entry \in [Ids -> Entry]
      /\ \A id \in Ids : c.entry[id].seq \in Nat /\ WellFormed(c.entry[id]) /\ c.entry[id].seq <= c.head
  BY DEF Collection, Entry, WellNumbered
<1>k. \A id \in Ids : /\ c.entry[id].kind \in {"unknown", "live", "removed"}
                      /\ (c.entry[id].kind = "live") => c.entry[id].value \in Contents
                      /\ (c.entry[id].kind # "live") => c.entry[id].value = None
  BY <1>t DEF Entry, WellFormed
<1>1. ASSUME read = ReadSnapshot(c)
      PROVE  /\ read \in Reads /\ read.head = c.head
             /\ Tells(c, Merge(view, read), c.head)
  <2> DEFINE values == [id \in LiveIds(c) |-> c.entry[id].value]
  <2>1. read = [mode |-> "snapshot", head |-> c.head, values |-> values, removals |-> {}]
    BY <1>1 DEF ReadSnapshot
  <2>2. LiveIds(c) \in SUBSET Ids /\ values \in [LiveIds(c) -> Contents]
    BY <1>k DEF LiveIds
  <2>3. values \in UNION {[ids -> Contents] : ids \in SUBSET Ids}
    BY <2>2
  <2>4. DOMAIN values = LiveIds(c) /\ \A id \in LiveIds(c) : values[id] = c.entry[id].value
    OBVIOUS
  <2> HIDE DEF values, read
  <2>5. read \in Reads
    BY <2>1, <2>3, <1>t DEF Reads
  <2>6. \A id \in Ids : Merge(view, read)[id] = c.entry[id].value
    BY <2>1, <2>4, <1>k DEF Merge, LiveIds
  <2>7. Tells(c, Merge(view, read), c.head)
    BY <2>6, <1>k, <1>t DEF Tells
  <2> QED
    BY <2>1, <2>5, <2>7
<1>2. ASSUME read # ReadSnapshot(c)
      PROVE  /\ read \in Reads /\ read.head = c.head
             /\ Tells(c, Merge(view, read), c.head)
  <2>1. /\ cur # None /\ cur.generation = gen
        /\ cur.seq \in Nat /\ c.expired <= cur.seq /\ cur.seq <= c.head
        /\ read = ReadAfter(c, cur.seq)
    BY <1>2, <1>t DEF Read, ReadAfter
  <2> DEFINE changed == {id \in LiveIds(c) : c.entry[id].seq > cur.seq}
             values == [id \in changed |-> c.entry[id].value]
             removals == {id \in RemovedIds(c) : c.entry[id].seq > cur.seq}
  <2>2. read = [mode |-> "changes", head |-> c.head, values |-> values, removals |-> removals]
    BY <2>1, <1>t DEF ReadAfter
  <2>3. /\ changed \in SUBSET Ids /\ removals \in SUBSET Ids
        /\ values \in [changed -> Contents]
    BY <1>k DEF LiveIds, RemovedIds
  <2>4. values \in UNION {[ids -> Contents] : ids \in SUBSET Ids}
    BY <2>3
  <2>5. DOMAIN values = changed /\ \A id \in changed : values[id] = c.entry[id].value
    OBVIOUS
  <2>6. Tells(c, view, cur.seq)
    BY <2>1
  <2>7. \A id \in Ids :
            /\ id \in changed <=> (c.entry[id].kind = "live" /\ c.entry[id].seq > cur.seq)
            /\ id \in removals <=> (c.entry[id].kind = "removed" /\ c.entry[id].seq > cur.seq)
    BY DEF LiveIds, RemovedIds
  <2> HIDE DEF values, changed, removals, read
  <2>8. read \in Reads
    BY <2>2, <2>3, <2>4, <1>t DEF Reads
  <2>9. \A id \in Ids : Merge(view, read)[id] =
            IF id \in changed THEN c.entry[id].value ELSE IF id \in removals THEN None ELSE view[id]
    BY <2>2, <2>5 DEF Merge
  <2>10. ASSUME NEW id \in Ids
         PROVE  Merge(view, read)[id] = c.entry[id].value
    <3>0. /\ id \in changed <=> (c.entry[id].kind = "live" /\ c.entry[id].seq > cur.seq)
          /\ id \in removals <=> (c.entry[id].kind = "removed" /\ c.entry[id].seq > cur.seq)
      BY <2>7
    <3>k. /\ c.entry[id].kind \in {"unknown", "live", "removed"} /\ c.entry[id].seq \in Nat
          /\ (c.entry[id].kind # "live") => c.entry[id].value = None
      <4>1. c.entry[id].kind \in {"unknown", "live", "removed"}
        BY <1>k
      <4>2. (c.entry[id].kind # "live") => c.entry[id].value = None
        BY <1>k
      <4>3. c.entry[id].seq \in Nat
        BY <1>t
      <4> QED
        BY <4>1, <4>2, <4>3
    <3>1. CASE id \in changed
      BY <3>1, <2>9
    <3>2. CASE id \in removals /\ id \notin changed
      BY <3>2, <2>9, <3>0, <3>k
    <3>3. CASE id \notin removals /\ id \notin changed
      <4>1. Merge(view, read)[id] = view[id]
        BY <3>3, <2>9
      <4>2. c.entry[id].kind = "unknown" \/ c.entry[id].seq <= cur.seq
        BY <3>3, <3>0, <3>k, <2>1
      <4>3. view[id] = c.entry[id].value
        BY <4>2, <2>6, <2>1, <3>k DEF Tells
      <4> QED
        BY <4>1, <4>3
    <3> QED
      BY <3>1, <3>2, <3>3
  <2>11. Tells(c, Merge(view, read), c.head)
    BY <2>10, <1>k, <1>t DEF Tells
  <2> QED
    BY <2>2, <2>8, <2>11
<1> QED
  BY <1>1, <1>2

\* Whatever cursor it is asked with, an answer has its type.
LEMMA ReadType ==
    ASSUME NEW c \in Collection, WellNumbered(c), NEW gen \in Nat,
           NEW cur \in {None} \cup [generation : Nat, seq : Nat]
    PROVE  Read(c, gen, cur) \in Reads /\ Read(c, gen, cur).head = c.head
<1>t. /\ c.head \in Nat /\ c.entry \in [Ids -> Entry]
      /\ \A id \in Ids : c.entry[id].seq \in Nat /\ WellFormed(c.entry[id])
  BY DEF Collection, Entry, WellNumbered
<1>1. View(c) \in Snapshots
  BY <1>t DEF View, Snapshots, Entry
<1>2. CASE cur # None /\ cur.generation = gen /\ cur.seq <= c.head
  <2>1. \A id \in Ids : (c.entry[id].kind = "unknown") => View(c)[id] = None
    BY <1>t DEF WellFormed, View, Entry
  <2>2. Tells(c, View(c), cur.seq)
    BY <1>2, <2>1 DEF Tells, View
  <2> QED
    BY <1>1, <2>2, ReadLemma
<1>3. CASE ~(cur # None /\ cur.generation = gen /\ cur.seq <= c.head)
  <2>1. Read(c, gen, cur) = Read(c, gen, None)
    BY <1>3, <1>t DEF Read, ReadAfter
  <2>2. None \in {None} \cup [generation : Nat, seq : Nat]
    OBVIOUS
  <2>3. Read(c, gen, None) \in Reads /\ Read(c, gen, None).head = c.head
    BY <1>1, <2>2, ReadLemma
  <2> QED
    BY <2>1, <2>3
<1> QED
  BY <1>2, <1>3

\* What merging makes of a reader's entities.
LEMMA MergeType ==
    ASSUME NEW view \in Snapshots, NEW read \in Reads
    PROVE  Merge(view, read) \in Snapshots
<1>1. PICK ids \in SUBSET Ids : read.values \in [ids -> Contents]
  BY DEF Reads
<1> QED
  BY <1>1 DEF Merge, Snapshots

==============================================================================
